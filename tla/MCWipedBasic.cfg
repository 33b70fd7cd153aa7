SPECIFICATION Spec
CONSTANTS
    a = a  b = b  x = x  y = y  z = z  r = r
    NoProc = NoProc
    Initial = {a, b}
    Ops = {x, y, z}
    Runners = {}
    Legacy = {}
    Cap = 3
    Solo = {}
    BlockingAttempts = 1
    MaxEvents = 0
    Faults = {"lost"}
    MaxFaults = 1
SYMMETRY Symmetric
PROPERTIES PositionsAreConfirmed
