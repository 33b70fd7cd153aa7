SPECIFICATION Spec
CONSTANTS
    Ops = {o1, o2, o3, o4}
    NoOp = NoOp
    Faults = {"refuse", "lost", "late", "tx", "ack", "takeover", "crash"}
    Solo = {"late"}
    MaxFaults = 2
SYMMETRY Symmetric
CHECK_DEADLOCK FALSE
INVARIANTS
    KeysHaveAnOwner
    RemovalIsOnRecord
