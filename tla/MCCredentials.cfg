SPECIFICATION Spec
CONSTANTS
    a = a  b = b  x = x  y = y  z = z  r = r
    NoProc = NoProc
    Initial = {a, b}
    Ops = {x, y}
    Runners = {r}
    Legacy = {a, b}
    Cap = 2
    Solo = {"ack", "crash", "stale"}
    BlockingAttempts = 1
    MaxEvents = 1
    Faults = {"refuse", "lost", "read", "tx", "ack", "crash", "stale"}
    MaxFaults = 2
SYMMETRY Symmetric
INVARIANTS
    CredentialsTypeOK
    RevokedIsDead
    SecretsAreAccountedFor
    TornDownHoldsNothing
PROPERTIES
    NoLiveKeyLost
    RecoveryRevokesAll
