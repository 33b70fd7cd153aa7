SPECIFICATION Spec
CONSTANTS
    o1 = o1  o2 = o2  o3 = o3
    Origin = Origin
    None = None
    Ops = {o1, o2, o3}
    Shapes <- MCShapes
    Kinds = {"publish", "swap", "gate", "revise", "convert", "restore", "remove", "flag"}
    FaultKinds = {"refuse", "lost", "late", "unsent", "tx", "crash", "loss"}
    MaxFaults = 2
SYMMETRY Symmetric
CHECK_DEADLOCK FALSE
INVARIANTS
    PublishingTypeOK
    OpenIsReported
    ProxiesAreAccountedFor
    DeployedRunsItsGate
PROPERTIES
    UnconfirmedIsLeftAlone
