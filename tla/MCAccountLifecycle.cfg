SPECIFICATION LifecycleFairSpec
CONSTANTS
  api = api  r1 = r1  r2 = r2  c1 = c1  c2 = c2
  NoProc = NoProc
  Apis <- MCApis
  Requests = {r1}
  ApiOf <- MCApiOf
  Clients = {c1}
  Submits <- MCSubmits
  Approvers = {a1}
  Revokers = {v1}
  Workers = {w1}
  Disablers = {d1}
  GodDisablers = {}
  Enablers = {e1}
  TeardownWorkers = {t1}
  Others = {d1, e1, t1}
  FaultKinds = {"crash"}
  MaxFaults = 1
INVARIANTS LifecycleTypeOK GroupsAccountedFor GrantsAreServed
PROPERTIES EnabledConverges
