\* A god-mode disable whose sweep meets an enable and a new approval.
SPECIFICATION LifecycleSpec
CONSTANTS
  api = api  r1 = r1  r2 = r2  c1 = c1  c2 = c2
  NoProc = NoProc
  Apis <- MCApis
  Requests = {r1, r2}
  ApiOf <- MCApiOf
  Clients = {c1, c2}
  Submits <- MCSubmits
  Approvers = {a1, a2}
  Revokers = {}
  Workers = {}
  Disablers = {d1}
  GodDisablers = {d1}
  Enablers = {e1}
  TeardownWorkers = {}
  Others = {d1, e1}
  FaultKinds = {}
  MaxFaults = 0
INVARIANT SweepFindsNoRegrant
