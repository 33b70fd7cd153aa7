SPECIFICATION LifecycleFairSpec
CONSTANTS
  api = api  r1 = r1  r2 = r2  c1 = c1  c2 = c2
  NoProc = NoProc
  Apis <- MCApis
  Requests = {r1}
  ApiOf <- MCApiOf
  Clients = {c1}
  Submits <- MCSubmits
  Approvers = {a1}
  Revokers = {v1}
  Workers = {w1}
  Disablers = {d1}
  GodDisablers = {d1}
  Enablers = {}
  TeardownWorkers = {t1}
  Others = {d1, t1}
  FaultKinds = {"refused", "lost", "dblost", "late", "db", "takeover", "stall", "crash"}
  MaxFaults = 1
PROPERTIES DisabledIsStripped
