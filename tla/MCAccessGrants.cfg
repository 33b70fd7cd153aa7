SPECIFICATION Spec
CONSTANTS
  api = api  r1 = r1  r2 = r2  c1 = c1  c2 = c2  a1 = a1  v1 = v1  v2 = v2
  NoProc = NoProc
  Apis <- MCApis
  Requests <- MCRequests
  ApiOf <- MCApiOf
  Clients <- MCClients
  Submits <- MCSubmits
  Approvers = {a1}
  Revokers <- MCRevokers
  Workers = {w1}
  Others = {}
  FaultKinds = {"refused", "lost", "dblost", "late", "db", "takeover", "stall", "crash"}
  MaxFaults = 3
SYMMETRY Symmetry
INVARIANTS NoStrandedAccess HistoryMatchesGrant
PROPERTIES DecisionsAreFinal OnlyOwnRollback
