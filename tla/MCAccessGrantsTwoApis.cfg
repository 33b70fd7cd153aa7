SPECIFICATION FairSpec
CONSTANTS
  apiA = apiA  apiB = apiB  rA = rA  rB = rB  cA = cA  cB = cB
  NoProc = NoProc
  Apis <- MCApis
  Requests <- MCRequests
  ApiOf <- MCApiOf
  Clients <- MCClients
  Submits <- MCSubmits
  Approvers = {a1, a2}
  Revokers = {v1}
  Workers = {w1}
  Others = {}
  FaultKinds = {"refused", "dblost", "db", "takeover", "stall", "crash"}
  MaxFaults = 2
PROPERTIES Converges
