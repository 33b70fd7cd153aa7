\* Two super admins and a member, or nobody yet; a trusted and a lower-trust
\* provider; the operations of MCWorkloads.
CONSTANTS
  Ops = {o1, o2, o3}
  Founders = {s1, s2}
  Members = {m1}
  Providers = {pt, pl}
  Synced = {pt, pl}
  Trusted = {pt}
  Origin = Origin
  None = None
  Workloads <- MCWorkloads
SPECIFICATION Spec
SYMMETRY Symmetric
INVARIANTS AccountsTypeOK SessionsAreCurrent ResetLinksAreFresh CutOffEndsSessions
PROPERTIES SeatIsKept AuthorityIsCurrent
CHECK_DEADLOCK FALSE
