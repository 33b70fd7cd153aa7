SPECIFICATION FairSpec
CONSTANTS
  reset = reset  legacy = legacy
  NoProc = NoProc  NoMessage = NoMessage
  Messages <- MCMessages
  Bound = {reset}
  Priority <- MCPriority
  Workers = {w1, w2}
  Releasers = {a1}
  MaxAttempts = 2
  BatchSize = 1
  MaxLapses = 1
  MaxErrors = 1
INVARIANTS OutboxTypeOK CopiesAreAccountedFor
PROPERTIES NoMailAfterRelease SettledIsFinal QueueDrains
