SPECIFICATION FairSpec
CONSTANTS
  z1 = z1  z2 = z2
  approve1 = approve1  palette1 = palette1  approve2 = approve2
  proxy = proxy  consumer = consumer
  Free = Free
  Serializers <- MCSerializers
  Sections <- MCSections
  Keys <- MCKeys
  SerializerOf <- MCSerializerOf
  Plan <- MCPlan
INVARIANTS TypeOK NoLostUpdate NoOverlapInSerializer
PROPERTIES NoStaleDecision EveryWaitEnds ImplementsTurns
