SPECIFICATION InstanceSpec
CONSTANTS
  d1 = d1
  d2 = d2
  p1 = p1
  p2 = p2
  None = None
  Dysks = {d1, d2}
  Callers = {p1, p2}
  MaxLoads = 2
  MaxLeases = 2
INVARIANTS
  LeftIsOfDysks
  TroubleExplained
  ThreadHasMemory
  CountMatches
  NodeTypeOK
  OneWriter
  LeasedHasEndpoint
PROPERTIES
  UnloadEnds
  StaleIsTaken
CHECK_DEADLOCK FALSE
