SPECIFICATION InstanceSpec
CONSTANTS
  Streams <- InstanceStreams
  Value <- InstanceValue
  HeaderRoom = 40
  LineRoom = 12
  TempRoom = 2
  StatusRoom = 5
  PutMark <- Mark
  Wanted <- InstanceWanted
  Names <- InstanceNames
  Room <- InstanceRoom
  MAX_IN_OUT = 41
  Minors <- InstanceMinors
  MaxListed = 3
INVARIANTS
  CodecTypeOK
  StatusInArrays
  AnswerIsWhole
  SafeFragmentsComplete
PROPERTIES
  AnswersAsAsked
  RefusalsExplained
CHECK_DEADLOCK FALSE
