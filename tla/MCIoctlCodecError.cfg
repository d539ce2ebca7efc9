SPECIFICATION CodecSpec
CONSTANTS
  Wanted <- InstanceWanted
  Names <- InstanceNames
  Room <- InstanceRoom
  MAX_IN_OUT = 41
  Minors <- InstanceMinors
  MaxListed = 3
INVARIANT ErrorIsMessage
CHECK_DEADLOCK FALSE
