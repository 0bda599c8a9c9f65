SPECIFICATION FairSpec
CONSTANTS
  Window = 4
  Chunk = 2
  RingCap = 5
  RingHigh = 3
  RingLow = 1
  MaxTries = 2
  Trials = 2
  Windows = 2
  Hasty = {}
INVARIANTS OneWindowInFlight NoOverflow
PROPERTIES SettledOnAck SenderEnds
