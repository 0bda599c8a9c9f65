SPECIFICATION Spec
CONSTANTS
  Transports = {"tcp", "serial", "posix"}
  SockCap = 2  PtyCap = 2  ReadMax = 2
  RingCap = 3  RingHigh = 2  RingLow = 0
  Keys = {"x"}
  MaxOut = 3  MaxKeys = 1  MaxAsks = 2
INVARIANTS StreamsKept
PROPERTIES BridgeEnds FlowResumes
