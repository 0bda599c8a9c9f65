SPECIFICATION FairSpec
CONSTANTS
  MaxReply = 2
  HostBytes = {h}
  TermBytes = {d}
  XON = XON
  XOFF = XOFF
  None = None
  RxSize = 4
  TxSize = 3
  RingHigh = 2
  RingLow = 0
  Slack = 0
  OtherSources = FALSE
PROPERTIES
ThrottleEnds
MainLoops
