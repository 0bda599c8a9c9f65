SPECIFICATION Spec
CONSTANTS
  MaxReply = 2
  HostBytes = {h}
  TermBytes = {d}
  XON = XON
  XOFF = XOFF
  None = None
  RxSize = 4
  TxSize = 4
  RingHigh = 2
  RingLow = 0
  Slack = 2
  OtherSources = FALSE
INVARIANT
ThrottleAgrees
