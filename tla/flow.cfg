SPECIFICATION Spec
CONSTANTS
  MaxReply = 2
  HostBytes = {h}
  TermBytes = {d}
  XON = XON
  XOFF = XOFF
  None = None
  RxSize = 6
  TxSize = 3
  RingHigh = 3
  RingLow = 0
  Slack = 1
  OtherSources = TRUE
INVARIANTS
TypeOK
NoLoss
ThrottleAgrees
XoffNeverStarved
NothingStranded
ChainOnlyForeign
VIEW LiveSlots
