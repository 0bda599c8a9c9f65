SPECIFICATION Spec
CONSTANTS
  MaxReply = 1
  HostBytes = {g, h}
  TermBytes = {d, e}
  XON = XON
  XOFF = XOFF
  None = None
  RxSize = 4
  TxSize = 4
  RingHigh = 3
  RingLow = 0
  Slack = 0
  OtherSources = FALSE
PROPERTY ImplementsFifos
SYMMETRY Symmetry
VIEW LiveSlots
