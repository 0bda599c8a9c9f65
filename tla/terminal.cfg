SPECIFICATION Spec
CONSTANTS
  Rows = 3
  Cols = 4
  Chars <- MCChars
  Upper <- MCUpper
  Sessions <- MCSessions
  Inputs <- MCInputs
  MaxInputs <- MCMaxInputs
  Memory <- MCMemory
INVARIANTS TypeOK LogicalSnapshot SequencesUnderstood
PROPERTIES OnlyRegionScrolls AlternateRestores CursorReturns
CHECK_DEADLOCK FALSE
