SPECIFICATION MCSpec
CONSTANTS
  Grid = 6
  StartLength = 4
  MaxLength = 6
  Ring = 7
  Fruit <- MCFruit
  None = None
  Lines <- MCLines
  MaxLines = 4
  Width = 2
  Below = 2
  ScrollTime = 2
INVARIANTS BodyKept SearchEnds EchoComplete
PROPERTY DeathsFair
CHECK_DEADLOCK FALSE
