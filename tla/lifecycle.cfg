SPECIFICATION Spec
CONSTANTS
  Byte = {0, 1, 254, 255}
  ExitLo = 0
  ExitHi = 1
  IsrLo = 1
  IsrHi = 254
INVARIANTS NoMixedReset WholeIrqVector ArmedOnlyInstalled TeardownComplete
