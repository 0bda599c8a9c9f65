SPECIFICATION Spec
CONSTANTS
  Modes = {"wire", "flow", "reserve", "wrap", "lifecycle"}
  Runs = 2
  Faults = {"lose", "garble", "misdraw", "stuck"}
  Strays = 1
  Exits = TRUE
INVARIANTS PassIsEarned UnmodifiedBoot
PROPERTIES RunsEnd
