SPECIFICATION FairTargetSpec
CONSTANTS
  Inputs <- CaseInputs
  NCases = 2
  Window = 6
  Chunk = 6
  MaxTries = 2
  Ahead = 2
  Hasty = {}
INVARIANT FaithfulVerdict
PROPERTIES SnapshotNotOlder RunEnds
