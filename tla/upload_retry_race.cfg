CONSTANTS
  MaxAttempts = 2
  NChunks = 2
  NoFile = NoFile
  Overlap = TRUE
SPECIFICATION Spec
INVARIANT AckedMeansStored
CHECK_DEADLOCK FALSE
