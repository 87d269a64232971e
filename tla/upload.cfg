CONSTANTS
  MaxAttempts = 3
  NChunks = 2
  NoFile = NoFile
  Overlap = FALSE
SPECIFICATION FairSpec
INVARIANTS TypeOK AckedMeansStored
PROPERTIES SealedSpec ShutdownCompletes UploaderEnds
CHECK_DEADLOCK FALSE
