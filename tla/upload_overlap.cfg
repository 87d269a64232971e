CONSTANTS
  MaxAttempts = 2
  NChunks = 2
  NoFile = NoFile
  Overlap = TRUE
SPECIFICATION FairSpec
INVARIANTS KeyAfterShutdown
PROPERTIES ShutdownCompletes
CHECK_DEADLOCK FALSE
