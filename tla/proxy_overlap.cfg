\* An input and a result at the same time on one directory, sharing its
\* temporary directory.
CONSTANTS
  Sessions <- Crossing
  Files = {"a", "b"}
  InitialFs <- MCFs
  InitialCm <- MCCm
  Results <- EmptyResult
  PageSize = 2
  NoDir = NoDir
  Plat = "tdx"
  Cert = "app.crt"
  Nothing = Nothing
  Overlap = TRUE
SPECIFICATION FairSpec
INVARIANTS NoOrphanThread
PROPERTIES EveryRequestAnswered
CHECK_DEADLOCK FALSE
