\* A store with more objects than one answer of ListObjects holds.
CONSTANTS
  Sessions <- Crossing
  Files = {"a", "b"}
  InitialFs <- MCFs
  InitialCm <- MCCm
  Results <- EmptyResult
  PageSize = 1
  NoDir = NoDir
  Plat = "tdx"
  Cert = "app.crt"
  Nothing = Nothing
  Overlap = FALSE
SPECIFICATION Spec
PROPERTIES GetDelivers
CHECK_DEADLOCK FALSE
