\* An input and a result through OSS on one directory, one after the
\* other; or with local directories; or a result that is put twice and read
\* back; or a process that fetches its TLS asset.  Failures at every call,
\* kills of the process, restarts of the Capsule Manager, renewals.
CONSTANTS
  Sessions <- MCSessions
  Files = {"a", "b", "c"}
  InitialFs <- MCFs
  InitialCm <- MCCm
  Results <- MCResults
  PageSize = 2
  NoDir = NoDir
  Plat = "tdx"
  Cert = "app.crt"
  Nothing = Nothing
  Overlap = FALSE
SPECIFICATION Spec
INVARIANTS TypeOK NoOrphanThread PolicyRefuses TlsPair
PROPERTIES GetDelivers PutDelivers KeyAfterData UploadsOwn TempRemoved
CHECK_DEADLOCK FALSE
