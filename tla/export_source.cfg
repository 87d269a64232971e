\* The data sources of sender and receiver have different names.
CONSTANTS
  NChunks = 1
  MaxVersions = 1
  MaxAttempts = 1
  SenderSource = "sender-source"
  OutputSource = "receiver-source"
SPECIFICATION Spec
INVARIANTS ListedReadable
CHECK_DEADLOCK FALSE
