\* Exports of three versions of two chunks with three attempts; both parties use
\* the same name for the data source.  The fields are those of the documented spec.
CONSTANTS
  NChunks = 2
  MaxVersions = 3
  MaxAttempts = 3
  SenderSource = "default-data-source"
  OutputSource = "default-data-source"
  None = None
  AtomicFields <- DocumentedFields
  Tasks <- MCTasks
SPECIFICATION TaskSpec
INVARIANTS TypeOK TaskTypeOK ListedComplete ChoicesAccepted ParamsMeet TasksRead CapsuleFollows
PROPERTIES TaskEnds ExportReleases
CHECK_DEADLOCK FALSE
