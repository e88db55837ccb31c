\* A purge deletes the document a worker is indexing.
CONSTANTS
  SourceKey = {"k1"}
  MaxDocuments = 1
  MaxVersions = 1
  SyncImport = {}
  AsyncImport = {u1}
  IndexWorker = {w1}
  Measurement = {}
  DatabaseMayFail = FALSE
SPECIFICATION RetentionSpec
CHECK_DEADLOCK FALSE
INVARIANT WorkerLoopSurvives
