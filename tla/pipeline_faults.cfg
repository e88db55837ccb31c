SPECIFICATION Spec
CONSTANTS
  theDocument = d1
  Document = {d1}
  Version = {v1}
  DocumentOf <- MCDocumentOf
  Subject = {s1}
  NoOne = NoOne
  NoVersion = NoVersion
  GovernanceMode = "review"
  RequireSeparation = TRUE
  AllowOverride = TRUE
  MaxReviews = 2
  Worker = {w1, w2}
  NoWorker = NoWorker
  NoJob = NoJob
  MaxAttempts = 1
  Timely = FALSE
  Importer = {i1}
  JobType = {"import", "reindex"}
  MaxRetries = 1
  RetryOf = {"succeeded", "failed", "cancelled"}
  MayCancel = TRUE
  StoreMayFail = TRUE
  MayCrash = TRUE
INVARIANTS TypeOK ServedIsComplete
PROPERTIES ImplementsVersions ImplementsQueue
SYMMETRY Symmetry
