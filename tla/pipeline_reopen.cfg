SPECIFICATION Spec
CONSTANTS
  theDocument = d1
  Document = {d1}
  Version = {v1}
  DocumentOf <- MCDocumentOf
  Subject = {s1, s2}
  NoOne = NoOne
  NoVersion = NoVersion
  GovernanceMode = "review"
  RequireSeparation = TRUE
  AllowOverride = FALSE
  MaxReviews = 5
  Worker = {w1}
  NoWorker = NoWorker
  NoJob = NoJob
  MaxAttempts = 2
  Timely = TRUE
  Importer = {i1}
  JobType = {"import"}
  MaxRetries = 0
  RetryOf = {}
  MayCancel = FALSE
  StoreMayFail = FALSE
  MayCrash = FALSE
INVARIANT ReopenedIsReviewedAgain
