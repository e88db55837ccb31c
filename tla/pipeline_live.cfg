SPECIFICATION FairSpec
CONSTANTS
  theDocument = d1
  Document = {d1}
  Version = {v1}
  DocumentOf <- MCDocumentOf
  Subject = {s1}
  NoOne = NoOne
  NoVersion = NoVersion
  GovernanceMode = "direct"
  RequireSeparation = TRUE
  AllowOverride = FALSE
  MaxReviews = 4
  Worker = {w1, w2}
  NoWorker = NoWorker
  NoJob = NoJob
  MaxAttempts = 2
  Timely = TRUE
  Importer = {i1, i2}
  JobType = {"import", "withdraw"}
  MaxRetries = 0
  RetryOf = {}
  MayCancel = FALSE
  StoreMayFail = FALSE
  MayCrash = FALSE
INVARIANT VersionFollowsJob
PROPERTIES PublicationStands WithdrawalStands SubmissionEnds
