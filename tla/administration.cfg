\* The evaluation gate, retention, the langgraph engine, the chunker and artifacts, each by itself.
CONSTANTS
  GoldenCase = {c1, c2}
  GatedVersion = {g1, g2}
  EvaluationRequest = {q1, q2}
  GateMode = "block"
  MayOverrideGate = TRUE
  MinRecall = 4000
  MinCitation = 4000
  MaxRegression = 500
  MaxCaseEdits = 1
  SourceKey = {"k1"}
  MaxDocuments = 2
  MaxVersions = 2
  SyncImport = {i1}
  AsyncImport = {u1}
  IndexWorker = {w1}
  Measurement = {m1}
  DatabaseMayFail = TRUE
  GraphJob = {im, re}
  ReindexJob = {re}
  GraphWorker = {w1}
  NoGraphWorker = NoGraphWorker
  NoGraphJob = NoGraphJob
  BatchTotal = 2
  GraphAttempts = 2
  GraphRequeues = 1
  MaxText = 10
  MaxBoundaries = 2
  WindowChars = 5
  OverlapChars = 1
  ChildChars = 4
  ArtifactRequest = {a1, a2, a3}
  ArtifactName <- MCArtifactName
  MaxNumber = 2
SYMMETRY MCSymmetry
SPECIFICATION AdminSpec
CHECK_DEADLOCK FALSE
INVARIANTS
  AdminTypeOK
  PublishedThroughTheGate
  PassedAgainstItsBaseline
  MeasuredCasesAreKept
  NoOrphans
  ServedHasChunks
  ServedVersionIsWhole
  CheckpointTrailsChunks
  SuccessMeansIndexed
  EveryCharacterIsRetrievable
  ArtifactsAreKept
