SPECIFICATION Spec
CONSTANTS
  Worker = {w1, w2}
  Job = {j1}
  NoWorker = NoWorker
  NoJob = NoJob
  MaxAttempts = 3
  MaxRequeues = 2
  Audited = {}
  Timely = FALSE
INVARIANT ExclusiveExecution
