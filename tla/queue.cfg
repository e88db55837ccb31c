SPECIFICATION FairSpec
CONSTANTS
  Worker = {w1, w2, w3}
  Job = {j1, j2}
  NoWorker = NoWorker
  NoJob = NoJob
  MaxAttempts = 3
  MaxRequeues = 2
  Audited = {j2}
  Timely = TRUE
INVARIANTS TypeOK ExclusiveExecution NoRowIsStuck
PROPERTIES SuccessIsUndoneByAdminOrHolder EveryJobSettles
