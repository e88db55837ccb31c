----------------------- MODULE IndexingPipeline_proofs -----------------------
(***************************************************************************)
(* Theorems about IndexingPipeline, for all values of its constants:       *)
(* whatever fails, is retried or is late, it drives both tables only by    *)
(* the transactions of their modules and hands on complete versions only.  *)
(***************************************************************************)
EXTENDS IndexingPipeline, TLAPS

(* The part of the type invariant that the arguments below need, and what  *)
(* ties a control point to the target it works on.                         *)
ControlOK == /\ status \in [Version -> V!Status \cup {"absent"}]
             /\ requeues \in Nat
             /\ step \in [Worker -> {"idle", "polled"} \cup Holding \cup Settling]
             /\ work \in [Worker -> Job \cup {NoJob}]
             /\ request \in [Importer -> {"idle", "store", "storeDuplicate",
                                          "enqueue", "compensate"}]
             /\ upload \in [Importer -> Version \cup {NoVersion}]
             /\ sources \subseteq Version
             /\ chunked \subseteq Version

Working == \A w \in Worker : step[w] \notin {"idle", "polled"} => work[w] \in Job

Requesting == \A i \in Importer : request[i] # "idle" => upload[i] \in Version

CInv == ControlOK /\ Working /\ Requesting

LEMMA TargetOfJob ==
  ASSUME Working, NEW w \in Worker, step[w] \notin {"idle", "polled"}
  PROVE  work[w] \in Job /\ Target(w) \in Version
BY DEF Working, Job, Target

-----------------------------------------------------------------------------
(* The version table.                                                      *)

VersionStep == V!Next \/ UNCHANGED versions

(* A step of an importing request is a transaction on one version, or      *)
(* leaves the version table alone.                                         *)
LEMMA ImporterVersions ==
  ASSUME Requesting, NEW i \in Importer, ImporterStep(i)
  PROVE  VersionStep
<1>1. CASE Register(i)
  BY <1>1 DEF Register, VersionStep, V!Next, versions
<1>2. CASE Compensate(i)
  BY <1>2 DEF Compensate, VersionStep, V!Next, V!Index, Requesting
<1>3. CASE Store(i) \/ StoreFails(i) \/ EnqueueImport(i) \/ EnqueueFails(i) \/ RequestDies(i)
  BY <1>3 DEF Store, StoreFails, EnqueueImport, EnqueueFails, RequestDies,
              VersionStep, versions
<1> QED
  BY <1>1, <1>2, <1>3 DEF ImporterStep

(* So is a step of a worker.                                               *)
LEMMA WorkerVersions ==
  ASSUME Working, NEW w \in Worker, WorkerStep(w)
  PROVE  VersionStep
<1>1. CASE TakeOffline(w) \/ MarkProcessing(w) \/ Finalize(w) \/ SettleVersion(w)
  <2>1. Target(w) \in Version
    BY <1>1, TargetOfJob DEF TakeOffline, MarkProcessing, Finalize, SettleVersion, Settling
  <2> QED
    BY <1>1, <2>1 DEF TakeOffline, MarkProcessing, Finalize, SettleVersion,
                      VersionStep, V!Next, V!Index
<1>2. CASE CarryOutWithdrawal(w)
  <2>1. Target(w) \in Version
    BY <1>2, TargetOfJob DEF CarryOutWithdrawal
  <2> QED
    BY <1>2, <2>1 DEF CarryOutWithdrawal, VersionStep, V!Next, V!Govern
<1>3. CASE Poll(w) \/ Start(w) \/ NothingToDo(w) \/ Resolve(w) \/ PersistChunks(w)
             \/ Refuse(w) \/ StepFails(w) \/ Complete(w) \/ AuditWritten(w)
             \/ RecordFailure(w) \/ WorkerDies(w)
  BY <1>3 DEF Poll, Start, NothingToDo, Resolve, PersistChunks, Refuse, StepFails,
              Complete, AuditWritten, RecordFailure, WorkerDies, VersionStep, versions
<1> QED
  BY <1>1, <1>2, <1>3 DEF WorkerStep, Execute

LEMMA NextVersions == Working /\ Requesting /\ [Next]_vars => VersionStep
<1> SUFFICES ASSUME Working, Requesting, [Next]_vars PROVE VersionStep
  OBVIOUS
<1>1. CASE Admin
  <2>1. CASE Govern
    BY <2>1 DEF Govern, VersionStep, V!Next
  <2>2. ASSUME NEW type \in JobType \ {"import"}, NEW v \in Version, EnqueueOther(type, v)
        PROVE  VersionStep
    BY <2>2 DEF EnqueueOther, VersionStep
  <2>3. ASSUME NEW j \in Job, Retry(j) \/ Cancel(j)
        PROVE  VersionStep
    BY <2>3 DEF Retry, Cancel, VersionStep
  <2> QED
    BY <1>1, <2>1, <2>2, <2>3 DEF Admin
<1>2. CASE Time
  BY <1>2 DEF Time, VersionStep
<1>3. CASE UNCHANGED vars
  BY <1>3 DEF vars, VersionStep
<1> QED
  BY <1>1, <1>2, <1>3, ImporterVersions, WorkerVersions DEF Next

-----------------------------------------------------------------------------
(* CInv is inductive.                                                      *)

(* No transaction on versions writes a status that is none.                *)
LEMMA StatusType ==
  ASSUME status \in [Version -> V!Status \cup {"absent"}], VersionStep
  PROVE  status' \in [Version -> V!Status \cup {"absent"}]
<1> USE DEF V!Status, V!SetStatus
<1>1. ASSUME NEW v \in Version, V!GoLive(v)
      PROVE  status' \in [Version -> V!Status \cup {"absent"}]
  BY <1>1 DEF V!GoLive
<1>2. ASSUME NEW v \in Version, NEW s \in Subject \cup {NoOne}, V!BeginImport(v, s)
      PROVE  status' \in [Version -> V!Status \cup {"absent"}]
  BY <1>2 DEF V!BeginImport
<1>3. ASSUME NEW v \in Version, V!Index(v)
      PROVE  status' \in [Version -> V!Status \cup {"absent"}]
  BY <1>1, <1>3 DEF V!Index, V!MarkProcessing, V!Finalize, V!FailImport,
                    V!ResetForRetry, V!Reindex
<1>4. ASSUME NEW v \in Version, V!Govern(v)
      PROVE  status' \in [Version -> V!Status \cup {"absent"}]
  BY <1>1, <1>4 DEF V!Govern, V!Approve, V!Reject, V!Publish, V!Withdraw, V!Rollback
<1>5. CASE UNCHANGED versions
  BY <1>5 DEF versions
<1> QED
  BY <1>2, <1>3, <1>4, <1>5 DEF VersionStep, V!Next

(* A request that goes to a named step keeps the version it is about.      *)
LEMMA ImporterControl ==
  ASSUME CInv, NEW i \in Importer, ImporterStep(i)
  PROVE  CInv'
<1> USE DEF CInv, ControlOK, Working, Requesting, Done, Goto
<1>1. status' \in [Version -> V!Status \cup {"absent"}]
  BY ImporterVersions, StatusType
<1>2. CASE Register(i)
  BY <1>1, <1>2 DEF Register, workers, rows, files
<1>3. CASE Store(i)
  BY <1>1, <1>3 DEF Store, workers, rows
<1>4. CASE StoreFails(i) \/ EnqueueFails(i) \/ Compensate(i) \/ RequestDies(i)
  BY <1>1, <1>4 DEF StoreFails, EnqueueFails, Compensate, RequestDies, workers, rows, files
<1>5. CASE EnqueueImport(i)
  BY <1>1, <1>5 DEF EnqueueImport, workers, files
<1> QED
  BY <1>2, <1>3, <1>4, <1>5 DEF ImporterStep

(* A worker that advances keeps its job.                                   *)
LEMMA WorkerControl ==
  ASSUME CInv, NEW w \in Worker, WorkerStep(w)
  PROVE  CInv'
<1> USE DEF CInv, ControlOK, Working, Requesting, Advance, Release, Executing, Holding, Settling
<1>1. status' \in [Version -> V!Status \cup {"absent"}]
  BY WorkerVersions, StatusType
<1>2. CASE Poll(w) \/ NothingToDo(w)
  BY <1>1, <1>2 DEF Poll, NothingToDo, rows, requests, files
<1>3. CASE Start(w)
  <2>1. PICK j \in Job : /\ work' = [work EXCEPT ![w] = j]
                         /\ step' = [step EXCEPT ![w] = IF j[1] = "import"
                                                          THEN "resolve" ELSE j[1]]
    BY <1>3 DEF Start
  <2>2. j[1] \in {"import", "reindex", "withdraw"}
    BY PipelineAssumption DEF Job, AnyJobType
  <2> QED
    BY <1>1, <1>3, <2>1, <2>2 DEF Start, requests, files
<1>4. CASE TakeOffline(w) \/ CarryOutWithdrawal(w) \/ MarkProcessing(w) \/ Finalize(w)
             \/ Refuse(w) \/ StepFails(w)
  BY <1>1, <1>4 DEF TakeOffline, CarryOutWithdrawal, MarkProcessing, Finalize, Refuse,
                    Refused, StepFails, rows, requests, files
<1>5. CASE Resolve(w)
  BY <1>1, <1>5 DEF Resolve, requests, files
<1>6. CASE PersistChunks(w)
  <2>1. Target(w) \in Version
    BY <1>6, TargetOfJob DEF PersistChunks
  <2> QED
    BY <1>1, <1>6, <2>1 DEF PersistChunks, rows, requests
<1>7. CASE Complete(w) \/ AuditWritten(w)
  BY <1>1, <1>7 DEF Complete, AuditWritten, rows, requests, files
<1>8. CASE RecordFailure(w)
  BY <1>1, <1>8 DEF RecordFailure, requests, files
<1>9. CASE SettleVersion(w) \/ WorkerDies(w)
  BY <1>1, <1>9 DEF SettleVersion, WorkerDies, rows, requests, files
<1> QED
  BY <1>2, <1>3, <1>4, <1>5, <1>6, <1>7, <1>8, <1>9 DEF WorkerStep, Execute

LEMMA InitCInv == Init => CInv
BY DEF Init, CInv, ControlOK, Working, Requesting, V!Init

LEMMA NextCInv == CInv /\ [Next]_vars => CInv'
<1> SUFFICES ASSUME CInv, [Next]_vars PROVE CInv'
  OBVIOUS
<1> USE DEF CInv, ControlOK, Working, Requesting
<1>1. status' \in [Version -> V!Status \cup {"absent"}]
  BY NextVersions, StatusType
<1>2. CASE Admin
  <2>1. CASE Govern
    BY <1>1, <2>1 DEF Govern, rows, workers, requests, files
  <2>2. ASSUME NEW type \in JobType \ {"import"}, NEW v \in Version, EnqueueOther(type, v)
        PROVE  CInv'
    BY <1>1, <2>2 DEF EnqueueOther, workers, requests, files
  <2>3. ASSUME NEW j \in Job, Retry(j) \/ Cancel(j)
        PROVE  CInv'
    BY <1>1, <2>3 DEF Retry, Cancel, workers, requests, files
  <2> QED
    BY <1>2, <2>1, <2>2, <2>3 DEF Admin
<1>3. CASE Time
  BY <1>1, <1>3 DEF Time, workers, requests, files, Q!HeartbeatExpires, Q!BackoffElapses
<1>4. CASE UNCHANGED vars
  BY <1>4 DEF vars, versions, rows, workers, requests, files
<1> QED
  BY <1>2, <1>3, <1>4, ImporterControl, WorkerControl DEF Next

LEMMA CInvariant == Spec => []CInv
BY InitCInv, NextCInv, PTL DEF Spec

-----------------------------------------------------------------------------
(* Every behaviour of the pipeline is a behaviour of DocumentVersions, so  *)
(* whatever crashes, is retried or is late, no endpoint and no worker      *)
(* writes a version but by one of its transactions: what is proved of them *)
(* holds here.                                                             *)
THEOREM RefinesVersions == Spec => ImplementsVersions
<1>1. Init => V!Init
  BY DEF Init
<1>2. CInv /\ [Next]_vars => [V!Next]_(V!vars)
  BY NextVersions DEF CInv, VersionStep, versions, V!vars
<1> QED
  BY <1>1, <1>2, CInvariant, PTL DEF Spec, ImplementsVersions, V!Spec

-----------------------------------------------------------------------------
(* Completeness of what is served.                                         *)

(* What a worker that has come so far has found or made.                   *)
WorkIsBacked ==
  \A w \in Worker :
    /\ step[w] \in {"mark", "persist", "finalize"} => Target(w) \in sources
    /\ step[w] = "finalize" => Target(w) \in chunked

Served == {"staged"} \cup V!Published

SInv == WorkIsBacked /\ ServedIsComplete

(* The transactions on versions but one: all of them but that of Finalize.  *)
OtherTransaction ==
  \/ \E v \in Version :
       \/ \E s \in Subject \cup {NoOne} : V!BeginImport(v, s)
       \/ V!MarkProcessing(v) \/ V!FailImport(v) \/ V!ResetForRetry(v) \/ V!Reindex(v)
       \/ V!Govern(v)
  \/ UNCHANGED versions

(* They serve no version that was not served: what review, publication and *)
(* rollback serve was at least staged.                                     *)
LEMMA OthersServeNothingNew ==
  ASSUME CInv, OtherTransaction, NEW v \in Version, status'[v] \in Served
  PROVE  status[v] \in Served
<1> USE DEF CInv, ControlOK, Served, V!Published, V!Retained, V!Status, V!SetStatus
<1>1. ASSUME NEW u \in Version, V!GoLive(u), status[u] \in Served
      PROVE  status[v] \in Served
  BY <1>1 DEF V!GoLive, V!Replaced, V!Siblings
<1>2. ASSUME NEW u \in Version, NEW s \in Subject \cup {NoOne}, V!BeginImport(u, s)
      PROVE  status[v] \in Served
  BY <1>2 DEF V!BeginImport
<1>3. ASSUME NEW u \in Version,
             V!MarkProcessing(u) \/ V!FailImport(u) \/ V!ResetForRetry(u) \/ V!Reindex(u)
      PROVE  status[v] \in Served
  BY <1>3 DEF V!MarkProcessing, V!FailImport, V!ResetForRetry, V!Reindex
<1>4. ASSUME NEW u \in Version, V!Govern(u)
      PROVE  status[v] \in Served
  BY <1>1, <1>4 DEF V!Govern, V!Approve, V!Reject, V!Publish, V!Withdraw, V!Rollback,
                    V!MayReview
<1>5. CASE UNCHANGED versions
  BY <1>5 DEF versions
<1> QED
  BY <1>2, <1>3, <1>4, <1>5 DEF OtherTransaction

(* Finalize serves one version.                                            *)
LEMMA FinalizeServesOne ==
  ASSUME CInv, NEW u \in Version, V!Finalize(u),
         NEW v \in Version, v # u, status'[v] \in Served
  PROVE  status[v] \in Served
BY DEF CInv, ControlOK, Served, V!Published, V!Retained, V!Status, V!SetStatus,
       V!Finalize, V!GoLive, V!Replaced, V!Siblings

(* Chunks and originals are never taken away.                              *)
FilesGrow == sources \subseteq sources' /\ chunked \subseteq chunked'

LEMMA OthersKeepServedComplete ==
  ASSUME CInv, OtherTransaction, FilesGrow, ServedIsComplete
  PROVE  ServedIsComplete'
<1>1. ASSUME NEW v \in Version, status'[v] \in Served
      PROVE  v \in chunked' /\ v \in sources'
  BY <1>1, OthersServeNothingNew DEF ServedIsComplete, Served, FilesGrow
<1> QED
  BY <1>1 DEF ServedIsComplete, Served, V!Published, V!Retained

LEMMA ImporterServed ==
  ASSUME CInv, SInv, NEW i \in Importer, ImporterStep(i)
  PROVE  SInv'
<1>1. FilesGrow
  BY DEF ImporterStep, Register, Store, StoreFails, EnqueueImport, EnqueueFails,
         Compensate, RequestDies, FilesGrow, files
<1>2. OtherTransaction
  <2>1. CASE Register(i)
    BY <2>1 DEF Register, OtherTransaction
  <2>2. CASE Compensate(i)
    BY <2>2 DEF Compensate, OtherTransaction, CInv, Requesting
  <2>3. CASE Store(i) \/ StoreFails(i) \/ EnqueueImport(i) \/ EnqueueFails(i)
               \/ RequestDies(i)
    BY <2>3 DEF Store, StoreFails, EnqueueImport, EnqueueFails, RequestDies,
                OtherTransaction
  <2> QED
    BY <2>1, <2>2, <2>3 DEF ImporterStep
<1>3. UNCHANGED workers
  BY DEF ImporterStep, Register, Store, StoreFails, EnqueueImport, EnqueueFails,
         Compensate, RequestDies, workers
<1> QED
  BY <1>1, <1>2, <1>3, OthersKeepServedComplete
     DEF SInv, WorkIsBacked, FilesGrow, workers, Target

(* A worker comes to "mark" by Resolve, which finds the original, and to   *)
(* "finalize" by PersistChunks.                                            *)
LEMMA WorkerServed ==
  ASSUME CInv, SInv, NEW w \in Worker, WorkerStep(w)
  PROVE  SInv'
<1> USE DEF Advance, Release
<1> DEFINE Backed(x) == /\ step'[x] \in {"mark", "persist", "finalize"}
                             => work'[x][2] \in sources'
                        /\ step'[x] = "finalize" => work'[x][2] \in chunked'
<1>1. FilesGrow
  BY DEF WorkerStep, Execute, Poll, Start, NothingToDo, TakeOffline,
         CarryOutWithdrawal, Resolve, MarkProcessing, PersistChunks, Finalize, Refuse,
         StepFails, Complete, AuditWritten, RecordFailure, SettleVersion, WorkerDies,
         FilesGrow, files
<1>2. ASSUME NEW x \in Worker, x # w
      PROVE  step'[x] = step[x] /\ work'[x] = work[x]
  BY <1>2 DEF CInv, ControlOK, WorkerStep, Execute, Poll, Start, NothingToDo,
              TakeOffline, CarryOutWithdrawal, Resolve, MarkProcessing, PersistChunks,
              Finalize, Refuse, StepFails, Complete, AuditWritten, RecordFailure,
              SettleVersion, WorkerDies
<1>3. Backed(w) => WorkIsBacked'
  BY <1>1, <1>2 DEF SInv, WorkIsBacked, FilesGrow, Target
<1> HIDE DEF Backed
<1>4. CASE Finalize(w)
  <2> USE <1>4 DEF Finalize
  <2>1. Target(w) \in Version /\ Target(w) \in chunked' /\ Target(w) \in sources'
    BY <1>1, TargetOfJob DEF CInv, SInv, WorkIsBacked, FilesGrow
  <2>2. ASSUME NEW v \in Version, status'[v] \in Served
        PROVE  v \in chunked' /\ v \in sources'
    BY <2>1, <2>2, <1>1, FinalizeServesOne DEF SInv, ServedIsComplete, Served, FilesGrow
  <2>3. ServedIsComplete'
    BY <2>2 DEF ServedIsComplete, Served, V!Published, V!Retained
  <2>4. step'[w] = "complete"
    BY DEF CInv, ControlOK
  <2> QED
    BY <2>3, <2>4, <1>3 DEF Backed, SInv
<1>5. CASE ~Finalize(w)
  <2>1. OtherTransaction
    <3>1. CASE TakeOffline(w) \/ MarkProcessing(w) \/ SettleVersion(w)
                 \/ CarryOutWithdrawal(w)
      <4>1. Target(w) \in Version
        BY <3>1, TargetOfJob DEF CInv, TakeOffline, MarkProcessing, SettleVersion,
                                 Settling, CarryOutWithdrawal
      <4> QED
        BY <3>1, <4>1 DEF TakeOffline, MarkProcessing, SettleVersion,
                          CarryOutWithdrawal, OtherTransaction, V!Govern
    <3>2. CASE Poll(w) \/ Start(w) \/ NothingToDo(w) \/ Resolve(w) \/ PersistChunks(w)
                 \/ Refuse(w) \/ StepFails(w) \/ Complete(w) \/ AuditWritten(w)
                 \/ RecordFailure(w) \/ WorkerDies(w)
      BY <3>2 DEF Poll, Start, NothingToDo, Resolve, PersistChunks, Refuse, StepFails,
                  Complete, AuditWritten, RecordFailure, WorkerDies, OtherTransaction
    <3> QED
      BY <1>5, <3>1, <3>2 DEF WorkerStep, Execute
  <2>2. Backed(w)
    <3> USE DEF Backed, CInv, ControlOK
    <3>1. CASE Start(w)
      <4>1. PICK j \in Job : step'[w] = IF j[1] = "import" THEN "resolve" ELSE j[1]
        BY <3>1 DEF Start
      <4>2. j[1] \in {"import", "reindex", "withdraw"}
        BY PipelineAssumption DEF Job, AnyJobType
      <4> QED
        BY <4>1, <4>2
    <3>2. CASE Resolve(w) \/ MarkProcessing(w) \/ PersistChunks(w)
      BY <3>2, <1>1 DEF Resolve, MarkProcessing, PersistChunks, Target, SInv,
                        WorkIsBacked, FilesGrow, files
    <3>3. CASE Poll(w) \/ NothingToDo(w) \/ TakeOffline(w) \/ CarryOutWithdrawal(w)
                 \/ Refuse(w) \/ StepFails(w) \/ Complete(w) \/ AuditWritten(w)
                 \/ RecordFailure(w) \/ SettleVersion(w) \/ WorkerDies(w)
      BY <3>3 DEF Poll, NothingToDo, TakeOffline, CarryOutWithdrawal, Refuse,
                  StepFails, Complete, AuditWritten, RecordFailure, SettleVersion,
                  WorkerDies
    <3> QED
      BY <1>5, <3>1, <3>2, <3>3 DEF WorkerStep, Execute
  <2> QED
    BY <1>1, <1>3, <2>1, <2>2, OthersKeepServedComplete DEF SInv
<1> QED
  BY <1>4, <1>5

LEMMA InitSInv == Init => SInv
BY DEF Init, SInv, WorkIsBacked, ServedIsComplete, V!Init, V!Published, V!Retained

LEMMA NextSInv == CInv /\ SInv /\ [Next]_vars => SInv'
<1> SUFFICES ASSUME CInv, SInv, [Next]_vars PROVE SInv'
  OBVIOUS
<1>1. ASSUME OtherTransaction, UNCHANGED <<workers, files>>
      PROVE  SInv'
  BY <1>1, OthersKeepServedComplete
     DEF SInv, WorkIsBacked, FilesGrow, workers, files, Target
<1>2. CASE Admin
  <2>1. CASE Govern
    BY <1>1, <2>1 DEF Govern, OtherTransaction
  <2>2. ASSUME NEW type \in JobType \ {"import"}, NEW v \in Version, EnqueueOther(type, v)
        PROVE  SInv'
    BY <1>1, <2>2 DEF EnqueueOther, OtherTransaction
  <2>3. ASSUME NEW j \in Job, Retry(j) \/ Cancel(j)
        PROVE  SInv'
    BY <1>1, <2>3 DEF Retry, Cancel, OtherTransaction
  <2> QED
    BY <1>2, <2>1, <2>2, <2>3 DEF Admin
<1>3. CASE Time
  BY <1>1, <1>3 DEF Time, OtherTransaction
<1>4. CASE UNCHANGED vars
  BY <1>1, <1>4 DEF vars, OtherTransaction
<1> QED
  BY <1>2, <1>3, <1>4, ImporterServed, WorkerServed DEF Next

(* A version that reviewers or readers are shown has its chunks and its    *)
(* original in every state, whatever failed or was repeated on the way.    *)
THEOREM ServedComplete == Spec => []ServedIsComplete
<1>1. SInv => ServedIsComplete
  BY DEF SInv
<1> QED
  BY <1>1, CInvariant, InitSInv, NextSInv, PTL DEF Spec

-----------------------------------------------------------------------------
(* The job table.                                                          *)

(* What the queue sees of the pipeline's control points.                   *)
Phase == [w \in Worker |-> IF step[w] = "polled" THEN "polled"
                           ELSE IF step[w] \in Executing THEN "busy"
                           ELSE IF step[w] = "audit" THEN "audit" ELSE "idle"]

Held == [w \in Worker |-> IF step[w] \in Holding THEN work[w] ELSE NoJob]

QueueStep == Q!Next \/ UNCHANGED <<job, inserted, Phase, Held, requeues>>

(* Requests touch no worker; they insert or requeue one row or none.       *)
LEMMA ImporterQueue ==
  ASSUME CInv, NEW i \in Importer, ImporterStep(i)
  PROVE  QueueStep
<1>1. UNCHANGED <<Phase, Held>>
  BY DEF ImporterStep, Register, Store, StoreFails, EnqueueImport, EnqueueFails,
         Compensate, RequestDies, workers, Phase, Held
<1>2. CASE EnqueueImport(i)
  <2>1. <<"import", upload[i]>> \in Job
    BY <1>2, PipelineAssumption DEF EnqueueImport, CInv, Requesting, Job
  <2>2. Q!Admin
    BY <1>1, <1>2, <2>1 DEF EnqueueImport, Q!Admin, Phase, Held
  <2> QED
    BY <2>2 DEF QueueStep, Q!Next
<1>3. CASE ~EnqueueImport(i)
  BY <1>1, <1>3 DEF ImporterStep, Register, Store, StoreFails, EnqueueFails,
                    Compensate, RequestDies, rows, QueueStep
<1> QED
  BY <1>2, <1>3

PhaseOf(next) == IF next = "polled" THEN "polled"
                 ELSE IF next \in Executing THEN "busy"
                 ELSE IF next = "audit" THEN "audit" ELSE "idle"

(* What a worker's move from one control point to another is to the queue. *)
LEMMA MoveQueue ==
  ASSUME CInv, NEW w \in Worker, NEW next, NEW target,
         step' = [step EXCEPT ![w] = next], work' = [work EXCEPT ![w] = target]
  PROVE  /\ Phase' = [Phase EXCEPT ![w] = PhaseOf(next)]
         /\ Held' = [Held EXCEPT ![w] = IF next \in Holding THEN target ELSE NoJob]
         /\ Phase[w] = PhaseOf(step[w])
         /\ Held[w] = IF step[w] \in Holding THEN work[w] ELSE NoJob
BY DEF CInv, ControlOK, Phase, Held, PhaseOf

LEMMA AdvanceQueue ==
  ASSUME CInv, NEW w \in Worker, NEW next, Advance(w, next)
  PROVE  /\ Phase' = [Phase EXCEPT ![w] = PhaseOf(next)]
         /\ Held' = [Held EXCEPT ![w] = IF next \in Holding THEN work[w] ELSE NoJob]
<1>1. work' = [work EXCEPT ![w] = work[w]]
  BY DEF Advance, CInv, ControlOK
<1> QED
  BY <1>1, MoveQueue DEF Advance

(* To the queue a worker that goes on with its job, or with the version of *)
(* a job it has dropped, does nothing.                                     *)
LEMMA WithinJob ==
  ASSUME CInv, NEW w \in Worker, NEW next, Advance(w, next),
         step[w] \in Executing, next \in Executing
  PROVE  UNCHANGED <<Phase, Held>>
<1>1. next # "polled" /\ step[w] # "polled" /\ {next, step[w]} \subseteq Holding
  BY DEF Executing, Holding
<1>2. /\ Phase' = [Phase EXCEPT ![w] = "busy"] /\ Phase[w] = "busy"
      /\ Held' = [Held EXCEPT ![w] = work[w]] /\ Held[w] = work[w]
  BY <1>1, AdvanceQueue DEF PhaseOf, Phase, Held
<1> QED
  BY <1>2 DEF Phase, Held

LEMMA AfterJob ==
  ASSUME CInv, NEW w \in Worker, Release(w), step[w] \in Settling
  PROVE  UNCHANGED <<Phase, Held>>
BY DEF CInv, ControlOK, Release, Settling, Executing, Holding, Phase, Held

LEMMA WorkerQueue ==
  ASSUME CInv, NEW w \in Worker, WorkerStep(w)
  PROVE  QueueStep
<1> USE DEF QueueStep, Q!Next, Q!WorkerStep
<1>0. ASSUME step[w] \in Holding
      PROVE  /\ Phase[w] = IF step[w] = "audit" THEN "audit" ELSE "busy"
             /\ Held[w] = work[w] /\ work[w] \in Job
  <2>1. step[w] \notin {"idle", "polled"} /\ "audit" \notin Executing
    BY <1>0 DEF Executing, Holding
  <2> QED
    BY <1>0, <2>1 DEF Holding, Phase, Held, CInv, Working
<1>1. ASSUME Release(w) \/ \E next \in Settling : Advance(w, next)
      PROVE  Phase' = [Phase EXCEPT ![w] = "idle"] /\ Held' = [Held EXCEPT ![w] = NoJob]
  <2>1. \A next \in Settling \cup {"idle"} : PhaseOf(next) = "idle" /\ next \notin Holding
    BY DEF Settling, Executing, Holding, PhaseOf
  <2>2. CASE Release(w)
    <3>1. /\ step' = [step EXCEPT ![w] = "idle"]
          /\ work' = [work EXCEPT ![w] = NoJob]
      BY <2>2 DEF Release
    <3>2. /\ Phase' = [Phase EXCEPT ![w] = PhaseOf("idle")]
          /\ Held' = [Held EXCEPT ![w] = IF "idle" \in Holding THEN NoJob ELSE NoJob]
      BY <3>1, MoveQueue
    <3>3. PhaseOf("idle") = "idle"
      BY <2>1
    <3> QED BY <3>2, <3>3
  <2>3. CASE \E next \in Settling : Advance(w, next)
    BY <2>1, <2>3, AdvanceQueue
  <2> QED
    BY <1>1, <2>2, <2>3
<1>2. CASE Poll(w)
  <2>1. step[w] \notin Holding /\ "polled" \notin Holding /\ step[w] \notin Executing
    BY <1>2 DEF Poll, Executing, Holding
  <2>2. Phase[w] = "idle" /\ Phase' = [Phase EXCEPT ![w] = "polled"]
    BY <1>2, <2>1, AdvanceQueue DEF Poll, PhaseOf, Phase
  <2>3. Held[w] = NoJob /\ Held' = [Held EXCEPT ![w] = NoJob]
    BY <1>2, <2>1, AdvanceQueue DEF Poll, Held
  <2>4. UNCHANGED Held
    BY <2>3 DEF Held
  <2> QED
    BY <1>2, <2>2, <2>4 DEF Poll, Q!Poll, Phase, Held
<1>3. CASE NothingToDo(w)
  <2>1. step[w] \notin Holding /\ "idle" \notin Holding /\ "idle" \notin Executing
    BY <1>3 DEF NothingToDo, Executing, Holding
  <2>2. Phase[w] = "polled" /\ Phase' = [Phase EXCEPT ![w] = "idle"]
    BY <1>3, <2>1, AdvanceQueue DEF NothingToDo, PhaseOf, Phase
  <2>3. Held[w] = NoJob /\ Held' = [Held EXCEPT ![w] = NoJob]
    BY <1>3, <2>1, AdvanceQueue DEF NothingToDo, Held
  <2>4. UNCHANGED Held
    BY <2>3 DEF Held
  <2> QED
    BY <1>3, <2>2, <2>4 DEF NothingToDo, rows, Q!NothingToDo, Phase, Held
<1>4. CASE Start(w)
  <2>1. PICK j \in Job : /\ Q!Claim(w, j)
                         /\ work' = [work EXCEPT ![w] = j]
                         /\ step' = [step EXCEPT ![w] = IF j[1] = "import"
                                                          THEN "resolve" ELSE j[1]]
    BY <1>4 DEF Start
  <2> DEFINE next == IF j[1] = "import" THEN "resolve" ELSE j[1]
  <2>2. next \in Executing /\ next # "polled" /\ next \in Holding
    BY PipelineAssumption DEF Job, AnyJobType, Executing, Holding
  <2>3. step' = [step EXCEPT ![w] = next]
    BY <2>1
  <2> HIDE DEF next
  <2>4. /\ Phase[w] = "polled" /\ Phase' = [Phase EXCEPT ![w] = "busy"]
        /\ Held' = [Held EXCEPT ![w] = j]
    BY <1>4, <2>1, <2>2, <2>3, MoveQueue DEF Start, PhaseOf
  <2> QED
    BY <1>4, <2>1, <2>4 DEF Start, Q!Start, Phase, Held
<1>5. CASE Resolve(w)
  <2>1. UNCHANGED <<Phase, Held>>
    BY <1>5, WithinJob DEF Resolve, Executing
  <2>2. Phase[w] = "busy" /\ Held[w] = work[w]
    BY <1>0, <1>5 DEF Resolve, Executing, Holding
  <2> QED
    BY <1>5, <2>1, <2>2 DEF Resolve, Q!Beat, Phase, Held
<1>6. CASE Complete(w)
  <2>1. Phase[w] = "busy" /\ Held[w] = work[w]
    BY <1>0, <1>6 DEF Complete, Executing, Holding
  <2>2. CASE work[w] \in Audited
    <3>1. PhaseOf("audit") = "audit" /\ "audit" \in Holding
      BY DEF PhaseOf, Executing, Holding
    <3>2. Phase' = [Phase EXCEPT ![w] = "audit"] /\ Held' = [Held EXCEPT ![w] = Held[w]]
      BY <1>6, <2>1, <2>2, <3>1, AdvanceQueue DEF Complete
    <3>3. UNCHANGED Held
      BY <3>2 DEF Held
    <3> QED
      BY <1>6, <2>1, <2>2, <3>2, <3>3 DEF Complete, Q!Succeed, Phase, Held
  <2>3. CASE work[w] \notin Audited
    BY <1>1, <1>6, <2>1, <2>3 DEF Complete, Q!Succeed, Q!Leave, Phase, Held
  <2> QED
    BY <2>2, <2>3
<1>7. CASE AuditWritten(w)
  <2>1. Phase[w] = "audit" /\ Release(w)
    BY <1>0, <1>7 DEF AuditWritten, Holding
  <2> QED
    BY <1>1, <1>7, <2>1 DEF AuditWritten, rows, Q!AuditWritten, Q!Leave, Phase, Held
<1>8. CASE RecordFailure(w)
  <2>1. /\ Phase[w] = IF step[w] = "audit" THEN "audit" ELSE "busy"
        /\ Held[w] = work[w]
    BY <1>0, <1>8 DEF RecordFailure, Executing, Holding
  <2>2. Phase' = [Phase EXCEPT ![w] = "idle"] /\ Held' = [Held EXCEPT ![w] = NoJob]
    BY <1>1, <1>8 DEF RecordFailure, Settling
  <2>3. \E retryable \in BOOLEAN : /\ Phase[w] = "audit" => retryable
                                  /\ Q!FailJob(Held[w], retryable)
    BY <1>8, <2>1 DEF RecordFailure
  <2> QED
    BY <1>8, <2>1, <2>2, <2>3 DEF RecordFailure, Q!Fail, Q!Leave, Phase, Held
<1>9. CASE WorkerDies(w)
  <2>1. CASE step[w] \in Holding
    <3>1. Phase[w] \in {"busy", "audit"} /\ Release(w)
      BY <1>0, <1>9, <2>1 DEF WorkerDies
    <3> QED
      BY <1>1, <1>9, <3>1 DEF WorkerDies, rows, Q!Crash, Q!Leave, Phase, Held
  <2>2. CASE step[w] \in Settling
    BY <1>9, <2>2, AfterJob DEF WorkerDies, rows
  <2> QED
    BY <1>9, <2>1, <2>2 DEF WorkerDies
<1>10. CASE SettleVersion(w)
  BY <1>10, AfterJob DEF SettleVersion, rows
<1>11. CASE TakeOffline(w) \/ CarryOutWithdrawal(w) \/ MarkProcessing(w)
              \/ PersistChunks(w) \/ Finalize(w) \/ Refuse(w) \/ StepFails(w)
  <2>1. step[w] \in Executing /\ \E next \in Executing : Advance(w, next)
    BY <1>11 DEF TakeOffline, CarryOutWithdrawal, MarkProcessing, PersistChunks, Finalize,
                 Refuse, Refused, StepFails, Executing
  <2>2. UNCHANGED rows
    BY <1>11 DEF TakeOffline, CarryOutWithdrawal, MarkProcessing, PersistChunks, Finalize,
                 Refuse, StepFails
  <2> QED
    BY <2>1, <2>2, WithinJob DEF rows
<1> QED
  BY <1>2, <1>3, <1>4, <1>5, <1>6, <1>7, <1>8, <1>9, <1>10, <1>11 DEF WorkerStep, Execute

LEMMA NextQueue == CInv /\ [Next]_vars => QueueStep
<1> SUFFICES ASSUME CInv, [Next]_vars PROVE QueueStep
  OBVIOUS
<1>1. ASSUME UNCHANGED workers PROVE UNCHANGED <<Phase, Held>>
  BY <1>1 DEF workers, Phase, Held
<1> USE DEF QueueStep, Q!Next
<1>2. CASE Admin
  <2>1. CASE Govern
    BY <1>1, <2>1 DEF Govern, rows
  <2>2. ASSUME NEW type \in JobType \ {"import"}, NEW v \in Version, EnqueueOther(type, v)
        PROVE  QueueStep
    <3>1. <<type, v>> \in Job
      BY DEF Job
    <3>2. Q!Admin
      BY <1>1, <2>2, <3>1 DEF EnqueueOther, Q!Admin, Phase, Held
    <3> QED
      BY <3>2
  <2>3. ASSUME NEW j \in Job, Retry(j)
        PROVE  QueueStep
    <3>1. requeues < MaxRequeues
      BY <2>3, PipelineAssumption DEF Retry, MaxRequeues, CInv, ControlOK
    <3>2. Q!Admin
      BY <1>1, <2>3, <3>1 DEF Retry, Q!Admin, Phase, Held
    <3> QED
      BY <3>2
  <2>4. ASSUME NEW j \in Job, Cancel(j)
        PROVE  QueueStep
    <3>1. Q!Admin
      BY <1>1, <2>4 DEF Cancel, Q!Admin, Phase, Held
    <3> QED
      BY <3>1
  <2> QED
    BY <1>2, <2>1, <2>2, <2>3, <2>4 DEF Admin
<1>3. CASE Time
  <2>1. PICK j \in Job : Q!HeartbeatExpires(j) \/ Q!BackoffElapses(j)
    BY <1>3 DEF Time
  <2> QED
    BY <2>1
<1>4. CASE UNCHANGED vars
  BY <1>1, <1>4 DEF vars, rows
<1> QED
  BY <1>2, <1>3, <1>4, ImporterQueue, WorkerQueue DEF Next

(* Every behaviour of the pipeline is a behaviour of IngestionQueue too:   *)
(* what the endpoint, the worker and the administrators do to the rows of  *)
(* the queue while versions change around them is what the queue's own     *)
(* module says, a job's execution being one stay in "busy", and the audit  *)
(* event of a withdrawal, which may yet fail the job, one in "audit".      *)
THEOREM RefinesQueue == Spec => ImplementsQueue
<1>1. Init => Q!Init
  BY DEF Init, Q!Init, Executing, Holding
<1>2. CInv /\ [Next]_vars => [Q!Next]_(Q!vars)
  BY NextQueue DEF QueueStep, Q!vars, Phase, Held
<1> QED
  BY <1>1, <1>2, CInvariant, PTL DEF Spec, ImplementsQueue, Q!Spec

-----------------------------------------------------------------------------
(* What is proved of the tables holds of the pipeline.                     *)

QT == INSTANCE IngestionQueue_proofs WITH
        phase <- [w \in Worker |-> IF step[w] = "polled" THEN "polled"
                                      ELSE IF step[w] \in Executing THEN "busy"
                                      ELSE IF step[w] = "audit" THEN "audit"
                                      ELSE "idle"],
        held <- [w \in Worker |-> IF step[w] \in Holding THEN work[w] ELSE NoJob]

VT == INSTANCE DocumentVersions_proofs

(* The module of a table and the module of its theorems say the same.      *)
LEMMA QueueSpecs == Q!Spec => QT!Spec
<1>1. Q!Init <=> QT!Init
  BY DEF Q!Init, QT!Init, Q!NoRow, QT!NoRow
<1>2. Q!Next <=> QT!Next
  BY DEF Q!Next, QT!Next, Q!Admin, QT!Admin, Q!WorkerStep, QT!WorkerStep, Q!Poll, QT!Poll,
         Q!Start, QT!Start, Q!NothingToDo, QT!NothingToDo, Q!Beat, QT!Beat, Q!Leave, QT!Leave,
         Q!Succeed, QT!Succeed, Q!AuditWritten, QT!AuditWritten, Q!Fail, QT!Fail, Q!Crash, QT!Crash, Q!HeartbeatExpires,
         QT!HeartbeatExpires, Q!BackoffElapses, QT!BackoffElapses, Q!Enqueue, QT!Enqueue,
         Q!Write, QT!Write, Q!NoRow, QT!NoRow, Q!Released, QT!Released, Q!Claimable,
         QT!Claimable, Q!Claim, QT!Claim, Q!Owns, QT!Owns, Q!Heartbeat, QT!Heartbeat,
         Q!Complete, QT!Complete, Q!CanRetry, QT!CanRetry, Q!FailJob, QT!FailJob, Q!Stale,
         QT!Stale, Q!Reclaimed, QT!Reclaimed, Q!ReclaimStale, QT!ReclaimStale, Q!Retry,
         QT!Retry, Q!Cancel, QT!Cancel, Q!Active, QT!Active
<1>3. (UNCHANGED Q!vars) <=> (UNCHANGED QT!vars)
  BY DEF Q!vars, QT!vars
<1>4. [Q!Next]_(Q!vars) <=> [QT!Next]_(QT!vars)
  BY <1>2, <1>3
<1> QED
  BY <1>1, <1>4, PTL DEF Q!Spec, QT!Spec

LEMMA SameCardinality == ASSUME NEW S PROVE V!Cardinality(S) = VT!Cardinality(S)
BY DEF V!Cardinality, VT!Cardinality

LEMMA VersionSpecs == V!Spec => VT!Spec
<1>1. V!Init <=> VT!Init
  BY DEF V!Init, VT!Init
<1>2. V!Next <=> VT!Next
  <2>1. ASSUME NEW v \in Version, NEW s \in Subject \cup {NoOne}
        PROVE  V!BeginImport(v, s) <=> VT!BeginImport(v, s)
    BY SameCardinality DEF V!BeginImport, VT!BeginImport, V!InFlight, VT!InFlight, V!SetStatus, VT!SetStatus,
           V!Log, VT!Log
  <2>2. ASSUME NEW v \in Version
        PROVE  V!Index(v) <=> VT!Index(v)
    BY SameCardinality DEF V!Index, VT!Index, V!MarkProcessing, VT!MarkProcessing, V!Finalize, VT!Finalize,
           V!FailImport, VT!FailImport, V!ResetForRetry, VT!ResetForRetry, V!Reindex,
           VT!Reindex, V!Indexable, VT!Indexable, V!SetStatus, VT!SetStatus, V!GoLive,
           VT!GoLive, V!PointTo, VT!PointTo, V!Replaced, VT!Replaced, V!Siblings, VT!Siblings,
           V!Log, VT!Log
  <2>3. ASSUME NEW v \in Version
        PROVE  V!Govern(v) <=> VT!Govern(v)
    BY SameCardinality DEF V!Govern, VT!Govern, V!Approve, VT!Approve, V!Reject, VT!Reject, V!Publish,
           VT!Publish, V!Withdraw, VT!Withdraw, V!Rollback, VT!Rollback, V!MayReview,
           VT!MayReview, V!SelfReview, VT!SelfReview, V!Approvals, VT!Approvals, V!Retained,
           VT!Retained, V!SetStatus, VT!SetStatus, V!GoLive, VT!GoLive, V!PointTo, VT!PointTo,
           V!Replaced, VT!Replaced, V!Siblings, VT!Siblings, V!Log, VT!Log
  <2> QED
    BY <2>1, <2>2, <2>3 DEF V!Next, VT!Next
<1>3. (UNCHANGED V!vars) <=> (UNCHANGED VT!vars)
  BY DEF V!vars, VT!vars
<1>4. [V!Next]_(V!vars) <=> [VT!Next]_(VT!vars)
  BY <1>2, <1>3
<1> QED
  BY <1>1, <1>4, PTL DEF V!Spec, VT!Spec

LEMMA QueueHolds ==
  /\ QT!Spec => []QT!TypeOK
  /\ QT!Spec => [](Timely => QT!HolderOwns)
<1>1. QT!QueueAssumption
  <2>1. MaxRequeues \in Nat
    BY PipelineAssumption DEF MaxRequeues
  <2> QED
    BY <2>1, TablesAssumption DEF QT!QueueAssumption, Audited
<1> QED
  BY <1>1, QT!TypeCorrect, QT!HolderInvariant

LEMMA VersionsHold == VT!Spec => []VT!TypeOK
<1>1. VT!VersionAssumption /\ VT!GovernanceAssumption
  BY TablesAssumption, PipelineAssumption DEF VT!VersionAssumption, VT!GovernanceAssumption
<1> QED
  BY <1>1, VT!TypeCorrect

(* The pipeline's state has its type: both tables' by their modules, the   *)
(* rest from the control points.                                           *)
THEOREM PipelineTypeCorrect == Spec => []TypeOK
<1>1. CInv /\ VT!TypeOK /\ QT!TypeOK => TypeOK
  BY DEF CInv, ControlOK, TypeOK, V!TypeOK, VT!TypeOK, V!Status, VT!Status, V!Review, VT!Review,
         QT!TypeOK, Q!Row, QT!Row, Q!JobStatus, QT!JobStatus
<1> QED
  BY <1>1, CInvariant, RefinesVersions, RefinesQueue, QueueSpecs, VersionSpecs, QueueHolds,
     VersionsHold, PTL DEF ImplementsVersions, ImplementsQueue

-----------------------------------------------------------------------------
(* The version table follows the job table.  What it takes: no worker is   *)
(* killed or late with its heartbeat, the store keeps what it is given,    *)
(* administrators retry cancelled jobs at most, and nobody reindexes.      *)
Undisturbed == /\ Timely /\ ~MayCrash /\ ~StoreMayFail
               /\ RetryOf \subseteq {"cancelled"}
               /\ "reindex" \notin JobType

(* The worker that executes an import owns its row.                        *)
Owned == \A w \in Worker : step[w] \in Executing /\ work[w][1] = "import" =>
           /\ job[work[w]].status = "running"
           /\ job[work[w]].lockedBy = w
           /\ job[work[w]].heartbeat = "fresh"

Import(v) == <<"import", v>>

InRequest(i) == request[i] \in {"store", "enqueue", "compensate"}

(* What else there is to it: a running import is being executed; between   *)
(* its two transactions a worker is the only one to deal with the version, *)
(* and so is a request between its first and its last.                     *)
RunningIsExecuted ==
  \A j \in Job : j[1] = "import" /\ job[j].status = "running" =>
    /\ job[j].heartbeat = "fresh"
    /\ \E w \in Worker : step[w] \in Executing /\ work[w] = j

SettlingIsAlone ==
  \A w \in Worker : step[w] \in Settling =>
    /\ work[w][1] = "import"
    /\ status[Target(w)] \in V!Indexable
    /\ step[w] = "requeued" => /\ job[work[w]].status \in {"queued", "cancelled"}
                               /\ job[work[w]].delayed
    /\ step[w] = "dropped" => job[work[w]].status = "failed"
    /\ \A u \in Worker : step[u] \in Settling /\ work[u] = work[w] => u = w

RequestIsAlone ==
  \A i \in Importer : InRequest(i) =>
    /\ status[upload[i]] = "queued"
    /\ \/ job[Import(upload[i])].status \in {"absent", "succeeded", "failed"}
       \/ job[Import(upload[i])].status = "running" /\ Finished(upload[i])
    /\ \A k \in Importer : InRequest(k) /\ upload[k] = upload[i] => k = i
    /\ \A w \in Worker : step[w] \in Settling => Target(w) # upload[i]

StepOfType ==
  \A w \in Worker :
    /\ step[w] \in {"resolve", "mark", "persist", "finalize"} => work[w][1] = "import"
    /\ step[w] # "reindex"
    /\ step[w] \in {"withdraw", "audit"} => work[w][1] = "withdraw"

(* The story, case by case.                                                *)
Indexed == {"staged", "rejected", "indexed", "superseded", "withdrawn"}

StoryHolds(v) ==
  LET is == job[Import(v)].status IN
  /\ is = "absent" => status[v] \in {"absent", "failed"}
  /\ is \in {"queued", "cancelled"} => status[v] = "queued"
  /\ is = "running" /\ ~Finished(v) => status[v] \in V!Indexable
  /\ is = "running" /\ Finished(v) => status[v] \in Indexed \cup {"failed"}
  /\ is = "succeeded" => status[v] \in Indexed \cup {"failed"}
  /\ is = "failed" => status[v] = "failed"

StoriesHold == \A v \in Version : InTransit(v) \/ StoryHolds(v)

FInv == /\ RunningIsExecuted
        /\ SettlingIsAlone
        /\ RequestIsAlone
        /\ StepOfType
        /\ StoriesHold

Known == TypeOK /\ CInv /\ Owned

(* The import of a version, and the version of an import.                  *)
LEMMA ImportJob ==
  ASSUME NEW v \in Version
  PROVE  Import(v) \in Job /\ Import(v)[1] = "import" /\ Import(v)[2] = v
BY PipelineAssumption DEF Import, Job

LEMMA JobOfImport ==
  ASSUME NEW j \in Job
  PROVE  /\ j[1] \in AnyJobType /\ j[1] \in JobType /\ j[2] \in Version
         /\ j[1] = "import" => j = Import(j[2])
BY PipelineAssumption DEF Job, Import

LEMMA RowStatus ==
  ASSUME Known, NEW j \in Job
  PROVE  /\ job[j].status \in {"absent", "queued", "running", "succeeded", "failed", "cancelled"}
         /\ job[j] \in Q!Row
BY DEF Known, TypeOK, Q!Row, Q!JobStatus

LEMMA StoriesAreStories == Known => (StoriesHold <=> VersionFollowsJob)
<1> SUFFICES ASSUME Known, NEW v \in Version PROVE StoryHolds(v) <=> status[v] \in Story(v)
  BY DEF StoriesHold, VersionFollowsJob
<1>1. job[Import(v)].status
        \in {"absent", "queued", "running", "succeeded", "failed", "cancelled"}
  BY ImportJob, RowStatus
<1> QED BY <1>1 DEF StoryHolds, Story, Import, Indexed, V!Indexable, V!Published, V!Retained

(* A worker, between steps of an import, has no story of its own to tell.  *)
LEMMA ExecutingFacts ==
  ASSUME Known, FInv, NEW w \in Worker, step[w] \in Executing, work[w][1] = "import"
  PROVE  /\ work[w] \in Job /\ Target(w) \in Version
         /\ \A u \in Worker : step[u] \in Executing /\ work[u] = work[w] => u = w
         /\ \A u \in Worker : step[u] \in Settling => work[u] # work[w]
<1>1. work[w] \in Job /\ Target(w) \in Version
  BY TargetOfJob DEF Known, CInv, Executing
<1>2. \A u \in Worker : step[u] \in Executing /\ work[u] = work[w] => u = w
  BY DEF Known, Owned
<1>3. \A u \in Worker : step[u] \in Settling => work[u] # work[w]
  BY DEF Known, Owned, FInv, SettlingIsAlone, Settling
<1> QED BY <1>1, <1>2, <1>3

(* While an import is executed but not finished, nothing else deals with   *)
(* its version, which may be indexed.                                      *)
LEMMA UnfinishedFacts ==
  ASSUME Known, FInv, NEW w \in Worker, step[w] \in Executing \ {"complete"},
         work[w][1] = "import"
  PROVE  /\ work[w] = Import(Target(w))
         /\ ~InTransit(Target(w)) /\ ~Finished(Target(w))
         /\ status[Target(w)] \in V!Indexable
<1>1. /\ work[w] \in Job /\ Target(w) \in Version
      /\ \A u \in Worker : step[u] \in Executing /\ work[u] = work[w] => u = w
      /\ \A u \in Worker : step[u] \in Settling => work[u] # work[w]
  BY ExecutingFacts
<1>2. work[w] = Import(Target(w))
  BY <1>1, JobOfImport DEF Target
<1>3. ~Finished(Target(w))
  BY <1>1, <1>2 DEF Finished, Import, Executing
<1>4. job[Import(Target(w))].status = "running"
  BY <1>2 DEF Known, Owned
<1>5. \A i \in Importer : InRequest(i) => upload[i] # Target(w)
  BY <1>3, <1>4 DEF FInv, RequestIsAlone
<1>6. \A u \in Worker : step[u] \in Settling => Target(u) # Target(w)
  <2> SUFFICES ASSUME NEW u \in Worker, step[u] \in Settling, Target(u) = Target(w) PROVE FALSE
    OBVIOUS
  <2>1. work[u] \in Job /\ work[u][1] = "import"
    BY TargetOfJob DEF Known, CInv, Settling, FInv, SettlingIsAlone
  <2>2. work[u] = work[w]
    BY <2>1, <1>2, JobOfImport DEF Target
  <2> QED BY <1>1, <2>2
<1>7. ~InTransit(Target(w))
  BY <1>5, <1>6 DEF InTransit, InRequest
<1> QED BY <1>1, <1>2, <1>3, <1>4, <1>7 DEF FInv, StoriesHold, StoryHolds

(* A version that is in transit is queued, or at least still indexable.    *)
LEMMA TransitIsIndexable ==
  ASSUME Known, FInv, NEW v \in Version, InTransit(v)
  PROVE  status[v] \in V!Indexable
BY DEF InTransit, InRequest, FInv, RequestIsAlone, SettlingIsAlone, V!Indexable, Target

(* Steps that leave the rows of imports alone, change the hands a version  *)
(* is in neither for requests nor for workers, and its status only as the  *)
(* story allows.  A worker that has nothing to do with an import, before   *)
(* and after, may do what it likes.                                        *)
QuietRequests == \A i \in Importer : /\ InRequest(i)' <=> InRequest(i)
                                     /\ InRequest(i) => upload'[i] = upload[i]

Aside(w) == step[w] \notin Settling /\ (step[w] \in Executing => work[w][1] # "import")

QuietWorkers ==
  \A w \in Worker :
    \/ Aside(w) /\ Aside(w)'
    \/ /\ work'[w] = work[w]
       /\ step'[w] \in Executing <=> step[w] \in Executing
       /\ step[w] \in Settling \/ step'[w] \in Settling => step'[w] = step[w]
       /\ work[w][1] = "import" => (step'[w] = "complete" <=> step[w] = "complete")

QuietRows == \A v \in Version : job'[Import(v)] = job[Import(v)]

QuietStatus ==
  \A v \in Version :
    \/ status'[v] = status[v]
    \/ status[v] \in Indexed /\ status'[v] \in Indexed
    \/ /\ status'[v] \in V!Indexable
       /\ ~InTransit(v) /\ ~Finished(v) /\ job[Import(v)].status = "running"

LEMMA QuietStep ==
  ASSUME Known, FInv, QuietRows, QuietRequests, QuietWorkers, QuietStatus, StepOfType'
  PROVE  FInv'
<1>r. \A j \in Job : j[1] = "import" => job'[j] = job[j]
  BY JobOfImport DEF QuietRows
<1>f. \A v \in Version : Finished(v)' <=> Finished(v)
  <2> SUFFICES ASSUME NEW v \in Version, NEW w \in Worker
               PROVE  step'[w] = "complete" /\ work'[w] = Import(v)
                        <=> step[w] = "complete" /\ work[w] = Import(v)
    BY DEF Finished, Import
  <2> QED BY ImportJob DEF QuietWorkers, Aside, Executing
<1>s. \A w \in Worker : /\ step'[w] \in Settling <=> step[w] \in Settling
                        /\ step[w] \in Settling => /\ step'[w] = step[w]
                                                   /\ work'[w] = work[w]
                                                   /\ Target(w)' = Target(w)
  BY DEF QuietWorkers, Aside, Target
<1>t. \A v \in Version : InTransit(v)' <=> InTransit(v)
  BY <1>s DEF InTransit, InRequest, QuietRequests
<1>i. \A v \in Version : InTransit(v) => status'[v] = status[v]
  BY TransitIsIndexable DEF QuietStatus, V!Indexable, Indexed
<1>1. RunningIsExecuted'
  BY <1>r DEF FInv, RunningIsExecuted, QuietWorkers, Aside
<1>2. SettlingIsAlone'
  <2>1. ASSUME NEW w \in Worker, step[w] \in Settling
        PROVE  /\ status'[Target(w)] = status[Target(w)] /\ Target(w) \in Version
               /\ job'[work[w]] = job[work[w]]
    <3>0. job'[work[w]] = job[work[w]]
      BY <1>r, <2>1, TargetOfJob DEF Known, CInv, Settling, FInv, SettlingIsAlone
    <3>1. Target(w) \in Version
      BY <2>1, TargetOfJob DEF Known, CInv, Settling
    <3>2. InTransit(Target(w))
      BY <2>1 DEF InTransit
    <3> QED BY <1>i, <3>0, <3>1, <3>2
  <2> QED BY <1>s, <2>1 DEF FInv, SettlingIsAlone
<1>3. RequestIsAlone'
  <2>1. ASSUME NEW i \in Importer, InRequest(i)
        PROVE  status'[upload[i]] = status[upload[i]] /\ upload[i] \in Version
    <3>1. upload[i] \in Version
      BY <2>1 DEF Known, CInv, Requesting, InRequest
    <3>2. InTransit(upload[i])
      BY <2>1 DEF InTransit, InRequest
    <3> QED BY <1>i, <3>1, <3>2
  <2>2. ASSUME NEW i \in Importer, InRequest(i)'
        PROVE  /\ InRequest(i) /\ upload'[i] = upload[i] /\ upload[i] \in Version
               /\ status'[upload[i]] = status[upload[i]]
               /\ Finished(upload[i])' <=> Finished(upload[i])
    BY <1>f, <2>1, <2>2 DEF QuietRequests
  <2> SUFFICES ASSUME NEW i \in Importer, InRequest(i)'
               PROVE  /\ status'[upload'[i]] = "queued"
                      /\ \/ job'[Import(upload'[i])].status \in {"absent", "succeeded", "failed"}
                         \/ /\ job'[Import(upload'[i])].status = "running"
                            /\ Finished(upload[i])'
                      /\ \A k \in Importer : InRequest(k)' /\ upload'[k] = upload'[i] => k = i
                      /\ \A w \in Worker : step'[w] \in Settling => Target(w)' # upload'[i]
    BY DEF RequestIsAlone, Import, Finished
  <2> QED BY <1>s, <2>2 DEF FInv, RequestIsAlone, QuietRows
<1>4. StoriesHold'
  <2> SUFFICES ASSUME NEW v \in Version, ~InTransit(v)' PROVE StoryHolds(v)'
    BY DEF StoriesHold
  <2>1. StoryHolds(v)
    BY <1>t DEF FInv, StoriesHold
  <2>2. job[Import(v)].status
          \in {"absent", "queued", "running", "succeeded", "failed", "cancelled"}
    BY ImportJob, RowStatus
  <2>3. Import(v)' = Import(v) /\ job'[Import(v)] = job[Import(v)]
    BY DEF Import, QuietRows
  <2> QED BY <1>f, <2>1, <2>2, <2>3 DEF QuietStatus, StoryHolds, V!Indexable, Indexed
<1> QED BY <1>1, <1>2, <1>3, <1>4 DEF FInv

(* Rows that change without being run, and without contradicting a story.  *)
QuietRow(j) ==
  /\ \A k \in Job \ {j} : job'[k] = job[k]
  /\ j[1] = "import" =>
       /\ job[j].status # "running" /\ job'[j].status # "running"
       /\ \/ job'[j].status = job[j].status
          \/ {job[j].status, job'[j].status} \subseteq {"queued", "cancelled"}
  /\ (\E w \in Worker : step[w] \in Settling /\ work[w] = j) => job'[j].delayed = job[j].delayed

LEMMA RowMoves ==
  ASSUME Known, FInv, NEW j \in Job, QuietRow(j), UNCHANGED <<status, workers, requests>>
  PROVE  FInv'
<1>u. status' = status /\ step' = step /\ work' = work /\ request' = request /\ upload' = upload
  BY DEF workers, requests
<1>s. \A w \in Worker : step[w] \in Settling => work[w] \in Job /\ work[w][1] = "import"
  BY TargetOfJob DEF Known, CInv, Settling, FInv, SettlingIsAlone
<1>v. \A v \in Version : \/ job'[Import(v)].status = job[Import(v)].status
                         \/ /\ job[Import(v)].status \in {"queued", "cancelled"}
                            /\ job'[Import(v)].status \in {"queued", "cancelled"}
  BY ImportJob DEF QuietRow
<1>1. RunningIsExecuted'
  BY <1>u DEF FInv, RunningIsExecuted, QuietRow
<1>2. SettlingIsAlone'
  <2> SUFFICES ASSUME NEW w \in Worker, step[w] \in Settling
               PROVE  /\ step[w] = "requeued" => /\ job'[work[w]].status \in {"queued", "cancelled"}
                                                 /\ job'[work[w]].delayed
                      /\ step[w] = "dropped" => job'[work[w]].status = "failed"
    BY <1>u DEF FInv, SettlingIsAlone, Target
  <2> QED BY <1>s DEF FInv, SettlingIsAlone, QuietRow
<1>3. RequestIsAlone'
  <2>1. \A i \in Importer : InRequest(i) => upload[i] \in Version
    BY DEF Known, CInv, Requesting, InRequest
  <2> QED BY <1>u, <1>v, <2>1 DEF FInv, RequestIsAlone, InRequest, Import, Finished, Target
<1>4. StepOfType'
  BY <1>u DEF FInv, StepOfType
<1>5. StoriesHold'
  BY <1>u, <1>v DEF FInv, StoriesHold, StoryHolds, InTransit, Finished, Import, Target
<1> QED BY <1>1, <1>2, <1>3, <1>4, <1>5 DEF FInv

(* The importing endpoint.                                                 *)
LEMMA ImporterStories ==
  ASSUME Undisturbed, Known, FInv, NEW i \in Importer, ImporterStep(i)
  PROVE  FInv'
<1>k. /\ request \in [Importer -> {"idle", "store", "storeDuplicate", "enqueue", "compensate"}]
      /\ upload \in [Importer -> Version \cup {NoVersion}]
      /\ status \in [Version -> V!Status \cup {"absent"}]
      /\ job \in [Job -> Q!Row]
      /\ request[i] # "idle" => upload[i] \in Version
  BY DEF Known, CInv, ControlOK, Requesting, TypeOK
<1>q. ASSUME UNCHANGED <<status, job, workers>>, QuietRequests
      PROVE  FInv'
  <2>1. QuietWorkers /\ QuietStatus /\ QuietRows
    BY <1>q DEF workers, QuietWorkers, QuietStatus, QuietRows, Import
  <2>2. StepOfType'
    BY <1>q DEF FInv, StepOfType, workers
  <2> QED BY <1>q, <2>1, <2>2, QuietStep
<1>1. CASE Register(i)
  <2>1. PICK v \in Version :
          /\ upload' = [upload EXCEPT ![i] = v]
          /\ \/ \E s \in Subject : V!BeginImport(v, s) /\ Goto(i, "store")
             \/ UNCHANGED versions /\ Goto(i, "storeDuplicate")
    BY <1>1 DEF Register
  <2>2. request[i] = "idle" /\ UNCHANGED <<rows, workers, files>>
    BY <1>1 DEF Register
  <2>3. CASE UNCHANGED versions /\ Goto(i, "storeDuplicate")
    <3>1. QuietRequests
      BY <1>k, <2>1, <2>2, <2>3 DEF QuietRequests, InRequest, Goto
    <3> QED BY <1>q, <2>2, <2>3, <3>1 DEF versions, rows
  <2>4. ASSUME NEW s \in Subject, V!BeginImport(v, s), Goto(i, "store")
        PROVE  FInv'
    <3>1. /\ status[v] \notin V!Indexable
          /\ status' = [status EXCEPT ![v] = "queued"]
      BY <2>4 DEF V!BeginImport, V!SetStatus, V!InFlight, V!Indexable
    <3>2. job' = job /\ step' = step /\ work' = work
      BY <2>2 DEF rows, workers
    <3>3. /\ request' = [request EXCEPT ![i] = "store"] /\ upload' = [upload EXCEPT ![i] = v]
          /\ InRequest(i)' /\ ~InRequest(i) /\ upload'[i] = v
          /\ \A k \in Importer \ {i} : (InRequest(k)' <=> InRequest(k)) /\ upload'[k] = upload[k]
      BY <1>k, <2>1, <2>2, <2>4 DEF Goto, InRequest
    <3>4. ~InTransit(v)
      BY <3>1, TransitIsIndexable
    <3>5. StoryHolds(v)
      BY <3>4 DEF FInv, StoriesHold
    <3>6. \/ job[Import(v)].status \in {"absent", "succeeded", "failed"}
          \/ job[Import(v)].status = "running" /\ Finished(v)
      <4>1. job[Import(v)].status
              \in {"absent", "queued", "running", "succeeded", "failed", "cancelled"}
        BY ImportJob, RowStatus
      <4> QED BY <3>1, <3>5, <4>1 DEF StoryHolds, V!Indexable
    <3>7. \A u \in Version \ {v} : status'[u] = status[u]
      BY <3>1, <1>k
    <3>8. status'[v] = "queued"
      BY <3>1, <1>k
    <3>9. \A w \in Worker : step[w] \in Settling => Target(w) # v /\ Target(w) \in Version
      <4>1. \A w \in Worker : step[w] \in Settling => Target(w) \in Version
        BY TargetOfJob DEF Known, CInv, Settling
      <4> QED BY <3>4, <4>1 DEF InTransit
    <3>10. \A k \in Importer : InRequest(k) => upload[k] # v /\ upload[k] \in Version
      BY <3>4 DEF InTransit, InRequest, Known, CInv, Requesting
    <3>11. RunningIsExecuted' /\ StepOfType'
      BY <3>2 DEF FInv, RunningIsExecuted, StepOfType
    <3>12. SettlingIsAlone'
      BY <3>2, <3>7, <3>9 DEF FInv, SettlingIsAlone, Target
    <3>13. RequestIsAlone'
      <4>1. ASSUME NEW k \in Importer, InRequest(k)'
            PROVE  /\ status'[upload'[k]] = "queued"
                   /\ \/ job[Import(upload'[k])].status \in {"absent", "succeeded", "failed"}
                      \/ job[Import(upload'[k])].status = "running" /\ Finished(upload'[k])
                   /\ \A l \in Importer : InRequest(l)' /\ upload'[l] = upload'[k] => l = k
                   /\ \A w \in Worker : step[w] \in Settling => Target(w) # upload'[k]
        <5>1. CASE k = i
          BY <3>3, <3>6, <3>8, <3>9, <3>10, <5>1
        <5>2. CASE k # i
          <6>1. InRequest(k) /\ upload'[k] = upload[k] /\ upload[k] # v /\ upload[k] \in Version
            BY <3>3, <3>10, <4>1, <5>2
          <6> QED BY <3>3, <3>7, <5>2, <6>1 DEF FInv, RequestIsAlone
        <5> QED BY <5>1, <5>2
      <4> QED BY <3>2, <4>1 DEF RequestIsAlone, InRequest, Import, Finished, Target
    <3>14. StoriesHold'
      <4>1. InTransit(v)'
        BY <3>3 DEF InTransit, InRequest
      <4>2. \A u \in Version \ {v} : InTransit(u)' <=> InTransit(u)
        BY <3>2, <3>3 DEF InTransit, InRequest, Target
      <4> QED BY <3>2, <3>7, <4>1, <4>2 DEF FInv, StoriesHold, StoryHolds, Import, Finished
    <3> QED BY <3>11, <3>12, <3>13, <3>14 DEF FInv
  <2> QED BY <2>1, <2>3, <2>4
<1>2. CASE Store(i)
  <2>1. QuietRequests
    BY <1>k, <1>2 DEF Store, Goto, Done, QuietRequests, InRequest
  <2> QED BY <1>q, <1>2, <2>1 DEF Store, versions, rows
<1>3. CASE EnqueueFails(i)
  <2>1. QuietRequests
    BY <1>k, <1>3 DEF EnqueueFails, Goto, QuietRequests, InRequest
  <2> QED BY <1>q, <1>3, <2>1 DEF EnqueueFails, versions, rows
<1>4. ASSUME InRequest(i), Done(i), workers' = workers, NEW v \in Version, v = upload[i],
             \A k \in Job \ {Import(v)} : job'[k] = job[k],
             \A u \in Version \ {v} : status'[u] = status[u],
             \/ job'[Import(v)] = job[Import(v)] /\ status'[v] = "failed"
             \/ /\ job[Import(v)].status # "running"
                /\ job'[Import(v)].status = "queued" /\ status'[v] = "queued"
      PROVE  FInv'
  <2>1. step' = step /\ work' = work
    BY <1>4 DEF workers
  <2>2. /\ ~InRequest(i)'
        /\ \A k \in Importer \ {i} : request'[k] = request[k] /\ upload'[k] = upload[k]
    BY <1>k, <1>4 DEF Done, Goto, InRequest
  <2>3. \A k \in Importer \ {i} : InRequest(k) => upload[k] # v /\ upload[k] \in Version
    BY <1>4 DEF FInv, RequestIsAlone, InRequest, Known, CInv, Requesting
  <2>4. \A w \in Worker : step[w] \in Settling =>
          /\ Target(w) # v /\ Target(w) \in Version
          /\ work[w] \in Job /\ work[w] # Import(v)
    BY <1>4, ImportJob, TargetOfJob DEF FInv, RequestIsAlone, Known, CInv, Settling, Target
  <2>5. \/ job[Import(v)].status \in {"absent", "succeeded", "failed"}
        \/ job[Import(v)].status = "running" /\ Finished(v)
    BY <1>4 DEF FInv, RequestIsAlone
  <2>6. \A u \in Version \ {v} : Import(u) # Import(v) /\ Import(u) \in Job
    BY ImportJob
  <2>7. RunningIsExecuted'
    BY <1>4, <2>1 DEF FInv, RunningIsExecuted
  <2>8. SettlingIsAlone'
    BY <1>4, <2>1, <2>4 DEF FInv, SettlingIsAlone, Target
  <2>9. StepOfType'
    BY <2>1 DEF FInv, StepOfType
  <2>10. RequestIsAlone'
    <3>1. ASSUME NEW k \in Importer, InRequest(k)'
          PROVE  /\ InRequest(k) /\ k # i /\ upload'[k] = upload[k]
                 /\ status'[upload[k]] = status[upload[k]]
                 /\ job'[Import(upload[k])] = job[Import(upload[k])]
      BY <1>4, <2>2, <2>3, <2>6, <3>1 DEF InRequest
    <3>2. ASSUME NEW k \in Importer, InRequest(k)'
          PROVE  /\ status'[upload'[k]] = "queued"
                 /\ \/ job'[Import(upload'[k])].status \in {"absent", "succeeded", "failed"}
                    \/ job'[Import(upload'[k])].status = "running" /\ Finished(upload'[k])
                 /\ \A l \in Importer : InRequest(l)' /\ upload'[l] = upload'[k] => l = k
                 /\ \A w \in Worker : step[w] \in Settling => Target(w) # upload'[k]
      BY <3>1, <3>2 DEF FInv, RequestIsAlone
    <3> QED BY <2>1, <3>2 DEF RequestIsAlone, InRequest, Import, Finished, Target
  <2>11. StoriesHold'
    <3>1. StoryHolds(v)'
      <4>1. Import(v)' = Import(v) /\ (Finished(v)' <=> Finished(v))
        BY <2>1 DEF Import, Finished
      <4> QED BY <1>4, <2>5, <4>1 DEF StoryHolds
    <3>2. ASSUME NEW u \in Version \ {v}
          PROVE  /\ InTransit(u)' <=> InTransit(u)
                 /\ StoryHolds(u) => StoryHolds(u)'
      <4>1. InTransit(u)' <=> InTransit(u)
        BY <1>4, <2>1, <2>2 DEF InTransit, InRequest, Target
      <4>2. status'[u] = status[u] /\ job'[Import(u)] = job[Import(u)]
        BY <1>4, <2>6
      <4> QED BY <2>1, <4>1, <4>2 DEF StoryHolds, Import, Finished
    <3> QED BY <3>1, <3>2 DEF FInv, StoriesHold
  <2> QED BY <2>7, <2>8, <2>9, <2>10, <2>11 DEF FInv
<1>5. CASE EnqueueImport(i)
  <2>1. upload[i] \in Version /\ InRequest(i) /\ Done(i) /\ UNCHANGED <<versions, workers, files>>
    BY <1>k, <1>5 DEF EnqueueImport, InRequest
  <2>2. Import(upload[i]) \in Job
    BY <2>1, ImportJob
  <2>3. /\ job[Import(upload[i])].status # "running"
        /\ \A k \in Job \ {Import(upload[i])} : job'[k] = job[k]
        /\ job'[Import(upload[i])].status = "queued"
    BY <1>k, <1>5, <2>2 DEF EnqueueImport, Q!Enqueue, Q!Write, Q!NoRow, Import
  <2>4. status'[upload[i]] = "queued" /\ status' = status
    BY <2>1 DEF versions, FInv, RequestIsAlone
  <2> QED BY <1>4, <2>1, <2>3, <2>4
<1>6. CASE Compensate(i)
  <2>1. /\ upload[i] \in Version /\ InRequest(i) /\ Done(i) /\ UNCHANGED <<rows, workers>>
        /\ V!FailImport(upload[i])
    BY <1>k, <1>6 DEF Compensate, InRequest
  <2>2. status'[upload[i]] = "failed" /\ \A u \in Version \ {upload[i]} : status'[u] = status[u]
    BY <1>k, <2>1 DEF V!FailImport, V!SetStatus
  <2> QED BY <1>4, <2>1, <2>2 DEF rows
<1>7. CASE StoreFails(i) \/ RequestDies(i)
  BY <1>7 DEF StoreFails, RequestDies, Undisturbed
<1> QED BY <1>1, <1>2, <1>3, <1>5, <1>6, <1>7 DEF ImporterStep

(* A worker's quiet steps: all it does for a withdrawal ...                *)
LEMMA AsideStep ==
  ASSUME Known, FInv, NEW w \in Worker, Aside(w), Aside(w)', QuietRows, QuietStatus,
         requests' = requests, StepOfType',
         \A u \in Worker \ {w} : step'[u] = step[u] /\ work'[u] = work[u]
  PROVE  FInv'
<1>1. QuietRequests
  BY DEF QuietRequests, InRequest, requests
<1>2. QuietWorkers
  BY DEF QuietWorkers
<1> QED BY <1>1, <1>2, QuietStep

LEMMA WithdrawalRows ==
  ASSUME Known, NEW j \in Job, j[1] = "withdraw",
         \A k \in Job \ {j} : job'[k] = job[k]
  PROVE  QuietRows
BY ImportJob DEF QuietRows

(* ... and most of what it does for an import.                             *)
LEMMA QuietExecution ==
  ASSUME Undisturbed, Known, FInv, NEW w \in Worker,
         \/ Poll(w) \/ NothingToDo(w) \/ CarryOutWithdrawal(w) \/ Resolve(w)
         \/ MarkProcessing(w) \/ PersistChunks(w) \/ Refuse(w) \/ StepFails(w)
  PROVE  FInv'
<1>k. /\ step \in [Worker -> {"idle", "polled"} \cup Holding \cup Settling]
      /\ work \in [Worker -> Job \cup {NoJob}]
      /\ status \in [Version -> V!Status \cup {"absent"}]
      /\ job \in [Job -> Q!Row]
  BY DEF Known, CInv, ControlOK, TypeOK
<1>q. QuietRequests
  BY DEF QuietRequests, InRequest, requests, Poll, NothingToDo, CarryOutWithdrawal, Resolve,
         MarkProcessing, PersistChunks, Refuse, StepFails
<1>s. ASSUME status' = status
      PROVE  QuietStatus
  BY <1>s DEF QuietStatus
<1>a. ASSUME NEW next, Advance(w, next), QuietRows, QuietStatus,
             step[w] \notin Settling, next \notin Settling,
             next \in Executing <=> step[w] \in Executing,
             work[w][1] = "import" => (next = "complete" <=> step[w] = "complete"),
             next \in {"resolve", "mark", "persist", "finalize"} => work[w][1] = "import",
             next \notin {"reindex", "withdraw", "audit"}
      PROVE  FInv'
  <2>1. step'[w] = next /\ work' = work /\ \A u \in Worker \ {w} : step'[u] = step[u]
    BY <1>k, <1>a DEF Advance
  <2>2. QuietWorkers
    BY <1>a, <2>1 DEF QuietWorkers
  <2>3. StepOfType'
    BY <1>a, <2>1 DEF FInv, StepOfType
  <2> QED BY <1>a, <1>q, <2>2, <2>3, QuietStep
<1>r. ASSUME job' = job
      PROVE  QuietRows
  BY <1>r DEF QuietRows, Import
<1>1. CASE Poll(w)
  <2>1. \A v \in Version : Import(v) \in Job /\ ~Q!Stale(Import(v))
    BY ImportJob DEF FInv, RunningIsExecuted, Q!Stale
  <2>2. QuietRows
    BY <1>1, <1>k, <2>1 DEF Poll, Q!ReclaimStale, QuietRows
  <2>3. status' = status /\ step[w] = "idle" /\ Advance(w, "polled")
    BY <1>1 DEF Poll, versions
  <2> QED BY <1>a, <1>s, <2>2, <2>3 DEF Executing, Settling
<1>2. CASE NothingToDo(w)
  <2>1. status' = status /\ job' = job /\ step[w] = "polled" /\ Advance(w, "idle")
    BY <1>2 DEF NothingToDo, versions, rows
  <2> QED BY <1>a, <1>r, <1>s, <2>1 DEF Executing, Settling
<1>3. CASE CarryOutWithdrawal(w)
  <2>1. job' = job /\ step[w] = "withdraw" /\ Advance(w, "complete")
    BY <1>3 DEF CarryOutWithdrawal, rows
  <2>2. work[w][1] = "withdraw"
    BY <2>1 DEF FInv, StepOfType
  <2>3. QuietStatus
    BY <1>3, <1>k DEF CarryOutWithdrawal, V!Withdraw, V!SetStatus, QuietStatus, Indexed
  <2> QED BY <1>a, <1>r, <2>1, <2>2, <2>3 DEF Executing, Settling
<1>4. CASE Resolve(w)
  <2>1. /\ status' = status /\ step[w] = "resolve"
        /\ \E next \in {"mark", "terminal"} : Advance(w, next)
    BY <1>4 DEF Resolve, versions
  <2>2. work[w][1] = "import"
    BY <2>1 DEF FInv, StepOfType
  <2>3. job' = job
    <3>1. /\ work[w] \in Job /\ job[work[w]].heartbeat = "fresh"
      BY <2>1, <2>2, ExecutingFacts DEF Known, Owned, Executing
    <3>2. [job[work[w]] EXCEPT !.heartbeat = "fresh"] = job[work[w]]
      BY <1>k, <3>1 DEF Q!Row
    <3> QED BY <1>4, <1>k, <3>1, <3>2 DEF Resolve, Q!Heartbeat, Q!Write
  <2> QED BY <1>a, <1>r, <1>s, <2>1, <2>2, <2>3 DEF Executing, Settling
<1>5. CASE MarkProcessing(w)
  <2>1. /\ job' = job /\ step[w] = "mark"
        /\ \E next \in {"persist", "terminal"} : Advance(w, next)
    BY <1>5 DEF MarkProcessing, rows
  <2>2. step[w] \in Executing \ {"complete"} /\ work[w][1] = "import" /\ Target(w) \in Version
    BY <2>1, ExecutingFacts DEF FInv, StepOfType, Executing
  <2>3. ~InTransit(Target(w)) /\ ~Finished(Target(w)) /\ job[Import(Target(w))].status = "running"
    BY <2>2, UnfinishedFacts DEF Known, Owned
  <2>4. status' = [status EXCEPT ![Target(w)] = "processing"]
    BY <1>5 DEF MarkProcessing, V!MarkProcessing, V!SetStatus
  <2>5. QuietStatus
    BY <1>k, <2>3, <2>4 DEF QuietStatus, V!Indexable
  <2> QED BY <1>a, <1>r, <2>1, <2>2, <2>5 DEF Executing, Settling
<1>6. CASE PersistChunks(w)
  <2>1. status' = status /\ job' = job /\ step[w] = "persist" /\ Advance(w, "finalize")
    BY <1>6 DEF PersistChunks, versions, rows
  <2>2. work[w][1] = "import"
    BY <2>1 DEF FInv, StepOfType
  <2> QED BY <1>a, <1>r, <1>s, <2>1, <2>2 DEF Executing, Settling
<1>7. CASE Refuse(w)
  <2>1. /\ status' = status /\ job' = job
        /\ step[w] \in {"reindex", "withdraw", "resolve", "mark", "persist", "finalize"}
        /\ Advance(w, "terminal")
    BY <1>7 DEF Refuse, Refused, versions, rows
  <2> QED BY <1>a, <1>r, <1>s, <2>1 DEF Executing, Settling
<1>8. CASE StepFails(w)
  <2>1. /\ status' = status /\ job' = job
        /\ \/ step[w] \in Executing \ {"complete", "retryable", "terminal"}
           \/ step[w] = "complete" /\ work[w][1] = "withdraw"
        /\ Advance(w, "retryable")
    BY <1>8 DEF StepFails, versions, rows
  <2> QED BY <1>a, <1>r, <1>s, <2>1 DEF Executing, Settling
<1> QED BY <1>1, <1>2, <1>3, <1>4, <1>5, <1>6, <1>7, <1>8

(* What requests rely on, when neither they nor their versions change.     *)
LEMMA RequestsUntouched ==
  ASSUME Known, FInv, requests' = requests,
         \A i \in Importer : InRequest(i) =>
           /\ status'[upload[i]] = status[upload[i]]
           /\ \/ /\ job'[Import(upload[i])] = job[Import(upload[i])]
                 /\ Finished(upload[i]) => Finished(upload[i])'
              \/ job'[Import(upload[i])].status = "succeeded"
           /\ \A w \in Worker : step'[w] \in Settling => Target(w)' # upload[i]
  PROVE  RequestIsAlone'
<1>1. request' = request /\ upload' = upload
  BY DEF requests
<1>2. ASSUME NEW i \in Importer, InRequest(i)'
      PROVE  /\ status'[upload'[i]] = "queued"
             /\ \/ job'[Import(upload'[i])].status \in {"absent", "succeeded", "failed"}
                \/ job'[Import(upload'[i])].status = "running" /\ Finished(upload[i])'
             /\ \A k \in Importer : InRequest(k)' /\ upload'[k] = upload'[i] => k = i
             /\ \A w \in Worker : step'[w] \in Settling => Target(w)' # upload'[i]
  <2>1. InRequest(i) /\ upload'[i] = upload[i]
    BY <1>1, <1>2 DEF InRequest
  <2>2. \A k \in Importer : InRequest(k)' => InRequest(k) /\ upload'[k] = upload[k]
    BY <1>1 DEF InRequest
  <2> QED BY <2>1, <2>2 DEF FInv, RequestIsAlone
<1> QED BY <1>2 DEF RequestIsAlone, Import

LEMMA StartStories ==
  ASSUME Undisturbed, Known, FInv, NEW w \in Worker, Start(w)
  PROVE  FInv'
<1>k. /\ step \in [Worker -> {"idle", "polled"} \cup Holding \cup Settling]
      /\ work \in [Worker -> Job \cup {NoJob}]
      /\ job \in [Job -> Q!Row]
  BY DEF Known, CInv, ControlOK, TypeOK
<1>1. PICK j \in Job : /\ Q!Claim(w, j)
                       /\ work' = [work EXCEPT ![w] = j]
                       /\ step' = [step EXCEPT ![w] = IF j[1] = "import" THEN "resolve" ELSE j[1]]
  BY DEF Start
<1>2. status' = status /\ requests' = requests /\ step[w] = "polled"
  BY DEF Start, versions
<1>3. job[j].status = "queued" /\ ~job[j].delayed
  BY <1>1 DEF Q!Claim, Q!Claimable
<1>4. /\ job'[j].status = "running" /\ job'[j].heartbeat = "fresh"
      /\ \A k \in Job \ {j} : job'[k] = job[k]
  BY <1>k, <1>1 DEF Q!Claim, Q!Write, Q!Row
<1>j. j[1] \in {"import", "withdraw"}
  BY JobOfImport DEF Undisturbed, AnyJobType
<1>w. CASE j[1] = "withdraw"
  <2>1. /\ \A u \in Worker \ {w} : work'[u] = work[u] /\ step'[u] = step[u]
        /\ work'[w] = j /\ step'[w] = "withdraw"
    BY <1>k, <1>1, <1>w
  <2>2. Aside(w) /\ Aside(w)'
    BY <1>2, <1>w, <2>1 DEF Aside, Executing, Settling
  <2>3. QuietRows /\ QuietStatus
    BY <1>2, <1>4, <1>w, WithdrawalRows DEF QuietStatus
  <2>4. StepOfType'
    BY <1>w, <2>1 DEF FInv, StepOfType
  <2> QED BY <1>2, <2>1, <2>2, <2>3, <2>4, AsideStep
<1> SUFFICES ASSUME j[1] = "import" PROVE FInv'
  BY <1>j, <1>w
<1>5. /\ work'[w] = j /\ \A u \in Worker \ {w} : work'[u] = work[u] /\ step'[u] = step[u]
      /\ step'[w] = "resolve"
  BY <1>k, <1>1
<1>6. /\ step'[w] \in Executing \ {"complete"} /\ step'[w] \notin Settling
      /\ step[w] \notin Executing /\ step[w] \notin Settling
  BY <1>2, <1>5 DEF Executing, Settling
<1>7. \A u \in Worker : step[u] \in Settling => work[u] # j /\ work[u] \in Job
  BY <1>3, TargetOfJob DEF Known, CInv, FInv, SettlingIsAlone, Settling
<1>8. \A u \in Worker : step[u] \in Executing => work[u] # j
  BY <1>3 DEF Known, Owned
<1>9. \A v \in Version : Finished(v)' <=> Finished(v)
  <2> SUFFICES ASSUME NEW v \in Version, NEW u \in Worker
               PROVE  step'[u] = "complete" /\ work'[u] = Import(v)
                        <=> step[u] = "complete" /\ work[u] = Import(v)
    BY DEF Finished, Import
  <2> QED BY <1>2, <1>5
<1>10. \A i \in Importer : InRequest(i) => Import(upload[i]) # j /\ upload[i] \in Version
  BY <1>3 DEF FInv, RequestIsAlone, Known, CInv, Requesting, InRequest
<1>11. RunningIsExecuted'
  BY <1>4, <1>5, <1>6 DEF FInv, RunningIsExecuted
<1>12. SettlingIsAlone'
  BY <1>2, <1>4, <1>5, <1>6, <1>7 DEF FInv, SettlingIsAlone, Target
<1>13. RequestIsAlone'
  <2>1. \A i \in Importer : InRequest(i) =>
          /\ job'[Import(upload[i])] = job[Import(upload[i])]
          /\ Finished(upload[i]) <=> Finished(upload[i])'
          /\ \A u \in Worker : step'[u] \in Settling => Target(u)' # upload[i]
    <3>1. ASSUME NEW i \in Importer, InRequest(i)
          PROVE  Finished(upload[i]) <=> Finished(upload[i])'
      BY <1>2, <1>5, <1>10, <3>1 DEF Finished, Import, requests
    <3> QED BY <1>4, <1>5, <1>6, <1>10, <3>1, ImportJob DEF FInv, RequestIsAlone, Target
  <2> QED BY <1>2, <2>1, RequestsUntouched
<1>14. StepOfType'
  BY <1>5 DEF FInv, StepOfType
<1>15. StoriesHold'
  <2> SUFFICES ASSUME NEW v \in Version, ~InTransit(v)' PROVE StoryHolds(v)'
    BY DEF StoriesHold
  <2>1. ~InTransit(v)
    BY <1>2, <1>5, <1>6 DEF InTransit, InRequest, requests, Target
  <2>2. StoryHolds(v) /\ Import(v) \in Job /\ Import(v)' = Import(v)
    BY <2>1, ImportJob DEF FInv, StoriesHold, Import
  <2>3. CASE Import(v) = j
    <3>1. ~Finished(v)
      BY <1>8, <2>3 DEF Finished, Import, Executing
    <3> QED BY <1>2, <1>3, <1>4, <1>9, <2>2, <2>3, <3>1 DEF StoryHolds, V!Indexable
  <2>4. CASE Import(v) # j
    BY <1>2, <1>4, <1>9, <2>2, <2>4 DEF StoryHolds
  <2> QED BY <2>3, <2>4
<1> QED BY <1>11, <1>12, <1>13, <1>14, <1>15 DEF FInv

LEMMA FinalizeStories ==
  ASSUME Undisturbed, Known, FInv, NEW w \in Worker, Finalize(w)
  PROVE  FInv'
<1>k. /\ step \in [Worker -> {"idle", "polled"} \cup Holding \cup Settling]
      /\ status \in [Version -> V!Status \cup {"absent"}]
  BY DEF Known, CInv, ControlOK
<1>1. /\ step[w] = "finalize" /\ V!Finalize(Target(w)) /\ Advance(w, "complete")
      /\ job' = job /\ requests' = requests
  BY DEF Finalize, rows
<1>2. step[w] \in Executing \ {"complete"} /\ work[w][1] = "import" /\ Target(w) \in Version
  BY <1>1, ExecutingFacts DEF FInv, StepOfType, Executing
<1>v. PICK v \in Version : v = Target(w)
  BY <1>2
<1>3. work[w] = Import(v) /\ ~InTransit(v) /\ job[Import(v)].status = "running"
  BY <1>2, <1>v, UnfinishedFacts DEF Known, Owned
<1>4. /\ step'[w] = "complete" /\ work' = work /\ \A u \in Worker \ {w} : step'[u] = step[u]
  BY <1>k, <1>1 DEF Advance
<1>5. /\ status'[v] \in Indexed
      /\ \A u \in Version \ {v} : \/ status'[u] = status[u]
                                  \/ status[u] \in Indexed /\ status'[u] \in Indexed
  BY <1>k, <1>1, <1>v DEF V!Finalize, V!GoLive, V!Replaced, V!SetStatus, Indexed
<1>f. Finished(v)' /\ \A u \in Version \ {v} : Finished(u)' <=> Finished(u)
  BY <1>1, <1>2, <1>3, <1>4 DEF Finished, Import
<1>s. \A u \in Worker : /\ Target(u)' = Target(u)
                        /\ step'[u] \in Settling <=> step[u] \in Settling
                        /\ step[u] \in Settling => step'[u] = step[u]
                        /\ step'[u] \in Executing <=> step[u] \in Executing
  BY <1>1, <1>4 DEF Target, Settling, Executing
<1>t. \A u \in Version : InTransit(u)' <=> InTransit(u)
  BY <1>1, <1>s DEF InTransit, InRequest, requests
<1>i. \A u \in Version : InTransit(u) => status'[u] = status[u]
  <2> SUFFICES ASSUME NEW u \in Version, InTransit(u) PROVE status'[u] = status[u]
    OBVIOUS
  <2>1. status[u] \in V!Indexable /\ u # v
    BY <1>3, TransitIsIndexable
  <2> QED BY <1>5, <2>1 DEF V!Indexable, Indexed
<1>6. RunningIsExecuted'
  BY <1>1, <1>4, <1>s DEF FInv, RunningIsExecuted
<1>7. SettlingIsAlone'
  <2>1. ASSUME NEW u \in Worker, step[u] \in Settling
        PROVE  status'[Target(u)] = status[Target(u)]
    <3>1. Target(u) \in Version
      BY <2>1, TargetOfJob DEF Known, CInv, Settling
    <3>2. InTransit(Target(u))
      BY <2>1 DEF InTransit
    <3> QED BY <1>i, <3>1, <3>2
  <2> QED BY <1>1, <1>4, <1>s, <2>1 DEF FInv, SettlingIsAlone
<1>8. RequestIsAlone'
  <2>1. ASSUME NEW i \in Importer, InRequest(i)
        PROVE  upload[i] \in Version /\ upload[i] # v /\ InTransit(upload[i])
    BY <1>3, <2>1 DEF InTransit, InRequest, Known, CInv, Requesting
  <2>2. ASSUME NEW i \in Importer, InRequest(i)
        PROVE  /\ status'[upload[i]] = status[upload[i]]
               /\ job'[Import(upload[i])] = job[Import(upload[i])]
               /\ Finished(upload[i]) => Finished(upload[i])'
               /\ \A u \in Worker : step'[u] \in Settling => Target(u)' # upload[i]
    <3>1. upload[i] \in Version /\ upload[i] # v /\ InTransit(upload[i])
      BY <2>1, <2>2
    <3>2. Finished(upload[i]) => Finished(upload[i])'
      BY <1>1, <1>4, <1>2 DEF requests, Finished
    <3> QED BY <1>1, <1>i, <1>s, <2>2, <3>1, <3>2 DEF FInv, RequestIsAlone
  <2> QED BY <1>1, <2>2, RequestsUntouched
<1>9. StepOfType'
  BY <1>4 DEF FInv, StepOfType
<1>10. StoriesHold'
  <2> SUFFICES ASSUME NEW u \in Version, ~InTransit(u)' PROVE StoryHolds(u)'
    BY DEF StoriesHold
  <2>1. Import(u)' = Import(u) /\ job' = job
    BY <1>1 DEF Import
  <2>2. CASE u = v
    BY <1>3, <1>5, <1>f, <2>1, <2>2 DEF StoryHolds
  <2>3. CASE u # v
    <3>1. StoryHolds(u)
      BY <1>t DEF FInv, StoriesHold
    <3>2. job[Import(u)].status
            \in {"absent", "queued", "running", "succeeded", "failed", "cancelled"}
      BY ImportJob, RowStatus
    <3> QED BY <1>5, <1>f, <2>1, <2>3, <3>1, <3>2 DEF StoryHolds, V!Indexable, Indexed
  <2> QED BY <2>2, <2>3
<1> QED BY <1>6, <1>7, <1>8, <1>9, <1>10 DEF FInv

(* A worker leaves its import: what the others know of theirs stays.       *)
LEMMA LeaveStories ==
  ASSUME Known, FInv, NEW w \in Worker, step[w] \in Executing, work[w][1] = "import",
         UNCHANGED <<status, requests>>,
         \A k \in Job \ {work[w]} : job'[k] = job[k],
         \A u \in Worker \ {w} : step'[u] = step[u] /\ work'[u] = work[u],
         \/ /\ step[w] = "complete" /\ step'[w] = "idle"
            /\ job'[work[w]].status = "succeeded"
         \/ /\ step[w] # "complete" /\ work' = work
            /\ \/ /\ step'[w] = "requeued" /\ job'[work[w]].status = "queued"
                  /\ job'[work[w]].delayed
               \/ step'[w] = "dropped" /\ job'[work[w]].status = "failed"
  PROVE  FInv'
<1>e. /\ work[w] \in Job /\ Target(w) \in Version
      /\ \A u \in Worker : step[u] \in Executing /\ work[u] = work[w] => u = w
      /\ \A u \in Worker : step[u] \in Settling => work[u] # work[w]
  BY ExecutingFacts
<1>j. PICK j \in Job : j = work[w]
  BY <1>e
<1>n. /\ step'[w] \notin Executing /\ step'[w] # "complete"
      /\ \A u \in Worker : step[u] \in Settling => u # w
  BY DEF Executing, Settling
<1>s. \A u \in Worker : step[u] \in Settling => work[u] \in Job /\ Target(u) \in Version
  BY TargetOfJob DEF Known, CInv, Settling
<1>1. RunningIsExecuted'
  BY <1>j DEF FInv, RunningIsExecuted
<1>2. SettlingIsAlone'
  <2>1. CASE step'[w] = "idle"
    BY <1>e, <1>j, <1>n, <1>s, <2>1 DEF FInv, SettlingIsAlone, Target, Settling
  <2>2. CASE step'[w] # "idle"
    <3>1. status[Target(w)] \in V!Indexable
      BY <2>2, UnfinishedFacts
    <3>2. work' = work /\ status' = status
      BY <2>2
    <3> QED BY <1>e, <1>j, <1>n, <1>s, <2>2, <3>1, <3>2 DEF FInv, SettlingIsAlone, Target, Settling
  <2> QED BY <2>1, <2>2
<1>3. RequestIsAlone'
  <2>1. ASSUME NEW i \in Importer, InRequest(i)
        PROVE  /\ \/ /\ job'[Import(upload[i])] = job[Import(upload[i])]
                     /\ Finished(upload[i]) => Finished(upload[i])'
                  \/ job'[Import(upload[i])].status = "succeeded"
               /\ \A u \in Worker : step'[u] \in Settling => Target(u)' # upload[i]
    <3>1. PICK v \in Version : v = upload[i]
      BY <2>1 DEF Known, CInv, Requesting, InRequest
    <3>2. upload' = upload
      BY DEF requests
    <3>3. Import(v) \in Job
      BY ImportJob
    <3>4. CASE Import(v) = j
      <4>1. Finished(v)
        BY <1>j, <2>1, <3>1, <3>4 DEF FInv, RequestIsAlone, Known, Owned
      <4>2. step[w] = "complete" /\ work[w][1] = "import"
        BY <1>e, <1>j, <3>4, <4>1, ImportJob DEF Finished, Import, Executing
      <4>3. job'[Import(v)].status = "succeeded" /\ step'[w] = "idle"
        BY <1>j, <3>4, <4>2
      <4>4. \A u \in Worker : step'[u] \in Settling => Target(u)' # v
        BY <2>1, <3>1, <4>3 DEF FInv, RequestIsAlone, Target, Settling
      <4> QED BY <3>1, <4>3, <4>4
    <3>5. CASE Import(v) # j
      <4>1. job'[Import(v)] = job[Import(v)]
        BY <1>j, <3>3, <3>5
      <4>2. Finished(upload[i]) => Finished(upload[i])'
        BY <1>j, <3>1, <3>2, <3>5 DEF Finished, Import
      <4>3. \A u \in Worker : step'[u] \in Settling => Target(u)' # v
        <5>1. step'[w] \in Settling => Target(w) # v /\ work' = work
          BY <1>e, <1>j, <3>5, JobOfImport DEF Settling, Target
        <5> QED BY <2>1, <3>1, <5>1 DEF FInv, RequestIsAlone, Target
      <4> QED BY <3>1, <4>1, <4>2, <4>3
    <3> QED BY <3>4, <3>5
  <2>2. \A i \in Importer : status'[upload[i]] = status[upload[i]]
    OBVIOUS
  <2> QED BY <2>1, <2>2, RequestsUntouched
<1>4. StepOfType'
  BY <1>n DEF FInv, StepOfType
<1>5. StoriesHold'
  <2> SUFFICES ASSUME NEW v \in Version, ~InTransit(v)' PROVE StoryHolds(v)'
    BY DEF StoriesHold
  <2>1. Import(v) \in Job /\ Import(v)' = Import(v)
    BY ImportJob DEF Import
  <2>2. ~InTransit(v)
    BY <1>n, <2>1 DEF InTransit, InRequest, requests, Target
  <2>3. StoryHolds(v)
    BY <2>2 DEF FInv, StoriesHold
  <2>4. CASE Import(v) = j
    <3>1. step[w] = "complete"
      <4>1. ASSUME step[w] # "complete" PROVE FALSE
        <5>1. step'[w] \in Settling /\ work' = work
          BY <1>j, <2>4, <4>1, ImportJob DEF Settling
        <5>2. Target(w)' = v
          BY <1>j, <2>4, <5>1, ImportJob DEF Target
        <5> QED BY <2>2, <5>1, <5>2 DEF InTransit
      <4> QED BY <4>1
    <3>2. job'[Import(v)].status = "succeeded"
      BY <1>j, <2>4, <3>1, ImportJob
    <3>3. Finished(v) /\ job[Import(v)].status = "running"
      BY <1>j, <2>4, <3>1 DEF Finished, Import, Known, Owned
    <3> QED BY <2>1, <2>3, <3>2, <3>3 DEF StoryHolds
  <2>5. CASE Import(v) # j
    <3>1. job'[Import(v)] = job[Import(v)]
      BY <1>j, <2>1, <2>5
    <3>2. Finished(v)' <=> Finished(v)
      BY <1>j, <1>n, <2>5 DEF Finished, Import
    <3> QED BY <2>1, <2>3, <3>1, <3>2 DEF StoryHolds
  <2> QED BY <2>4, <2>5
<1> QED BY <1>1, <1>2, <1>3, <1>4, <1>5 DEF FInv

LEMMA CompleteStories ==
  ASSUME Undisturbed, Known, FInv, NEW w \in Worker, Complete(w)
  PROVE  FInv'
<1>k. /\ step \in [Worker -> {"idle", "polled"} \cup Holding \cup Settling]
      /\ work \in [Worker -> Job \cup {NoJob}]
      /\ job \in [Job -> Q!Row]
  BY DEF Known, CInv, ControlOK, TypeOK
<1>1. /\ step[w] = "complete" /\ Q!Complete(w, work[w])
      /\ IF work[w] \in Audited THEN Advance(w, "audit") ELSE Release(w)
      /\ UNCHANGED <<status, requests>>
  BY DEF Complete, versions
<1>2. step[w] \in Executing /\ work[w] \in Job
  BY <1>1, TargetOfJob DEF Executing, Known, CInv
<1>3. work[w][1] \in {"import", "withdraw"}
  BY <1>2, JobOfImport DEF AnyJobType, Undisturbed
<1>4. \A u \in Worker \ {w} : step'[u] = step[u] /\ work'[u] = work[u]
  BY <1>k, <1>1 DEF Release, Advance
<1>5. \A k \in Job \ {work[w]} : job'[k] = job[k]
  BY <1>k, <1>1, <1>2 DEF Q!Complete, Q!Write
<1>6. CASE work[w][1] = "withdraw"
  <2>1. step'[w] = "audit" /\ work'[w] = work[w]
    BY <1>k, <1>1, <1>2, <1>6 DEF Audited, Advance
  <2>2. Aside(w) /\ Aside(w)'
    BY <1>1, <1>6, <2>1 DEF Aside, Executing, Settling
  <2>3. QuietRows /\ QuietStatus
    BY <1>1, <1>2, <1>5, <1>6, WithdrawalRows DEF QuietStatus
  <2>4. StepOfType'
    BY <1>4, <1>6, <2>1 DEF FInv, StepOfType
  <2> QED BY <1>1, <1>4, <2>2, <2>3, <2>4, AsideStep
<1>7. CASE work[w][1] = "import"
  <2>1. Q!Owns(w, work[w])
    BY <1>2, <1>7 DEF Known, Owned, Q!Owns
  <2>2. job'[work[w]].status = "succeeded"
    <3>1. job' = [job EXCEPT ![work[w]] = [job[work[w]] EXCEPT !.status = "succeeded",
                                             !.lockedBy = NoWorker,
                                             !.heartbeat = "fresh"]]
      BY <1>1, <2>1 DEF Q!Complete, Q!Write
    <3>2. job[work[w]] \in Q!Row
      BY <1>k, <1>2
    <3> QED BY <1>k, <1>2, <3>1, <3>2 DEF Q!Row
  <2>3. step'[w] = "idle"
    BY <1>k, <1>1, <1>7 DEF Audited, Release
  <2> QED BY <1>1, <1>2, <1>4, <1>5, <1>7, <2>2, <2>3, LeaveStories
<1> QED BY <1>3, <1>6, <1>7

LEMMA AuditStories ==
  ASSUME Known, FInv, NEW w \in Worker, AuditWritten(w)
  PROVE  FInv'
<1>k. /\ step \in [Worker -> {"idle", "polled"} \cup Holding \cup Settling]
      /\ work \in [Worker -> Job \cup {NoJob}]
  BY DEF Known, CInv, ControlOK
<1>1. /\ step[w] = "audit" /\ step'[w] = "idle"
      /\ \A u \in Worker \ {w} : step'[u] = step[u] /\ work'[u] = work[u]
      /\ status' = status /\ job' = job /\ requests' = requests
  BY <1>k DEF AuditWritten, Release, versions, rows
<1>2. Aside(w) /\ Aside(w)'
  BY <1>1 DEF Aside, Executing, Settling
<1>3. QuietRows /\ QuietStatus /\ StepOfType'
  BY <1>1 DEF QuietRows, Import, QuietStatus, FInv, StepOfType
<1> QED BY <1>1, <1>2, <1>3, AsideStep

LEMMA RecordStories ==
  ASSUME Undisturbed, Known, FInv, NEW w \in Worker, RecordFailure(w)
  PROVE  FInv'
<1>k. /\ step \in [Worker -> {"idle", "polled"} \cup Holding \cup Settling]
      /\ work \in [Worker -> Job \cup {NoJob}]
      /\ job \in [Job -> Q!Row]
  BY DEF Known, CInv, ControlOK, TypeOK
<1> DEFINE retryable == step[w] # "terminal"
           again == Q!CanRetry(work[w], retryable)
<1>1. /\ step[w] \in {"retryable", "terminal", "audit"} /\ Q!FailJob(work[w], retryable)
      /\ IF work[w][1] = "withdraw" THEN Release(w)
         ELSE Advance(w, IF again THEN "requeued" ELSE "dropped")
      /\ UNCHANGED <<status, requests>>
  BY DEF RecordFailure, versions
<1>2. step[w] # "complete" /\ work[w] \in Job
  BY <1>1, TargetOfJob DEF Known, CInv
<1>3. work[w][1] \in {"import", "withdraw"}
  BY <1>2, JobOfImport DEF AnyJobType, Undisturbed
<1>4. /\ \A k \in Job \ {work[w]} : job'[k] = job[k]
      /\ job'[work[w]].status = IF again THEN "queued" ELSE "failed"
      /\ job'[work[w]].delayed = again
  <2> HIDE DEF again
  <2>1. job' = [job EXCEPT ![work[w]] =
                  [[job[work[w]] EXCEPT !.status = IF again THEN "queued" ELSE "failed",
                                        !.lockedBy = NoWorker, !.heartbeat = "none"]
                     EXCEPT !.delayed = again]]
    BY <1>1 DEF Q!FailJob, Q!Write, Q!Released, again
  <2> QED BY <1>k, <1>2, <2>1 DEF Q!Row
<1> HIDE DEF again
<1>5. \A u \in Worker \ {w} : step'[u] = step[u] /\ work'[u] = work[u]
  BY <1>k, <1>1 DEF Release, Advance
<1>6. CASE work[w][1] = "withdraw"
  <2>1. step'[w] = "idle"
    BY <1>k, <1>1, <1>6 DEF Release
  <2>2. Aside(w) /\ Aside(w)'
    BY <1>1, <1>6, <2>1 DEF Aside, Executing, Settling
  <2>3. QuietRows /\ QuietStatus
    BY <1>1, <1>2, <1>4, <1>6, WithdrawalRows DEF QuietStatus
  <2>4. StepOfType'
    BY <1>5, <2>1 DEF FInv, StepOfType
  <2> QED BY <1>1, <1>5, <2>2, <2>3, <2>4, AsideStep
<1>7. CASE work[w][1] = "import"
  <2>1. work' = work /\ step'[w] = IF again THEN "requeued" ELSE "dropped"
    BY <1>k, <1>1, <1>7 DEF Advance
  <2>2. \/ step'[w] = "requeued" /\ job'[work[w]].status = "queued" /\ job'[work[w]].delayed
        \/ step'[w] = "dropped" /\ job'[work[w]].status = "failed"
    BY <1>4, <2>1
  <2>3. step[w] \in Executing
    BY <1>1, <1>7 DEF FInv, StepOfType, Executing
  <2> QED BY <1>1, <1>2, <1>4, <1>5, <1>7, <2>1, <2>2, <2>3, LeaveStories
<1> QED BY <1>3, <1>6, <1>7

LEMMA SettleStories ==
  ASSUME Undisturbed, Known, FInv, NEW w \in Worker, SettleVersion(w)
  PROVE  FInv'
<1>k. /\ step \in [Worker -> {"idle", "polled"} \cup Holding \cup Settling]
      /\ work \in [Worker -> Job \cup {NoJob}]
      /\ status \in [Version -> V!Status \cup {"absent"}]
  BY DEF Known, CInv, ControlOK
<1>1. step[w] \in Settling /\ Release(w) /\ job' = job /\ requests' = requests
  BY DEF SettleVersion, rows
<1>s. \A u \in Worker : step[u] \in Settling =>
        work[u] \in Job /\ work[u] = Import(Target(u)) /\ Target(u) \in Version
  BY TargetOfJob, JobOfImport DEF Known, CInv, Settling, FInv, SettlingIsAlone, Target
<1>v. PICK v \in Version : v = Target(w) /\ work[w] = Import(v)
  BY <1>1, <1>s
<1>2. /\ status[v] \in V!Indexable
      /\ step[w] = "requeued" => job[Import(v)].status \in {"queued", "cancelled"}
      /\ step[w] = "dropped" => job[Import(v)].status = "failed"
  BY <1>1, <1>v DEF FInv, SettlingIsAlone
<1>3. /\ \A u \in Version \ {v} : status'[u] = status[u]
      /\ step[w] = "requeued" => status'[v] = "queued"
      /\ step[w] = "dropped" => status'[v] = "failed"
  BY <1>k, <1>v, <1>2 DEF SettleVersion, Settling, V!FailImport, V!ResetForRetry, V!SetStatus,
                          V!Indexable, versions
<1>4. /\ step'[w] = "idle" /\ \A u \in Worker \ {w} : step'[u] = step[u] /\ work'[u] = work[u]
      /\ "idle" \notin Executing /\ "idle" \notin Settling /\ step[w] \notin Executing
  BY <1>k, <1>1 DEF Release, Executing, Settling
<1>5. \A u \in Worker \ {w} : step[u] \in Settling => Target(u) # v /\ Target(u) \in Version
  BY <1>1, <1>s, <1>v DEF FInv, SettlingIsAlone
<1>6. \A i \in Importer : InRequest(i) => upload[i] # v /\ upload[i] \in Version
  BY <1>1, <1>v DEF FInv, RequestIsAlone, Known, CInv, Requesting, InRequest
<1>7. RunningIsExecuted'
  BY <1>1, <1>4 DEF FInv, RunningIsExecuted
<1>8. SettlingIsAlone'
  BY <1>1, <1>3, <1>4, <1>5 DEF FInv, SettlingIsAlone, Target
<1>9. RequestIsAlone'
  <2>1. ASSUME NEW i \in Importer, InRequest(i)
        PROVE  /\ status'[upload[i]] = status[upload[i]]
               /\ job'[Import(upload[i])] = job[Import(upload[i])]
               /\ Finished(upload[i]) => Finished(upload[i])'
               /\ \A u \in Worker : step'[u] \in Settling => Target(u)' # upload[i]
    <3>1. Finished(upload[i]) => Finished(upload[i])'
      <4>1. "complete" \in Executing /\ upload' = upload
        BY <1>1 DEF Executing, requests
      <4> QED BY <1>4, <4>1 DEF Finished
    <3>2. \A u \in Worker : step'[u] \in Settling => Target(u)' # upload[i]
      BY <1>4, <2>1 DEF FInv, RequestIsAlone, Target
    <3> QED BY <1>1, <1>3, <1>6, <2>1, <3>1, <3>2
  <2> QED BY <1>1, <2>1, RequestsUntouched
<1>10. StepOfType'
  BY <1>4 DEF FInv, StepOfType
<1>11. StoriesHold'
  <2> SUFFICES ASSUME NEW u \in Version, ~InTransit(u)' PROVE StoryHolds(u)'
    BY DEF StoriesHold
  <2>1. Import(u)' = Import(u)
    BY DEF Import
  <2>2. CASE u = v
    <3>1. step[w] \in {"requeued", "dropped"}
      BY <1>1 DEF Settling
    <3> QED BY <1>1, <1>2, <1>3, <2>1, <2>2, <3>1 DEF StoryHolds
  <2>3. CASE u # v
    <3>1. ~InTransit(u)
      BY <1>1, <1>4, <1>v, <2>3 DEF InTransit, InRequest, requests, Target
    <3>2. Finished(u)' <=> Finished(u)
      <4>1. "complete" \in Executing
        BY DEF Executing
      <4> QED BY <1>4, <4>1 DEF Finished
    <3> QED BY <1>1, <1>3, <2>1, <2>3, <3>1, <3>2 DEF FInv, StoriesHold, StoryHolds
  <2> QED BY <2>2, <2>3
<1> QED BY <1>7, <1>8, <1>9, <1>10, <1>11 DEF FInv

(* Administrators and time.                                                *)
LEMMA AdminStories ==
  ASSUME Undisturbed, Known, FInv, Admin
  PROVE  FInv'
<1>k. /\ status \in [Version -> V!Status \cup {"absent"}]
      /\ job \in [Job -> Q!Row]
  BY DEF Known, CInv, ControlOK, TypeOK
<1>1. CASE Govern
  <2>1. /\ job' = job /\ workers' = workers /\ requests' = requests
        /\ \E v \in Version : V!Govern(v)
    BY <1>1 DEF Govern, rows
  <2>2. QuietRequests /\ QuietWorkers /\ QuietRows /\ StepOfType'
    BY <2>1 DEF QuietRequests, QuietWorkers, QuietRows, Import, InRequest, requests, workers,
                FInv, StepOfType
  <2>3. QuietStatus
    <3>1. ASSUME NEW v \in Version, V!GoLive(v), status[v] \in Indexed
          PROVE  QuietStatus
      BY <3>1 DEF V!GoLive, V!Replaced, QuietStatus, Indexed
    <3>2. ASSUME NEW v \in Version, V!Govern(v)
          PROVE  QuietStatus
      BY <1>k, <3>1, <3>2 DEF V!Govern, V!Approve, V!Reject, V!Publish, V!Withdraw, V!Rollback,
                              V!MayReview, V!SetStatus, V!Retained, QuietStatus, Indexed
    <3> QED BY <2>1, <3>2
  <2> QED BY <2>1, <2>2, <2>3, QuietStep
<1>2. ASSUME NEW type \in JobType \ {"import"}, NEW v \in Version, EnqueueOther(type, v)
      PROVE  FInv'
  <2>1. PICK j \in Job : j = <<type, v>>
    BY DEF Job
  <2>2. /\ j[1] # "import" /\ job[j].status = "absent" /\ job'[j].status = "queued"
        /\ \A k \in Job \ {j} : job'[k] = job[k]
        /\ UNCHANGED <<status, workers, requests>>
    BY <1>k, <1>2, <2>1 DEF EnqueueOther, Q!Enqueue, Q!Write, Q!NoRow, versions
  <2>3. \A w \in Worker : step[w] \in Settling => work[w] # j
    BY <2>2 DEF FInv, SettlingIsAlone
  <2> QED BY <2>2, <2>3, RowMoves DEF QuietRow
<1>3. ASSUME NEW j \in Job, Retry(j)
      PROVE  FInv'
  <2>1. job[j].status = "cancelled"
    BY <1>3 DEF Retry, Undisturbed
  <2>2. /\ job'[j].status = "queued" /\ job'[j].delayed = job[j].delayed
        /\ \A k \in Job \ {j} : job'[k] = job[k]
        /\ UNCHANGED <<status, workers, requests>>
    BY <1>k, <1>3 DEF Retry, Q!Retry, Q!Write, Q!Released, Q!Row, versions
  <2> QED BY <2>1, <2>2, RowMoves DEF QuietRow
<1>4. ASSUME NEW j \in Job, Cancel(j)
      PROVE  FInv'
  <2>1. /\ job[j].status = "queued"
        /\ job'[j].status = "cancelled" /\ job'[j].delayed = job[j].delayed
        /\ \A k \in Job \ {j} : job'[k] = job[k]
        /\ UNCHANGED <<status, workers, requests>>
    BY <1>k, <1>4 DEF Cancel, Q!Cancel, Q!Write, Q!Row, versions
  <2> QED BY <2>1, RowMoves DEF QuietRow
<1> QED BY <1>1, <1>2, <1>3, <1>4 DEF Admin

LEMMA TimeStories ==
  ASSUME Undisturbed, Known, FInv, Time
  PROVE  FInv'
<1>k. job \in [Job -> Q!Row] /\ UNCHANGED <<status, workers, requests>>
  BY DEF Known, TypeOK, Time, versions
<1>1. ASSUME NEW j \in Job, Q!HeartbeatExpires(j)
      PROVE  FInv'
  <2>1. \A w \in Worker : step[w] \in Executing => work[w] # j
    BY <1>1 DEF Q!HeartbeatExpires, Undisturbed, Executing, Holding
  <2>2. j[1] = "import" => job[j].status # "running"
    BY <2>1 DEF FInv, RunningIsExecuted
  <2>3. /\ job'[j].status = job[j].status /\ job'[j].delayed = job[j].delayed
        /\ \A k \in Job \ {j} : job'[k] = job[k]
    BY <1>k, <1>1 DEF Q!HeartbeatExpires, Q!Write, Q!Row
  <2> QED BY <1>k, <2>2, <2>3, RowMoves DEF QuietRow
<1>2. ASSUME NEW j \in Job, Q!BackoffElapses(j),
             \A w \in Worker : step[w] \in Settling => work[w] # j
      PROVE  FInv'
  <2>1. /\ job'[j] = [job[j] EXCEPT !.delayed = FALSE]
        /\ \A k \in Job \ {j} : job'[k] = job[k]
    BY <1>k, <1>2 DEF Q!BackoffElapses, Q!Write
  <2>2. job'[j].status = job[j].status
    BY <1>k, <2>1 DEF Q!Row
  <2>3. CASE job[j].status # "running" \/ j[1] # "import"
    BY <1>k, <1>2, <2>1, <2>2, <2>3, RowMoves DEF QuietRow
  <2>4. CASE job[j].status = "running"
    <3>1. job'[j].heartbeat = job[j].heartbeat
      BY <1>k, <2>1 DEF Q!Row
    <3>2. \A k \in Job : /\ job'[k].status = job[k].status /\ job'[k].heartbeat = job[k].heartbeat
                         /\ k = j \/ job'[k].delayed = job[k].delayed
      BY <2>1, <2>2, <3>1
    <3>3. \A w \in Worker : step[w] \in Settling => work[w] \in Job /\ work[w] # j
      BY <1>2, TargetOfJob DEF Known, CInv, Settling
    <3>4. \A v \in Version : Import(v) \in Job
      BY ImportJob
    <3>5. \A i \in Importer : InRequest(i) => upload[i] \in Version
      BY DEF Known, CInv, Requesting, InRequest
    <3>6. step' = step /\ work' = work /\ request' = request /\ upload' = upload /\ status' = status
      BY <1>k DEF workers, requests
    <3>7. RunningIsExecuted'
      BY <3>2, <3>6 DEF FInv, RunningIsExecuted
    <3>8. SettlingIsAlone'
      BY <3>2, <3>3, <3>6 DEF FInv, SettlingIsAlone, Target
    <3>9. RequestIsAlone'
      BY <3>2, <3>4, <3>5, <3>6, SMTT(30)
         DEF FInv, RequestIsAlone, InRequest, Import, Finished, Target
    <3>10. StepOfType'
      BY <3>6 DEF FInv, StepOfType
    <3>11. StoriesHold'
      BY <3>2, <3>4, <3>6 DEF FInv, StoriesHold, StoryHolds, InTransit, Import, Finished, Target
    <3> QED BY <3>7, <3>8, <3>9, <3>10, <3>11 DEF FInv
  <2> QED BY <2>3, <2>4
<1> QED BY <1>1, <1>2 DEF Time, Undisturbed

LEMMA NextFInv ==
  ASSUME Undisturbed, Known, FInv, [Next]_vars
  PROVE  FInv'
<1>1. ASSUME NEW w \in Worker, WorkerStep(w)
      PROVE  FInv'
  <2>1. ~TakeOffline(w)
    BY DEF TakeOffline, FInv, StepOfType
  <2>2. ~WorkerDies(w)
    BY DEF WorkerDies, Undisturbed
  <2> QED BY <1>1, <2>1, <2>2, QuietExecution, StartStories, FinalizeStories, CompleteStories,
             AuditStories, RecordStories, SettleStories DEF WorkerStep, Execute
<1>2. CASE UNCHANGED vars
  <2>1. /\ job' = job /\ workers' = workers /\ requests' = requests /\ status' = status
    BY <1>2 DEF vars, rows, versions
  <2>2. QuietRequests /\ QuietWorkers /\ QuietStatus /\ QuietRows /\ StepOfType'
    BY <2>1 DEF QuietRequests, QuietWorkers, QuietStatus, QuietRows, Import, InRequest, requests,
                workers, FInv, StepOfType
  <2> QED BY <2>1, <2>2, QuietStep
<1> QED BY <1>1, <1>2, ImporterStories, AdminStories, TimeStories DEF Next

LEMMA InitFInv == Init => FInv
<1> SUFFICES ASSUME Init PROVE FInv
  OBVIOUS
<1>1. /\ \A w \in Worker : step[w] = "idle"
      /\ \A i \in Importer : request[i] = "idle"
      /\ \A j \in Job : job[j].status = "absent"
      /\ \A v \in Version : status[v] = "absent"
  BY DEF Init, V!Init, Q!NoRow
<1>2. StoriesHold
  BY <1>1, ImportJob DEF StoriesHold, StoryHolds
<1> QED BY <1>1, <1>2 DEF FInv, RunningIsExecuted, SettlingIsAlone, RequestIsAlone, StepOfType,
                          InRequest, Settling

(* With timely heartbeats a worker's job is its own, as the queue says.    *)
LEMMA OwnedInvariant == Spec => [](Timely => Owned)
<1>1. CInv /\ (Timely => QT!HolderOwns) => (Timely => Owned)
  <2> SUFFICES ASSUME CInv, QT!HolderOwns, NEW w \in Worker, step[w] \in Executing,
                      work[w][1] = "import"
               PROVE  /\ job[work[w]].status = "running"
                      /\ job[work[w]].lockedBy = w
                      /\ job[work[w]].heartbeat = "fresh"
    BY DEF Owned
  <2>1. work[w] \in Job /\ work[w] # NoJob
    BY TargetOfJob, TablesAssumption DEF CInv, Executing
  <2>2. work[w] \notin Audited /\ step[w] # "polled" /\ step[w] \in Holding
    BY DEF Audited, Executing, Holding
  <2> QED BY <2>1, <2>2 DEF QT!HolderOwns, QT!ExecutorOwns, QT!Settled, QT!Owns
<1> QED BY <1>1, CInvariant, RefinesQueue, QueueSpecs, QueueHolds, PTL DEF ImplementsQueue

LEMMA KnownInvariant == Spec => [](Timely => Known)
<1>1. TypeOK /\ CInv /\ (Timely => Owned) => (Timely => Known)
  BY DEF Known
<1> QED BY <1>1, PipelineTypeCorrect, CInvariant, OwnedInvariant, PTL

LEMMA FInvariant ==
  ASSUME Undisturbed
  PROVE  Spec => [](Known /\ FInv)
<1>1. (Timely => Known) /\ FInv /\ [Next]_vars => FInv'
  BY NextFInv DEF Undisturbed
<1>2. (Timely => Known) => Known
  BY DEF Undisturbed
<1> QED BY <1>1, <1>2, InitFInv, KnownInvariant, PTL DEF Spec

(* However requests, workers and reviews interleave, and whatever steps of *)
(* a job fail, the version of an import and its job tell the same story    *)
(* whenever nobody is between the two transactions.                        *)
THEOREM StoriesAgree ==
  ASSUME Undisturbed
  PROVE  Spec => []VersionFollowsJob
<1>1. Known /\ FInv => VersionFollowsJob
  BY StoriesAreStories DEF FInv
<1> QED BY <1>1, FInvariant, PTL

(* A published version leaves its readers by being replaced or withdrawn,  *)
(* and a withdrawn one comes back by a rollback or a new submission.       *)
Stands ==
  \A v \in Version :
    /\ status[v] = "indexed" => status'[v] \in {"indexed", "superseded", "withdrawn"}
    /\ status[v] = "withdrawn" =>
         \/ status'[v] \in {"withdrawn", "indexed"}
         \/ status'[v] = "queued" /\ submissions'[v] = submissions[v] + 1

LEMMA QuietTransactions ==
  ASSUME TypeOK, NEW v \in Version,
         \/ \E s \in Subject : V!BeginImport(v, s)
         \/ V!MarkProcessing(v) \/ V!Finalize(v) \/ V!Govern(v) \/ V!ResetForRetry(v)
  PROVE  Stands
<1>k. /\ status \in [Version -> V!Status \cup {"absent"}]
      /\ submissions \in [Version -> Nat]
  BY DEF TypeOK, V!TypeOK
<1>1. CASE \E s \in Subject : V!BeginImport(v, s)
  BY <1>k, <1>1 DEF V!BeginImport, V!SetStatus, Stands
<1>2. CASE V!MarkProcessing(v) \/ V!ResetForRetry(v)
  BY <1>k, <1>2 DEF V!MarkProcessing, V!ResetForRetry, V!SetStatus, V!Indexable, Stands
<1>3. CASE V!Finalize(v)
  BY <1>k, <1>3 DEF V!Finalize, V!SetStatus, V!GoLive, V!Replaced, V!Indexable, Stands
<1>4. CASE V!Govern(v)
  BY <1>k, <1>4 DEF V!Govern, V!Approve, V!Reject, V!Publish, V!Withdraw, V!Rollback, V!MayReview,
                    V!SetStatus, V!GoLive, V!Replaced, V!Retained, Stands
<1> QED BY <1>1, <1>2, <1>3, <1>4

LEMMA FailureStands ==
  ASSUME TypeOK, NEW v \in Version, V!FailImport(v), status[v] \notin {"indexed", "withdrawn"}
  PROVE  Stands
BY DEF TypeOK, V!TypeOK, V!FailImport, V!SetStatus, Stands

LEMMA WorkerStands ==
  ASSUME Known, FInv, NEW w \in Worker, WorkerStep(w)
  PROVE  Stands
<1>k. TypeOK
  BY DEF Known
<1>1. CASE TakeOffline(w)
  BY <1>1 DEF TakeOffline, FInv, StepOfType
<1>2. CASE CarryOutWithdrawal(w) \/ MarkProcessing(w) \/ Finalize(w)
  <2>1. Target(w) \in Version
    BY <1>2, TargetOfJob DEF Known, CInv, CarryOutWithdrawal, MarkProcessing, Finalize
  <2> QED BY <1>k, <1>2, <2>1, QuietTransactions
          DEF CarryOutWithdrawal, MarkProcessing, Finalize, V!Govern
<1>3. CASE SettleVersion(w)
  <2>1. Target(w) \in Version /\ status[Target(w)] \notin {"indexed", "withdrawn"}
    BY <1>3, TargetOfJob DEF Known, CInv, SettleVersion, Settling, FInv, SettlingIsAlone,
                             V!Indexable
  <2>2. V!FailImport(Target(w)) \/ V!ResetForRetry(Target(w)) \/ UNCHANGED versions
    BY <1>3 DEF SettleVersion
  <2> QED BY <1>k, <2>1, <2>2, QuietTransactions, FailureStands DEF versions, Stands
<1>4. CASE Poll(w) \/ Start(w) \/ NothingToDo(w) \/ Resolve(w) \/ PersistChunks(w)
             \/ Refuse(w) \/ StepFails(w) \/ Complete(w) \/ AuditWritten(w)
             \/ RecordFailure(w) \/ WorkerDies(w)
  BY <1>4 DEF Poll, Start, NothingToDo, Resolve, PersistChunks, Refuse, StepFails,
              Complete, AuditWritten, RecordFailure, WorkerDies, versions, Stands
<1> QED BY <1>1, <1>2, <1>3, <1>4 DEF WorkerStep, Execute

LEMMA NextStands == Known /\ FInv /\ [Next]_vars => Stands
<1> SUFFICES ASSUME Known, FInv, [Next]_vars PROVE Stands
  OBVIOUS
<1>k. TypeOK
  BY DEF Known
<1>1. ASSUME NEW i \in Importer, ImporterStep(i)
      PROVE  Stands
  <2>1. CASE Register(i)
    BY <1>k, <2>1, QuietTransactions DEF Register, versions, Stands
  <2>2. CASE Compensate(i)
    <3>1. upload[i] \in Version /\ status[upload[i]] = "queued"
      BY <2>2 DEF Compensate, Known, CInv, Requesting, FInv, RequestIsAlone, InRequest
    <3> QED BY <1>k, <2>2, <3>1, FailureStands DEF Compensate
  <2>3. CASE Store(i) \/ StoreFails(i) \/ EnqueueImport(i) \/ EnqueueFails(i) \/ RequestDies(i)
    BY <2>3 DEF Store, StoreFails, EnqueueImport, EnqueueFails, RequestDies, versions, Stands
  <2> QED BY <1>1, <2>1, <2>2, <2>3 DEF ImporterStep
<1>2. CASE Govern
  BY <1>k, <1>2, QuietTransactions DEF Govern
<1>3. CASE \/ \E type \in JobType \ {"import"}, v \in Version : EnqueueOther(type, v)
           \/ \E j \in Job : Retry(j) \/ Cancel(j)
           \/ Time
           \/ UNCHANGED vars
  BY <1>3 DEF EnqueueOther, Retry, Cancel, Time, vars, versions, Stands
<1> QED BY <1>1, <1>2, <1>3, WorkerStands DEF Next, Admin

LEMMA AlwaysStands ==
  ASSUME Undisturbed
  PROVE  Spec => [][Stands]_vars
<1> HIDE DEF Stands
<1>1. [](Known /\ FInv) /\ [][Next]_vars => [][Stands]_vars
  BY NextStands, PTL
<1> QED BY <1>1, FInvariant, PTL DEF Spec

(* No failure, retry or upload takes a published version away: of those    *)
(* that write "failed", requests and workers between two transactions do   *)
(* so to versions that are still indexable.                                *)
THEOREM PublicationsStand ==
  ASSUME Undisturbed
  PROVE  Spec => PublicationStands
<1>1. Stands => \A v \in Version :
        status[v] = "indexed" => status'[v] \in {"indexed", "superseded", "withdrawn"}
  BY DEF Stands
<1> QED BY <1>1, AlwaysStands, PTL DEF PublicationStands

(* Nor does one bring a withdrawn version back or mark it failed, although *)
(* the job that withdrew it may lose its success and be run again.         *)
THEOREM WithdrawalsStand ==
  ASSUME Undisturbed
  PROVE  Spec => WithdrawalStands
<1>1. Stands => \A v \in Version : status[v] = "withdrawn" =>
        \/ status'[v] \in {"withdrawn", "indexed"}
        \/ status'[v] = "queued" /\ submissions'[v] = submissions[v] + 1
  BY DEF Stands
<1> QED BY <1>1, AlwaysStands, PTL DEF WithdrawalStands

-----------------------------------------------------------------------------
(* What the tables' modules prove of them holds of the pipeline.           *)

LEMMA TableInvariants ==
  /\ VT!Spec => [](/\ VT!AtMostOneIndexed /\ VT!PublicationIsAccountable
                   /\ VT!SupersededChainsEnd)
  /\ QT!Spec => [](QT!NoRowIsStuck /\ (Timely => QT!ExclusiveExecution))
<1>1. VT!VersionAssumption /\ VT!GovernanceAssumption
  BY TablesAssumption, PipelineAssumption DEF VT!VersionAssumption, VT!GovernanceAssumption
<1>2. QT!QueueAssumption
  BY TablesAssumption, PipelineAssumption DEF QT!QueueAssumption, MaxRequeues, Audited
<1>3. /\ VT!Spec => []VT!AtMostOneIndexed
      /\ VT!Spec => []VT!PublicationIsAccountable
      /\ VT!Spec => []VT!SupersededChainsEnd
  BY <1>1, VT!OneIndexed, VT!Accountable, VT!ChainsEnd
<1>4. /\ QT!Spec => []QT!NoRowIsStuck
      /\ QT!Spec => [](Timely => QT!ExclusiveExecution)
  BY <1>2, QT!NeverStuck, QT!Exclusive
<1> QED BY <1>3, <1>4, PTL

(* A document has one published version, publications are answered for,    *)
(* superseded versions lead to a replacement, no row is left running by    *)
(* nobody, and timely workers never share a job: in the pipeline with its  *)
(* crashes, failing stores and late requests too.                          *)
THEOREM PipelineKeepsTables ==
  Spec => [](/\ V!AtMostOneIndexed /\ V!PublicationIsAccountable /\ V!SupersededChainsEnd
             /\ Q!NoRowIsStuck /\ (Timely => Q!ExclusiveExecution))
<1>1. VT!AtMostOneIndexed => V!AtMostOneIndexed
  BY DEF VT!AtMostOneIndexed, V!AtMostOneIndexed
<1>2. VT!PublicationIsAccountable => V!PublicationIsAccountable
  BY DEF VT!PublicationIsAccountable, V!PublicationIsAccountable, VT!Published, V!Published,
         VT!Retained, V!Retained, VT!Decided, V!Decided, VT!IndependentApproval,
         V!IndependentApproval
<1>3. VT!SupersededChainsEnd => V!SupersededChainsEnd
  BY DEF VT!SupersededChainsEnd, V!SupersededChainsEnd, VT!Superseded, V!Superseded,
         VT!Siblings, V!Siblings
<1>4. QT!NoRowIsStuck => Q!NoRowIsStuck
  BY DEF QT!NoRowIsStuck, Q!NoRowIsStuck, QT!Owns, Q!Owns
<1>5. QT!ExclusiveExecution => Q!ExclusiveExecution
  BY DEF QT!ExclusiveExecution, Q!ExclusiveExecution
<1> QED BY <1>1, <1>2, <1>3, <1>4, <1>5, RefinesVersions, RefinesQueue, QueueSpecs, VersionSpecs,
           TableInvariants, PTL DEF ImplementsVersions, ImplementsQueue
=============================================================================
