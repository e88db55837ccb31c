-------------------------- MODULE IndexingPipeline --------------------------
(***************************************************************************)
(* From an upload to a searchable version: the importing endpoint of       *)
(* src/admin_app.py, the worker of src/worker/runner.py with the "simple"  *)
(* engine of src/ingestion/service.py, and the administrators who govern   *)
(* versions and jobs, over the tables of DocumentVersions and              *)
(* IngestionQueue and the store of originals.                              *)
(*                                                                         *)
(* A version's state and its job's state live in two tables that no        *)
(* transaction writes together: the endpoint and the worker write one      *)
(* after the other, and may be interleaved, delayed or killed in between.  *)
(* That is what this module is about.                                      *)
(*                                                                         *)
(* Each action is one transaction, or one step outside the database.       *)
(***************************************************************************)
EXTENDS Naturals

CONSTANTS Document, Version, DocumentOf, Subject, NoOne, NoVersion,
          GovernanceMode, RequireSeparation, AllowOverride, MaxReviews

CONSTANTS Worker, NoWorker, NoJob, MaxAttempts, Timely

CONSTANTS Importer,      \* requests to the importing endpoint
          JobType,       \* the types of jobs queued, among AnyJobType
          MaxRetries,    \* bound: requeues after which nobody retries a job
          RetryOf,       \* the job statuses administrators retry
          MayCancel,     \* whether administrators cancel jobs
          StoreMayFail,  \* whether storing an original may fail
          MayCrash       \* whether workers and requests may be killed

VARIABLES status, submitter, supersededBy, submissions, reviews,
          job, inserted, requeues

VARIABLES step,     \* step[w]: what worker w does next
          work,     \* work[w]: the job it does it for
          request,  \* request[i]: what importing request i does next
          upload,   \* upload[i]: the version it is about
          sources,  \* versions whose original is in the store
          chunked   \* versions whose chunks are persisted

AnyJobType == {"import", "reindex", "withdraw"}
Job == JobType \X Version

ASSUME PipelineAssumption == /\ JobType \subseteq AnyJobType
                             /\ "import" \in JobType
                             /\ MaxRetries \in Nat
                             /\ MaxReviews \in Nat
                             /\ RetryOf \subseteq {"succeeded", "failed", "cancelled"}

(* What the modules of the two tables assume of their constants.           *)
ASSUME TablesAssumption == /\ DocumentOf \in [Version -> Document]
                           /\ NoVersion \notin Version
                           /\ NoOne \notin Subject
                           /\ GovernanceMode \in {"direct", "review"}
                           /\ {RequireSeparation, AllowOverride, Timely} \subseteq BOOLEAN
                           /\ MaxAttempts \in Nat \ {0}
                           /\ NoWorker \notin Worker
                           /\ NoJob \notin Job

V == INSTANCE DocumentVersions

(* The steps of a worker that hold its job, in order; the two verdicts of  *)
(* a step that failed hold it too.                                         *)
Executing == {"reindex", "withdraw", "resolve", "mark", "persist",
              "finalize", "complete", "retryable", "terminal"}
Settling == {"requeued", "dropped"}

(* A worker also holds a job that is complete while it writes the audit    *)
(* event of its withdrawal.                                                *)
Holding == Executing \cup {"audit"}

(* The jobs whose audit event is written inside the try of _execute, or of *)
(* a function it calls there: a failing one fails the job.                 *)
Audited == {j \in Job : j[1] = "withdraw"}

(* Bound: every requeue is an administrator's or follows a submission.     *)
MaxRequeues == MaxRetries + MaxReviews

Q == INSTANCE IngestionQueue WITH
       phase <- [w \in Worker |-> IF step[w] = "polled" THEN "polled"
                                     ELSE IF step[w] \in Executing THEN "busy"
                                     ELSE IF step[w] = "audit" THEN "audit"
                                     ELSE "idle"],
       held <- [w \in Worker |-> IF step[w] \in Holding THEN work[w] ELSE NoJob]

versions == <<status, submitter, supersededBy, submissions, reviews>>
rows == <<job, inserted, requeues>>
workers == <<step, work>>
requests == <<request, upload>>
files == <<sources, chunked>>
vars == <<versions, rows, workers, requests, files>>

TypeOK == /\ V!TypeOK
          /\ job \in [Job -> Q!Row]
          /\ step \in [Worker -> {"idle", "polled"} \cup Holding \cup Settling]
          /\ work \in [Worker -> Job \cup {NoJob}]
          /\ request \in [Importer -> {"idle", "store", "storeDuplicate",
                                       "enqueue", "compensate"}]
          /\ upload \in [Importer -> Version \cup {NoVersion}]
          /\ sources \subseteq Version
          /\ chunked \subseteq Version

Init == /\ V!Init
        /\ job = [j \in Job |-> Q!NoRow]
        /\ inserted = 0
        /\ requeues = 0
        /\ step = [w \in Worker |-> "idle"]
        /\ work = [w \in Worker |-> NoJob]
        /\ request = [i \in Importer |-> "idle"]
        /\ upload = [i \in Importer |-> NoVersion]
        /\ sources = {}
        /\ chunked = {}

-----------------------------------------------------------------------------
(* The importing endpoint with ingestion_worker_enabled.  An operator X_Y  *)
(* before an operator X is X with a plausible mistake in it.               *)

Goto(i, next) == request' = [request EXCEPT ![i] = next]

Done(i) == /\ Goto(i, "idle")
           /\ upload' = [upload EXCEPT ![i] = NoVersion]

(* register_version: the upload becomes a queued version, or is found to   *)
(* be one already.                                                         *)
Register(i) ==
  /\ request[i] = "idle"
  /\ \E v \in Version :
       /\ upload' = [upload EXCEPT ![i] = v]
       /\ \/ \E s \in Subject : V!BeginImport(v, s) /\ Goto(i, "store")
          \/ /\ status[v] \in {"indexed"} \cup V!InFlight
             /\ UNCHANGED versions
             /\ Goto(i, "storeDuplicate")
  /\ UNCHANGED <<rows, workers, files>>

(* sources.store also replaces the original of a duplicate.                *)
Store(i) ==
  /\ request[i] \in {"store", "storeDuplicate"}
  /\ sources' = sources \cup {upload[i]}
  /\ IF request[i] = "store" THEN Goto(i, "enqueue") /\ UNCHANGED upload
                             ELSE Done(i)
  /\ UNCHANGED <<versions, rows, workers, chunked>>

(* An error of the store leaves the handler; nothing undoes Register.      *)
StoreFails(i) ==
  /\ StoreMayFail
  /\ request[i] \in {"store", "storeDuplicate"}
  /\ Done(i)
  /\ UNCHANGED <<versions, rows, workers, files>>

EnqueueImport(i) == LET j == <<"import", upload[i]>> IN
  /\ request[i] = "enqueue"
  /\ Q!Enqueue(j)
  /\ \/ job[j].status = "absent" /\ UNCHANGED requeues
     \/ /\ job[j].status # "absent"
        /\ requeues < MaxRequeues
        /\ requeues' = requeues + 1
  /\ Done(i)
  /\ UNCHANGED <<versions, workers, files>>

(* The job is running, or the database fails.                              *)
EnqueueFails(i) ==
  /\ request[i] = "enqueue"
  /\ Goto(i, "compensate")
  /\ UNCHANGED <<versions, rows, workers, upload, files>>

Compensate_LeavesItQueued(i) ==
  /\ request[i] = "compensate"
  /\ Done(i)
  /\ UNCHANGED <<versions, rows, workers, files>>

Compensate(i) ==
  /\ request[i] = "compensate"
  /\ V!FailImport(upload[i])
  /\ Done(i)
  /\ UNCHANGED <<rows, workers, files>>

RequestDies(i) ==
  /\ MayCrash
  /\ request[i] # "idle"
  /\ Done(i)
  /\ UNCHANGED <<versions, rows, workers, files>>

-----------------------------------------------------------------------------
(* The worker: run_once.                                                   *)

Target(w) == work[w][2]

Advance(w, next) == step' = [step EXCEPT ![w] = next] /\ UNCHANGED work

Release(w) == /\ step' = [step EXCEPT ![w] = "idle"]
              /\ work' = [work EXCEPT ![w] = NoJob]

Poll(w) ==
  /\ step[w] = "idle"
  /\ Q!ReclaimStale
  /\ Advance(w, "polled")
  /\ UNCHANGED <<versions, inserted, requeues, requests, files>>

Start(w) ==
  /\ step[w] = "polled"
  /\ \E j \in Job : /\ Q!Claim(w, j)
                    /\ work' = [work EXCEPT ![w] = j]
                    /\ step' = [step EXCEPT ![w] = IF j[1] = "import" THEN "resolve"
                                                                      ELSE j[1]]
  /\ UNCHANGED <<versions, inserted, requeues, requests, files>>

NothingToDo(w) ==
  /\ step[w] = "polled"
  /\ Q!Claimable = {}
  /\ Advance(w, "idle")
  /\ UNCHANGED <<versions, rows, requests, files>>

TakeOffline_AnyStatus(w) ==
  /\ step[w] = "reindex"
  /\ V!SetStatus(Target(w), "queued")
  /\ Advance(w, "resolve")
  /\ UNCHANGED <<submitter, supersededBy, submissions, reviews, rows, requests, files>>

(* _execute of a reindex job first takes the version offline, which also   *)
(* commits by itself.                                                      *)
TakeOffline(w) ==
  /\ step[w] = "reindex"
  /\ V!Reindex(Target(w))
  /\ Advance(w, "resolve")
  /\ UNCHANGED <<rows, requests, files>>

(* _execute_withdraw.                                                      *)
CarryOutWithdrawal(w) ==
  /\ step[w] = "withdraw"
  /\ V!Withdraw(Target(w))
  /\ Advance(w, "complete")
  /\ UNCHANGED <<rows, requests, files>>

(* The original is found, the heartbeat written and the original parsed,   *)
(* which a corrupt file does not survive.                                  *)
Resolve(w) ==
  /\ step[w] = "resolve"
  /\ Target(w) \in sources
  /\ Q!Heartbeat(w, work[w])
  /\ \E parsed \in BOOLEAN : Advance(w, IF parsed THEN "mark" ELSE "terminal")
  /\ UNCHANGED <<versions, inserted, requeues, requests, files>>

MarkProcessing_ResumesAtTheEnd(w) ==
  /\ step[w] = "mark"
  /\ V!MarkProcessing(Target(w))
  /\ Advance(w, IF status[Target(w)] = "processing" THEN "finalize" ELSE "persist")
  /\ UNCHANGED <<rows, requests, files>>

(* The version is marked and the chunks embedded, outside the database; a   *)
(* provider error that is worth another attempt is one of those of          *)
(* StepFails, any other ends the job.                                       *)
MarkProcessing(w) ==
  /\ step[w] = "mark"
  /\ V!MarkProcessing(Target(w))
  /\ \E embedded \in BOOLEAN : Advance(w, IF embedded THEN "persist" ELSE "terminal")
  /\ UNCHANGED <<rows, requests, files>>

PersistChunks(w) ==
  /\ step[w] = "persist"
  /\ status[Target(w)] \in V!Indexable
  /\ chunked' = chunked \cup {Target(w)}
  /\ Advance(w, "finalize")
  /\ UNCHANGED <<versions, rows, requests, sources>>

Finalize(w) ==
  /\ step[w] = "finalize"
  /\ V!Finalize(Target(w))
  /\ Advance(w, "complete")
  /\ UNCHANGED <<rows, requests, files>>

(* What each step asks of the version or of the store.                     *)
Refused(w) ==
  \/ step[w] = "reindex" /\ status[Target(w)] \in {"rejected", "withdrawn"}
  \/ step[w] = "withdraw" /\ status[Target(w)] # "indexed"
  \/ step[w] = "resolve" /\ Target(w) \notin sources
  \/ /\ step[w] \in {"mark", "persist", "finalize"}
     /\ status[Target(w)] \notin V!Indexable

(* A GovernanceError or a missing original ends the job.                   *)
Refuse(w) ==
  /\ Refused(w)
  /\ Advance(w, "terminal")
  /\ UNCHANGED <<versions, rows, requests, files>>

StepFails_UntilTheEnd(w) ==
  /\ step[w] \in Executing \ {"retryable", "terminal"}
  /\ Advance(w, "retryable")
  /\ UNCHANGED <<versions, rows, requests, files>>

StepFails_UnknownStep(w) ==
  /\ step[w] \in Executing \ {"complete", "retryable", "terminal"}
  /\ Advance(w, "failed")
  /\ UNCHANGED <<versions, rows, requests, files>>

(* Any other error that _execute catches: worker_error, or a provider      *)
(* error that is worth another attempt.  Of the completions, only that of  *)
(* a withdrawal is inside its try.                                         *)
StepFails(w) ==
  /\ \/ step[w] \in Executing \ {"complete", "retryable", "terminal"}
     \/ step[w] = "complete" /\ work[w][1] = "withdraw"
  /\ Advance(w, "retryable")
  /\ UNCHANGED <<versions, rows, requests, files>>

Complete_AnyOwner(w) ==
  /\ step[w] = "complete"
  /\ Q!Write(work[w], Q!Released(job[work[w]], "succeeded"))
  /\ Release(w)
  /\ UNCHANGED <<versions, inserted, requeues, requests, files>>

(* The last heartbeat, which adds nothing to it, and the completion.  The  *)
(* audit event that follows is outside _execute for an indexing job: its   *)
(* error ends the process.  That of a withdrawal fails the job.            *)
Complete(w) ==
  /\ step[w] = "complete"
  /\ Q!Complete(w, work[w])
  /\ IF work[w] \in Audited THEN Advance(w, "audit") ELSE Release(w)
  /\ UNCHANGED <<versions, inserted, requeues, requests, files>>

AuditWritten(w) ==
  /\ step[w] = "audit"
  /\ Release(w)
  /\ UNCHANGED <<versions, rows, requests, files>>

RecordFailure_AnyType(w) ==
  /\ step[w] \in {"retryable", "terminal", "audit"}
  /\ LET retryable == step[w] # "terminal" IN
       /\ Q!FailJob(work[w], retryable)
       /\ Advance(w, IF Q!CanRetry(work[w], retryable) THEN "requeued" ELSE "dropped")
  /\ UNCHANGED <<versions, inserted, requeues, requests, files>>

(* _record_failure writes the job first and, for an indexing job, the      *)
(* version in a second transaction.  An audit event that cannot be written *)
(* is a worker_error, worth another attempt of the job it completed.       *)
RecordFailure(w) ==
  /\ step[w] \in {"retryable", "terminal", "audit"}
  /\ LET retryable == step[w] # "terminal" IN
       /\ Q!FailJob(work[w], retryable)
       /\ IF work[w][1] = "withdraw"
          THEN Release(w)
          ELSE Advance(w, IF Q!CanRetry(work[w], retryable) THEN "requeued"
                                                            ELSE "dropped")
  /\ UNCHANGED <<versions, inserted, requeues, requests, files>>

SettleVersion_Swapped(w) ==
  /\ step[w] \in Settling
  /\ IF step[w] = "requeued" THEN V!FailImport(Target(w))
                             ELSE V!ResetForRetry(Target(w))
  /\ Release(w)
  /\ UNCHANGED <<rows, requests, files>>

SettleVersion(w) ==
  /\ step[w] \in Settling
  /\ IF step[w] = "dropped"
     THEN V!FailImport(Target(w))
     ELSE IF status[Target(w)] \in {"processing", "failed"}
          THEN V!ResetForRetry(Target(w))
          ELSE UNCHANGED versions
  /\ Release(w)
  /\ UNCHANGED <<rows, requests, files>>

(* The process is killed, or leaves run_forever on an error of one of the  *)
(* transactions around _execute, and is restarted; before it has claimed a *)
(* job it leaves no trace.                                                 *)
WorkerDies(w) ==
  /\ MayCrash
  /\ step[w] \in Holding \cup Settling
  /\ Release(w)
  /\ UNCHANGED <<versions, rows, requests, files>>

-----------------------------------------------------------------------------
(* Administrators.                                                         *)

Govern ==
  /\ \E v \in Version : V!Govern(v)
  /\ UNCHANGED <<rows, workers, requests, files>>

(* The repository queues reindexing and withdrawal jobs too.               *)
EnqueueOther(type, v) ==
  /\ status[v] # "absent"
  /\ job[<<type, v>>].status = "absent"
  /\ Q!Enqueue(<<type, v>>)
  /\ UNCHANGED <<versions, requeues, workers, requests, files>>

Retry(j) ==
  /\ job[j].status \in RetryOf
  /\ requeues < MaxRetries
  /\ requeues' = requeues + 1
  /\ Q!Retry(j)
  /\ UNCHANGED <<versions, inserted, workers, requests, files>>

Cancel(j) ==
  /\ MayCancel
  /\ Q!Cancel(j)
  /\ UNCHANGED <<versions, inserted, requeues, workers, requests, files>>

-----------------------------------------------------------------------------
(* Time.  Under Timely a worker is not caught between the two transactions *)
(* of _record_failure for longer than the back-off.                        *)

Time ==
  /\ UNCHANGED <<versions, workers, requests, files>>
  /\ \E j \in Job :
       \/ Q!HeartbeatExpires(j)
       \/ /\ Timely => \A w \in Worker : step[w] \in Settling => work[w] # j
          /\ Q!BackoffElapses(j)

-----------------------------------------------------------------------------
ImporterStep(i) == \/ Register(i)
                   \/ Store(i)
                   \/ StoreFails(i)
                   \/ EnqueueImport(i)
                   \/ EnqueueFails(i)
                   \/ Compensate(i)
                   \/ RequestDies(i)

Execute(w) == \/ TakeOffline(w)
              \/ CarryOutWithdrawal(w)
              \/ Resolve(w)
              \/ MarkProcessing(w)
              \/ PersistChunks(w)
              \/ Finalize(w)
              \/ Refuse(w)
              \/ StepFails(w)
              \/ Complete(w)
              \/ AuditWritten(w)
              \/ RecordFailure(w)
              \/ SettleVersion(w)

WorkerStep(w) == \/ Poll(w)
                 \/ Start(w)
                 \/ NothingToDo(w)
                 \/ Execute(w)
                 \/ WorkerDies(w)

Admin == \/ Govern
         \/ \E type \in JobType \ {"import"}, v \in Version : EnqueueOther(type, v)
         \/ \E j \in Job : Retry(j) \/ Cancel(j)

Next == \/ \E i \in Importer : ImporterStep(i)
        \/ \E w \in Worker : WorkerStep(w)
        \/ Admin
        \/ Time

Spec == Init /\ [][Next]_vars

(* Requests end (they hold a client's connection), workers keep polling,   *)
(* every step of a job is bounded by a timeout of the provider or of the   *)
(* database, and time passes.                                              *)
Fairness ==
  /\ \A i \in Importer : WF_vars(request[i] # "idle" /\ ImporterStep(i))
  /\ \A w \in Worker : WF_vars(WorkerStep(w))
  /\ \A j \in Job : WF_vars(Time /\ job'[j] # job[j])

FairSpec == Spec /\ Fairness

-----------------------------------------------------------------------------
(* Properties.                                                             *)

(* A version that was handed to reviewers or readers has its chunks and    *)
(* its original, whatever crashed, was retried or was uploaded twice:      *)
(* finalize_document_version is reached only through                       *)
(* persist_document_chunks, and the endpoint stores before it enqueues.    *)
ServedIsComplete ==
  \A v \in Version : status[v] \in {"staged"} \cup V!Published =>
    v \in chunked /\ v \in sources

(* The version table follows the job table: except while a request or a    *)
(* worker is between its transaction on one and its transaction on the     *)
(* other, the two rows of an import tell the same story.                   *)
InTransit(v) ==
  \/ \E i \in Importer : /\ upload[i] = v
                         /\ request[i] \in {"store", "enqueue", "compensate"}
  \/ \E w \in Worker : step[w] \in Settling /\ Target(w) = v

Finished(v) == \E w \in Worker : step[w] = "complete" /\ work[w] = <<"import", v>>

Story(v) ==
  LET jobStatus == job[<<"import", v>>].status
      indexed == {"staged", "rejected"} \cup V!Published
  IN
  CASE jobStatus = "absent" -> {"absent", "failed"}
    [] jobStatus \in {"queued", "cancelled"} -> {"queued"}
    [] jobStatus = "running" /\ ~Finished(v) -> V!Indexable
    [] jobStatus = "running" /\ Finished(v) -> indexed \cup {"failed"}
    [] jobStatus = "succeeded" -> indexed \cup {"failed"}
    [] jobStatus = "failed" -> {"failed"}

VersionFollowsJob == \A v \in Version : InTransit(v) \/ status[v] \in Story(v)

(* The comment in the importing endpoint: a version is never left queued   *)
(* with no job behind it.                                                  *)
QueuedHasJob ==
  \A v \in Version : status[v] = "queued" =>
    \/ InTransit(v)
    \/ \E type \in JobType : job[<<type, v>>].status \in Q!Active

(* docs/document-ingestion.md tells the operator to press retry when an    *)
(* import failed on the provider's side: a worker that gets as far as      *)
(* marking the version of an import finds one that it may process.         *)
RetriedImportCanBeIndexed ==
  \A w \in Worker :
    step[w] = "mark" /\ work[w][1] = "import" => status[Target(w)] \in V!Indexable

(* README's life of a version leads from "indexed" to "superseded" and     *)
(* "withdrawn" only: no failure recorded late or twice takes a published   *)
(* version away from its readers.                                          *)
PublicationStands ==
  [][\A v \in Version :
       status[v] = "indexed" =>
         status'[v] \in {"indexed", "superseded", "withdrawn"}]_vars

(* A withdrawn version stays away from readers until an administrator puts *)
(* it back or the content is submitted again: the job that withdrew it may *)
(* lose its success to an audit event that was not written, be run again   *)
(* on the withdrawn version and end as failed, none of which reaches the   *)
(* version; nor does anything recorded late for its import.                *)
WithdrawalStands ==
  [][\A v \in Version :
       status[v] = "withdrawn" =>
         \/ status'[v] \in {"withdrawn", "indexed"}
         \/ status'[v] = "queued" /\ submissions'[v] = submissions[v] + 1]_vars

(* Every submission ends: the version leaves the queue for review, for     *)
(* publication or as failed.                                               *)
SubmissionEnds ==
  \A v \in Version : status[v] \in V!Indexable ~> status[v] \notin V!Indexable

(* begin_document_import's comment again, with the callers the code has: a *)
(* version that was published, taken down and submitted again is approved  *)
(* again before it is published.                                           *)
ReopenedIsReviewedAgain == V!ReopenedIsReviewedAgain

(* The pipeline drives both tables only as their modules say, so what is   *)
(* proved of them holds of the pipeline.                                   *)
ImplementsVersions == V!Spec
ImplementsQueue == Q!Spec
=============================================================================
