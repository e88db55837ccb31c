--------------------------- MODULE IngestionQueue ---------------------------
(***************************************************************************)
(* The persistent job queue: the transactions of src/backend/database.py   *)
(* that write ingestion_jobs, and the loop of src/worker/runner.py that    *)
(* drives them (reclaim, claim, execute, complete or fail).  What a job    *)
(* does while it executes is left to IndexingPipeline.                     *)
(*                                                                         *)
(* Each row transaction (Enqueue ... Cancel) says what it does to the      *)
(* table and nothing else; the actions of this module and of               *)
(* IndexingPipeline are built from them.                                   *)
(*                                                                         *)
(* Time is two facts about a row: whether its heartbeat is older than      *)
(* IT_INGESTION_JOB_TIMEOUT_SECONDS ("stale") and whether its              *)
(* next_attempt_at is still to come (delayed).                             *)
(***************************************************************************)
EXTENDS Naturals

CONSTANTS Job,          \* rows of ingestion_jobs, one per (job_type, version_id)
          Worker,       \* worker replicas (IT_INGESTION_WORKER_ID)
          NoWorker,     \* NULL in locked_by
          NoJob,        \* a worker that executes nothing
          MaxAttempts,  \* max_attempts of every row
          MaxRequeues,  \* bound: how often administrators queue a job again
          Audited,      \* the jobs (withdraw, evaluate) whose audit event is
                        \* written where its failure still fails the job
          Timely        \* whether a job always ends, or its worker writes a
                        \* heartbeat, before the heartbeat is stale

ASSUME QueueAssumption == /\ MaxAttempts \in Nat \ {0}
                          /\ MaxRequeues \in Nat
                          /\ Timely \in BOOLEAN
                          /\ Audited \subseteq Job
                          /\ NoWorker \notin Worker
                          /\ NoJob \notin Job

VARIABLES job,       \* job[j]: the row of j
          inserted,  \* rows inserted so far: the autoincrement sequence
          phase,     \* phase[w]: where w is in run_once
          held,      \* held[w]: the job w executes, or writes the audit event of
          requeues   \* administrators' requeues so far

vars == <<job, inserted, phase, held, requeues>>

JobStatus == {"absent", "queued", "running", "succeeded", "failed", "cancelled"}
Active == {"queued", "running"}

Row == [status : JobStatus,
        id : Nat,
        attempts : 0..MaxAttempts,
        lockedBy : Worker \cup {NoWorker},
        heartbeat : {"none", "fresh", "stale"},
        delayed : BOOLEAN]

TypeOK == /\ job \in [Job -> Row]
          /\ inserted \in Nat
          /\ phase \in [Worker -> {"idle", "polled", "busy", "audit"}]
          /\ held \in [Worker -> Job \cup {NoJob}]
          /\ requeues \in 0..MaxRequeues

NoRow == [status |-> "absent", id |-> 0, attempts |-> 0, lockedBy |-> NoWorker,
          heartbeat |-> "none", delayed |-> FALSE]

Init == /\ job = [j \in Job |-> NoRow]
        /\ inserted = 0
        /\ phase = [w \in Worker |-> "idle"]
        /\ held = [w \in Worker |-> NoJob]
        /\ requeues = 0

-----------------------------------------------------------------------------
(* Row transactions.  An operator X_Y before an operator X is X with a     *)
(* plausible mistake in it; no action uses it.                             *)

Write(j, row) == job' = [job EXCEPT ![j] = row]

Released(row, status) ==
  [row EXCEPT !.status = status, !.lockedBy = NoWorker, !.heartbeat = "none"]

(* enqueue_ingestion_job: insert the row of the target, or queue the one   *)
(* it has again from the beginning.                                        *)
Enqueue(j) ==
  /\ job[j].status # "running"
  /\ IF job[j].status = "absent"
     THEN /\ inserted' = inserted + 1
          /\ Write(j, [NoRow EXCEPT !.status = "queued", !.id = inserted + 1])
     ELSE /\ Write(j, [NoRow EXCEPT !.status = "queued", !.id = job[j].id])
          /\ UNCHANGED inserted

Claimable_AnyActive == {j \in Job : /\ job[j].status \in Active
                                    /\ job[j].attempts < MaxAttempts
                                    /\ ~job[j].delayed}

Claimable == {j \in Job : /\ job[j].status = "queued"
                          /\ job[j].attempts < MaxAttempts
                          /\ ~job[j].delayed}

(* claim_ingestion_job: ORDER BY priority, id; every caller queues with    *)
(* the same priority.                                                      *)
Claim(w, j) ==
  /\ j \in Claimable
  /\ \A i \in Claimable : job[j].id <= job[i].id
  /\ Write(j, [job[j] EXCEPT !.status = "running", !.attempts = @ + 1,
                             !.lockedBy = w, !.heartbeat = "fresh"])

Owns(w, j) == job[j].status = "running" /\ job[j].lockedBy = w

(* heartbeat_ingestion_job and complete_ingestion_job write nothing for a  *)
(* worker that does not own the row any more; nobody looks at the result.  *)
Heartbeat(w, j) ==
  IF Owns(w, j) THEN Write(j, [job[j] EXCEPT !.heartbeat = "fresh"])
                ELSE UNCHANGED job

Complete(w, j) ==
  IF Owns(w, j) THEN Write(j, [job[j] EXCEPT !.status = "succeeded",
                                             !.lockedBy = NoWorker,
                                             !.heartbeat = "fresh"])
                ELSE UNCHANGED job

(* fail_ingestion_job checks neither the owner nor the status of the row.  *)
CanRetry(j, retryable) == retryable /\ job[j].attempts < MaxAttempts

FailJob_UnknownStatus(j, retryable) ==
  Write(j, [Released(job[j], IF CanRetry(j, retryable) THEN "retrying" ELSE "failed")
              EXCEPT !.delayed = CanRetry(j, retryable)])

FailJob(j, retryable) ==
  Write(j, [Released(job[j], IF CanRetry(j, retryable) THEN "queued" ELSE "failed")
              EXCEPT !.delayed = CanRetry(j, retryable)])

(* reclaim_stale_ingestion_jobs, every stale row in one transaction.       *)
Stale(j) == job[j].status = "running" /\ job[j].heartbeat = "stale"

Reclaimed_NoLimit(j) == Released(job[j], "queued")

Reclaimed(j) ==
  Released(job[j], IF job[j].attempts < MaxAttempts THEN "queued" ELSE "failed")

ReclaimStale_AnyStatus ==
  job' = [j \in Job |-> IF job[j].heartbeat = "stale" THEN Reclaimed(j) ELSE job[j]]

ReclaimStale == job' = [j \in Job |-> IF Stale(j) THEN Reclaimed(j) ELSE job[j]]

Retry_KeepsAttempts(j) ==
  /\ job[j].status \notin {"absent"} \cup Active
  /\ Write(j, Released(job[j], "queued"))

(* retry_ingestion_job keeps next_attempt_at.                              *)
Retry(j) ==
  /\ job[j].status \notin {"absent"} \cup Active
  /\ Write(j, [Released(job[j], "queued") EXCEPT !.attempts = 0])

Cancel(j) ==
  /\ job[j].status = "queued"
  /\ Write(j, [job[j] EXCEPT !.status = "cancelled"])

-----------------------------------------------------------------------------
(* Administrators and the importing endpoint.                              *)

Admin == /\ UNCHANGED <<phase, held>>
         /\ \E j \in Job :
              \/ /\ job[j].status = "absent" /\ Enqueue(j)
                 /\ UNCHANGED requeues
              \/ /\ requeues < MaxRequeues
                 /\ requeues' = requeues + 1
                 /\ \/ job[j].status # "absent" /\ Enqueue(j)
                    \/ Retry(j) /\ UNCHANGED inserted
              \/ Cancel(j) /\ UNCHANGED <<inserted, requeues>>

-----------------------------------------------------------------------------
(* The worker loop, run_once.                                              *)

Poll(w) ==
  /\ phase[w] = "idle"
  /\ phase' = [phase EXCEPT ![w] = "polled"]
  /\ ReclaimStale
  /\ UNCHANGED <<inserted, held, requeues>>

Start(w) ==
  /\ phase[w] = "polled"
  /\ \E j \in Job : Claim(w, j) /\ held' = [held EXCEPT ![w] = j]
  /\ phase' = [phase EXCEPT ![w] = "busy"]
  /\ UNCHANGED <<inserted, requeues>>

NothingToDo(w) ==
  /\ phase[w] = "polled"
  /\ Claimable = {}
  /\ phase' = [phase EXCEPT ![w] = "idle"]
  /\ UNCHANGED <<job, inserted, held, requeues>>

Beat(w) ==
  /\ phase[w] = "busy"
  /\ Heartbeat(w, held[w])
  /\ UNCHANGED <<inserted, phase, held, requeues>>

Leave(w) == /\ phase' = [phase EXCEPT ![w] = "idle"]
            /\ held' = [held EXCEPT ![w] = NoJob]
            /\ UNCHANGED <<inserted, requeues>>

(* The end of an execution.  The audit event follows the commit: outside   *)
(* the try of _execute for import and reindex, where its error ends the    *)
(* process and touches no row; inside it for the jobs in Audited.          *)
Succeed(w) ==
  /\ phase[w] = "busy"
  /\ Complete(w, held[w])
  /\ IF held[w] \in Audited
     THEN /\ phase' = [phase EXCEPT ![w] = "audit"]
          /\ UNCHANGED <<inserted, held, requeues>>
     ELSE Leave(w)

AuditWritten(w) == phase[w] = "audit" /\ Leave(w) /\ UNCHANGED job

(* _record_failure, after an error that is worth another attempt or not.   *)
(* An audit event that could not be written is an error like any other     *)
(* (worker_error): it fails the row that is complete already.              *)
Fail(w) ==
  /\ phase[w] \in {"busy", "audit"}
  /\ Leave(w)
  /\ \E retryable \in BOOLEAN :
       /\ phase[w] = "audit" => retryable
       /\ FailJob(held[w], retryable)

(* The process dies while it holds a job; the row stays as it is.  It is   *)
(* restarted, under the same name, by its supervisor.                      *)
Crash(w) == phase[w] \in {"busy", "audit"} /\ Leave(w) /\ UNCHANGED job

-----------------------------------------------------------------------------
(* Time.                                                                   *)

HeartbeatExpires(j) ==
  /\ job[j].heartbeat = "fresh"
  /\ Timely => \A w \in Worker : phase[w] = "busy" => held[w] # j
  /\ Write(j, [job[j] EXCEPT !.heartbeat = "stale"])
  /\ UNCHANGED <<inserted, phase, held, requeues>>

BackoffElapses(j) ==
  /\ job[j].delayed
  /\ Write(j, [job[j] EXCEPT !.delayed = FALSE])
  /\ UNCHANGED <<inserted, phase, held, requeues>>

-----------------------------------------------------------------------------
WorkerStep(w) == \/ Poll(w)
                 \/ Start(w)
                 \/ NothingToDo(w)
                 \/ Beat(w)
                 \/ Succeed(w)
                 \/ AuditWritten(w)
                 \/ Fail(w)
                 \/ Crash(w)

Next == \/ Admin
        \/ \E w \in Worker : WorkerStep(w)
        \/ \E j \in Job : HeartbeatExpires(j) \/ BackoffElapses(j)

Spec == Init /\ [][Next]_vars

(* A worker keeps polling, a job it executes ends (every step of it is     *)
(* bounded by a provider timeout) or its process dies, and time passes.    *)
Fairness ==
  /\ \A w \in Worker : /\ WF_vars(Poll(w))
                       /\ WF_vars(Start(w) \/ NothingToDo(w))
                       /\ WF_vars(Succeed(w) \/ AuditWritten(w) \/ Fail(w) \/ Crash(w))
  /\ \A j \in Job : WF_vars(HeartbeatExpires(j)) /\ WF_vars(BackoffElapses(j))

FairSpec == Spec /\ Fairness

-----------------------------------------------------------------------------
(* Properties.                                                             *)

(* README section on the task queue: several replicas never process the    *)
(* same job.  No two workers execute one job at a time, with one exception *)
(* the code leaves open: a withdraw or evaluate job that an administrator  *)
(* queued again while a worker was still writing its audit event, whose    *)
(* failure then queues the row under the worker that executes it.          *)
ExclusiveExecution ==
  \A w1, w2 \in Worker :
    /\ phase[w1] = "busy" /\ phase[w2] = "busy"
    /\ held[w1] = held[w2]
    /\ held[w1] \in Audited => requeues = 0
    => w1 = w2

(* No row is in a state that no transaction but an administrator's leads   *)
(* out of: a queued row has an attempt left, or claim_ingestion_job would  *)
(* pass it over for ever, and a running row has an owner and a heartbeat,  *)
(* or reclaim_stale_ingestion_jobs (heartbeat_at < deadline) would never   *)
(* see it.                                                                 *)
NoRowIsStuck ==
  \A j \in Job :
    /\ job[j].status = "queued" => job[j].attempts < MaxAttempts
    /\ job[j].status = "running" => /\ job[j].lockedBy # NoWorker
                                    /\ job[j].heartbeat # "none"

(* A success is undone only by an administrator who queues the job again,  *)
(* or by the failure of a worker that holds it: one that cannot write the  *)
(* audit event of a withdraw or evaluate job or, once such a job was       *)
(* queued again, one that executes it beside the worker that completed it. *)
(* Never by the reclaimer or by a worker that has left the job, and never  *)
(* the success of an import or reindex job.                                *)
SuccessIsUndoneByAdminOrHolder ==
  [][\A j \in Job :
       job[j].status = "succeeded" /\ job'[j].status # "succeeded" =>
         \/ requeues' = requeues + 1
         \/ /\ j \in Audited
            /\ \E w \in Worker : /\ held[w] = j /\ held'[w] = NoJob
                                 /\ phase[w] = "busy" => requeues > 0]_vars

(* Whatever crashes and failures meet it, a job that is queued or running  *)
(* is eventually neither: the attempts run out or it ends.                 *)
EveryJobSettles ==
  \A j \in Job : job[j].status \in Active ~> job[j].status \notin Active
=============================================================================
