--------------------------- MODULE IndexingGraph ---------------------------
(***************************************************************************)
(* The langgraph engine: src/worker/graph.py indexes one version in        *)
(* batches and writes a checkpoint after every node, so that a job run     *)
(* again resumes where it stopped.                                         *)
(*                                                                         *)
(* Three stores are written one after the other: the tables of the         *)
(* application, the staged chunk file beside the original, and the         *)
(* checkpoints.  The checkpoints belong to a job row, the file and the     *)
(* chunks to the version, and a version may have two jobs, its import and  *)
(* a reindex.  The queue is IngestionQueue, under which a job's heartbeat  *)
(* does not go stale while it executes.                                    *)
(***************************************************************************)
EXTENDS Naturals

CONSTANTS GraphJob,         \* the jobs of the version
          ReindexJob,       \* those of them whose job_type is reindex
          GraphWorker,      \* worker replicas
          NoGraphWorker, NoGraphJob,
          BatchTotal,       \* batches of the version's chunks
          GraphAttempts,    \* max_attempts of the jobs
          GraphRequeues     \* bound: how often administrators queue a job again

ASSUME GraphAssumption == /\ ReindexJob \subseteq GraphJob
                          /\ BatchTotal \in Nat \ {0}
                          /\ GraphAttempts \in Nat \ {0}
                          /\ GraphRequeues \in Nat
                          /\ NoGraphWorker \notin GraphWorker
                          /\ NoGraphJob \notin GraphJob

VARIABLES jobRow, jobsInserted, jobRequeues,  \* the queue's tables
          graphStep,      \* graphStep[w]: what worker w does next
          graphWork,      \* graphWork[w]: for which job
          versionStatus,  \* status of the version
          batches,        \* batches whose chunk rows exist
          staging,        \* whether v<version>.chunks.json exists
          thread,         \* thread[j]: the last checkpoint of index-job-<j>
          finished        \* jobs that reached finalize since they were queued

graphTables == <<jobRow, jobsInserted, jobRequeues>>
graphVars == <<graphTables, graphStep, graphWork, versionStatus, batches, staging,
               thread, finished>>

(* A checkpoint names the next node and carries the cursor.                *)
Node == {"none", "prepare", "embed", "finalize", "end"}
NoThread == [next |-> "none", cursor |-> 0]
Checkpoint(next, cursor) == [next |-> next, cursor |-> cursor]

(* Steps that hold the worker's job, as in IndexingPipeline.               *)
GraphExecuting == {"offline", "load", "resume", "node", "stage", "saveStage",
                   "saveBatch", "unlink", "saveEnd", "complete",
                   "retryable", "terminal"}
GraphSettling == {"requeued", "dropped"}

GQ == INSTANCE IngestionQueue WITH
        Job <- GraphJob, Worker <- GraphWorker, NoWorker <- NoGraphWorker,
        NoJob <- NoGraphJob, MaxAttempts <- GraphAttempts,
        MaxRequeues <- GraphRequeues, Audited <- {}, Timely <- TRUE,
        job <- jobRow, inserted <- jobsInserted, requeues <- jobRequeues,
        phase <- [w \in GraphWorker |-> IF graphStep[w] = "polled" THEN "polled"
                                        ELSE IF graphStep[w] \in GraphExecuting
                                             THEN "busy" ELSE "idle"],
        held <- [w \in GraphWorker |-> IF graphStep[w] \in GraphExecuting
                                       THEN graphWork[w] ELSE NoGraphJob]

GraphTypeOK ==
  /\ jobRow \in [GraphJob -> GQ!Row]
  /\ graphStep \in [GraphWorker -> {"idle", "polled"} \cup GraphExecuting \cup GraphSettling]
  /\ graphWork \in [GraphWorker -> GraphJob \cup {NoGraphJob}]
  /\ versionStatus \in {"queued", "processing", "indexed", "failed"}
  /\ batches \subseteq 0..(BatchTotal - 1)
  /\ staging \in BOOLEAN
  /\ thread \in [GraphJob -> [next : Node, cursor : 0..BatchTotal]]
  /\ finished \subseteq GraphJob

(* The version is registered; its import may or may not be queued yet.     *)
GraphInit == /\ jobRow = [j \in GraphJob |-> GQ!NoRow]
             /\ jobsInserted = 0
             /\ jobRequeues = 0
             /\ graphStep = [w \in GraphWorker |-> "idle"]
             /\ graphWork = [w \in GraphWorker |-> NoGraphJob]
             /\ versionStatus = "queued"
             /\ batches = {}
             /\ staging = FALSE
             /\ thread = [j \in GraphJob |-> NoThread]
             /\ finished = {}

-----------------------------------------------------------------------------
(* The loop around the engine: run_once, the start and the end of          *)
(* _execute, and _record_failure.  An operator X_Y before an operator X is *)
(* X with a plausible mistake in it; no action uses it.                    *)

GraphGoto(w, next) == graphStep' = [graphStep EXCEPT ![w] = next] /\ UNCHANGED graphWork
GraphRelease(w) == /\ graphStep' = [graphStep EXCEPT ![w] = "idle"]
                   /\ graphWork' = [graphWork EXCEPT ![w] = NoGraphJob]

versionVars == <<versionStatus, batches, staging>>

GraphPoll(w) ==
  /\ graphStep[w] = "idle"
  /\ GQ!ReclaimStale
  /\ GraphGoto(w, "polled")
  /\ UNCHANGED <<jobsInserted, jobRequeues, versionVars, thread, finished>>

GraphClaim(w) ==
  /\ graphStep[w] = "polled"
  /\ \/ \E j \in GraphJob :
          /\ GQ!Claim(w, j)
          /\ graphWork' = [graphWork EXCEPT ![w] = j]
          /\ graphStep' = [graphStep EXCEPT
                             ![w] = IF j \in ReindexJob THEN "offline" ELSE "load"]
     \/ GQ!Claimable = {} /\ GraphGoto(w, "idle") /\ UNCHANGED jobRow
  /\ UNCHANGED <<jobsInserted, jobRequeues, versionVars, thread, finished>>

(* reindex_document_version.                                               *)
GraphTakeOffline(w) ==
  /\ graphStep[w] = "offline"
  /\ versionStatus' = "queued"
  /\ GraphGoto(w, "load")
  /\ UNCHANGED <<graphTables, batches, staging, thread, finished>>

GraphComplete(w) ==
  /\ graphStep[w] = "complete"
  /\ GQ!Complete(w, graphWork[w])
  /\ GraphRelease(w)
  /\ UNCHANGED <<jobsInserted, jobRequeues, versionVars, thread, finished>>

GraphFails(w) ==
  /\ graphStep[w] \in GraphExecuting \ {"complete", "retryable", "terminal"}
  /\ \E verdict \in {"retryable", "terminal"} : GraphGoto(w, verdict)
  /\ UNCHANGED <<graphTables, versionVars, thread, finished>>

GraphRecordFailure(w) == LET retryable == graphStep[w] = "retryable" IN
  /\ graphStep[w] \in {"retryable", "terminal"}
  /\ GQ!FailJob(graphWork[w], retryable)
  /\ GraphGoto(w, IF GQ!CanRetry(graphWork[w], retryable) THEN "requeued" ELSE "dropped")
  /\ UNCHANGED <<jobsInserted, jobRequeues, versionVars, thread, finished>>

GraphSettle(w) ==
  /\ graphStep[w] \in GraphSettling
  /\ versionStatus' = IF graphStep[w] = "dropped" THEN "failed"
                      ELSE IF versionStatus \in {"processing", "failed"} THEN "queued"
                      ELSE versionStatus
  /\ GraphRelease(w)
  /\ UNCHANGED <<graphTables, batches, staging, thread, finished>>

GraphWorkerDies(w) ==
  /\ graphStep[w] \in GraphExecuting \cup GraphSettling
  /\ GraphRelease(w)
  /\ UNCHANGED <<graphTables, versionVars, thread, finished>>

-----------------------------------------------------------------------------
(* IndexingGraphRunner.run.                                                *)

Thread(w) == thread[graphWork[w]]
Save(w, checkpoint) == thread' = [thread EXCEPT ![graphWork[w]] = checkpoint]
CanBeIndexed == versionStatus \in {"queued", "processing"}

Resuming_NoFileCheck(w) == Thread(w) # NoThread

(* A checkpoint is resumed only while its staged chunk file exists.        *)
Resuming(w) == Thread(w) # NoThread /\ staging

(* Otherwise the thread is deleted and the input checkpoint of a new one   *)
(* written.                                                                *)
LoadCheckpoint(w) ==
  /\ graphStep[w] = "load"
  /\ IF Resuming(w)
     THEN GraphGoto(w, "resume") /\ UNCHANGED thread
     ELSE GraphGoto(w, "node") /\ Save(w, Checkpoint("prepare", 0))
  /\ UNCHANGED <<graphTables, versionVars, finished>>

(* A resumed run marks the version by itself, and goes on at the node the  *)
(* checkpoint names; a thread that has reached its end has none, and the   *)
(* run returns what it returned.                                           *)
Resume(w) ==
  /\ graphStep[w] = "resume"
  /\ CanBeIndexed
  /\ versionStatus' = "processing"
  /\ GraphGoto(w, IF Thread(w).next = "end" THEN "complete" ELSE "node")
  /\ UNCHANGED <<graphTables, batches, staging, thread, finished>>

AtNode(w, node) == graphStep[w] = "node" /\ Thread(w).next = node

(* prepare: parse and mark, then clear the chunks and stage the payload.   *)
Prepare(w) ==
  /\ AtNode(w, "prepare")
  /\ CanBeIndexed
  /\ versionStatus' = "processing"
  /\ GraphGoto(w, "stage")
  /\ UNCHANGED <<graphTables, batches, staging, thread, finished>>

StagePayload(w) ==
  /\ graphStep[w] = "stage"
  /\ batches' = {}
  /\ staging' = TRUE
  /\ GraphGoto(w, "saveStage")
  /\ UNCHANGED <<graphTables, versionStatus, thread, finished>>

EmbedBatch_OffByOne(w) ==
  /\ AtNode(w, "embed")
  /\ staging
  /\ CanBeIndexed
  /\ batches' = batches \cup ({Thread(w).cursor + 1} \cap 0..(BatchTotal - 1))
  /\ GraphGoto(w, "saveBatch")
  /\ UNCHANGED <<graphTables, versionStatus, staging, thread, finished>>

(* embed_batch: embed the batch at the cursor and replace its rows.        *)
EmbedBatch(w) ==
  /\ AtNode(w, "embed")
  /\ staging
  /\ CanBeIndexed
  /\ batches' = batches \cup {Thread(w).cursor}
  /\ GraphGoto(w, "saveBatch")
  /\ UNCHANGED <<graphTables, versionStatus, staging, thread, finished>>

(* StagingUnavailable is worth another attempt, GovernanceError is not.    *)
GraphRefused(w) ==
  /\ \/ AtNode(w, "embed") /\ ~staging /\ GraphGoto(w, "retryable")
     \/ /\ \/ graphStep[w] = "resume"
           \/ \E node \in {"prepare", "finalize"} : AtNode(w, node)
           \/ AtNode(w, "embed") /\ staging
        /\ ~CanBeIndexed
        /\ GraphGoto(w, "terminal")
  /\ UNCHANGED <<graphTables, versionVars, thread, finished>>

FinalizeGraph(w) ==
  /\ AtNode(w, "finalize")
  /\ CanBeIndexed
  /\ versionStatus' = "indexed"
  /\ finished' = finished \cup {graphWork[w]}
  /\ GraphGoto(w, "unlink")
  /\ UNCHANGED <<graphTables, batches, staging, thread>>

Unlink(w) ==
  /\ graphStep[w] = "unlink"
  /\ staging' = FALSE
  /\ GraphGoto(w, "saveEnd")
  /\ UNCHANGED <<graphTables, versionStatus, batches, thread, finished>>

(* The framework writes the checkpoint after a node, with the node that    *)
(* route and the edges lead to.                                            *)
Route_OffByOne(cursor) == IF cursor + 1 >= BatchTotal THEN "finalize" ELSE "embed"

Route(cursor) == IF cursor >= BatchTotal THEN "finalize" ELSE "embed"

SaveCheckpoint(w) ==
  /\ \/ /\ graphStep[w] = "saveStage"
        /\ Save(w, Checkpoint("embed", 0)) /\ GraphGoto(w, "node")
     \/ /\ graphStep[w] = "saveBatch"
        /\ Save(w, Checkpoint(Route(Thread(w).cursor + 1), Thread(w).cursor + 1))
        /\ GraphGoto(w, "node")
     \/ /\ graphStep[w] = "saveEnd"
        /\ Save(w, Checkpoint("end", Thread(w).cursor)) /\ GraphGoto(w, "complete")
  /\ UNCHANGED <<graphTables, versionVars, finished>>

-----------------------------------------------------------------------------
(* Administrators, and time.                                               *)

QueueGraphJob(j) ==
  /\ \/ jobRow[j].status = "absent" /\ GQ!Enqueue(j) /\ UNCHANGED jobRequeues
     \/ /\ jobRequeues < GraphRequeues
        /\ jobRequeues' = jobRequeues + 1
        /\ GQ!Retry(j)
        /\ UNCHANGED jobsInserted
  /\ finished' = finished \ {j}
  /\ UNCHANGED <<graphStep, graphWork, versionVars, thread>>

GraphTime(j) ==
  /\ UNCHANGED <<graphStep, graphWork, versionVars, thread, finished>>
  /\ GQ!HeartbeatExpires(j) \/ GQ!BackoffElapses(j)

GraphWorkerNext(w) == \/ GraphPoll(w)
                      \/ GraphClaim(w)
                      \/ GraphTakeOffline(w)
                      \/ LoadCheckpoint(w)
                      \/ Resume(w)
                      \/ Prepare(w)
                      \/ StagePayload(w)
                      \/ EmbedBatch(w)
                      \/ GraphRefused(w)
                      \/ FinalizeGraph(w)
                      \/ Unlink(w)
                      \/ SaveCheckpoint(w)
                      \/ GraphComplete(w)
                      \/ GraphFails(w)
                      \/ GraphRecordFailure(w)
                      \/ GraphSettle(w)
                      \/ GraphWorkerDies(w)

GraphNext == \/ \E w \in GraphWorker : GraphWorkerNext(w)
             \/ \E j \in GraphJob : QueueGraphJob(j) \/ GraphTime(j)

GraphSpec == GraphInit /\ [][GraphNext]_graphVars

-----------------------------------------------------------------------------
(* Properties.  A thread, the staged file and the chunks agree only while  *)
(* one job writes them: two jobs of a version may resume on one another's  *)
(* file, and the version may be served without a batch.                    *)

OnlyOneJobRan ==
  \A j, k \in GraphJob : thread[j] # NoThread /\ thread[k] # NoThread => j = k

(* Whatever crash or failure interrupts a job, between any two of its      *)
(* writes and as often as its attempts allow, the version it serves in the *)
(* end has the chunks of every batch (run, embed_batch, route).            *)
ServedVersionIsWhole ==
  versionStatus = "indexed" /\ OnlyOneJobRan => batches = 0..(BatchTotal - 1)

(* A checkpoint never runs ahead of the chunk rows: resuming at its cursor *)
(* skips only batches that are there.                                      *)
CheckpointTrailsChunks ==
  OnlyOneJobRan =>
    \A j \in GraphJob :
      thread[j].next \in {"embed", "finalize"} /\ staging =>
        \A b \in 0..(BatchTotal - 1) : b < thread[j].cursor => b \in batches

(* A job that is about to be recorded as succeeded has indexed the version *)
(* since it was queued: the remains of an earlier run of it are not taken  *)
(* for its own.                                                            *)
SuccessMeansIndexed ==
  OnlyOneJobRan =>
    \A w \in GraphWorker : graphStep[w] = "complete" => graphWork[w] \in finished
=============================================================================
