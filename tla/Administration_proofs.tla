------------------------ MODULE Administration_proofs ------------------------
(***************************************************************************)
(* Theorems of the parts of the administration side that have no module of *)
(* theorems of their own: the langgraph engine (IndexingGraph), the        *)
(* chunker (Chunking) and the artifact service (ArtifactStore), for any    *)
(* jobs, workers, batches, texts, window sizes and requests; and, from     *)
(* these and those of EvaluationGate_proofs and Retention_proofs, of the   *)
(* module that puts the five together.                                     *)
(***************************************************************************)
EXTENDS MCAdministration, EvaluationGate_proofs, Retention_proofs, WellFoundedInduction, TLAPS

-----------------------------------------------------------------------------
(* The langgraph engine.                                                   *)

(* Control points, and whose job they are about.                           *)
GraphControl ==
  /\ graphStep \in [GraphWorker -> {"idle", "polled"} \cup GraphExecuting \cup GraphSettling]
  /\ graphWork \in [GraphWorker -> GraphJob \cup {NoGraphJob}]
  /\ \A w \in GraphWorker :
       graphStep[w] \in GraphExecuting \cup GraphSettling => graphWork[w] \in GraphJob

LEMMA GotoControl ==
  ASSUME GraphControl, NEW w \in GraphWorker, NEW next, GraphGoto(w, next),
         next \in {"idle", "polled"} \/ graphStep[w] \in GraphExecuting,
         next \in {"idle", "polled"} \cup GraphExecuting \cup GraphSettling
  PROVE  GraphControl'
<1>1. /\ graphWork' = graphWork /\ graphStep'[w] = next
      /\ \A u \in GraphWorker \ {w} : graphStep'[u] = graphStep[u]
      /\ graphStep' = [graphStep EXCEPT ![w] = next]
  BY DEF GraphGoto, GraphControl
<1>2. "idle" \notin GraphExecuting \cup GraphSettling
      /\ "polled" \notin GraphExecuting \cup GraphSettling
  BY DEF GraphExecuting, GraphSettling
<1> QED BY <1>1, <1>2 DEF GraphControl

LEMMA ReleaseControl ==
  ASSUME GraphControl, NEW w \in GraphWorker, GraphRelease(w)
  PROVE  GraphControl'
BY DEF GraphRelease, GraphControl, GraphExecuting, GraphSettling

LEMMA WorkerGraphControl ==
  ASSUME GraphControl, NEW w \in GraphWorker, GraphWorkerNext(w)
  PROVE  GraphControl'
<1>1. CASE GraphPoll(w)
  BY <1>1, GotoControl DEF GraphPoll
<1>2. CASE GraphClaim(w)
  <2>1. CASE GraphGoto(w, "idle")
    BY <2>1, GotoControl
  <2>2. ASSUME NEW j \in GraphJob,
               graphWork' = [graphWork EXCEPT ![w] = j],
               graphStep' = [graphStep EXCEPT
                               ![w] = IF j \in ReindexJob THEN "offline" ELSE "load"]
        PROVE  GraphControl'
    BY <2>2 DEF GraphControl, GraphExecuting
  <2> QED BY <1>2, <2>1, <2>2 DEF GraphClaim
<1>3. CASE GraphComplete(w) \/ GraphSettle(w) \/ GraphWorkerDies(w)
  BY <1>3, ReleaseControl DEF GraphComplete, GraphSettle, GraphWorkerDies
<1>4. CASE \/ GraphTakeOffline(w) \/ GraphFails(w) \/ GraphRecordFailure(w) \/ LoadCheckpoint(w)
           \/ Resume(w) \/ Prepare(w) \/ StagePayload(w) \/ EmbedBatch(w) \/ GraphRefused(w)
           \/ FinalizeGraph(w) \/ Unlink(w) \/ SaveCheckpoint(w)
  <2>1. graphStep[w] \in GraphExecuting
    BY <1>4 DEF GraphTakeOffline, GraphFails, GraphRecordFailure, LoadCheckpoint, Resume, Prepare,
                StagePayload, EmbedBatch, GraphRefused, FinalizeGraph, Unlink, SaveCheckpoint,
                AtNode, GraphExecuting
  <2>2. \E next \in GraphExecuting \cup GraphSettling : GraphGoto(w, next)
    BY <1>4 DEF GraphTakeOffline, GraphFails, GraphRecordFailure, LoadCheckpoint, Resume, Prepare,
                StagePayload, EmbedBatch, GraphRefused, FinalizeGraph, Unlink, SaveCheckpoint,
                GraphExecuting, GraphSettling
  <2> QED BY <2>1, <2>2, GotoControl
<1> QED BY <1>1, <1>2, <1>3, <1>4 DEF GraphWorkerNext

LEMMA GraphControlInvariant == GraphSpec => []GraphControl
<1>1. GraphInit => GraphControl
  BY DEF GraphInit, GraphControl, GraphExecuting, GraphSettling
<1>2. GraphControl /\ [GraphNext]_graphVars => GraphControl'
  <2> SUFFICES ASSUME GraphControl, [GraphNext]_graphVars PROVE GraphControl'
    OBVIOUS
  <2>1. CASE UNCHANGED <<graphStep, graphWork>>
    BY <2>1 DEF GraphControl
  <2>2. ASSUME NEW j \in GraphJob, QueueGraphJob(j) \/ GraphTime(j)
        PROVE  GraphControl'
    BY <2>1, <2>2 DEF QueueGraphJob, GraphTime
  <2> QED BY <2>1, <2>2, WorkerGraphControl DEF GraphNext, graphVars
<1> QED BY <1>1, <1>2, PTL DEF GraphSpec

-----------------------------------------------------------------------------
(* The engine drives the queue only as IngestionQueue says.                *)

GraphPhase == [w \in GraphWorker |-> IF graphStep[w] = "polled" THEN "polled"
                                     ELSE IF graphStep[w] \in GraphExecuting
                                          THEN "busy" ELSE "idle"]

GraphHeld == [w \in GraphWorker |-> IF graphStep[w] \in GraphExecuting
                                    THEN graphWork[w] ELSE NoGraphJob]

GraphQueueStep ==
  GQ!Next \/ UNCHANGED <<jobRow, jobsInserted, GraphPhase, GraphHeld, jobRequeues>>

LEMMA MoveGraph ==
  ASSUME GraphControl, NEW w \in GraphWorker, NEW next, NEW target,
         graphStep' = [graphStep EXCEPT ![w] = next],
         graphWork' = [graphWork EXCEPT ![w] = target]
  PROVE  /\ GraphPhase' = [GraphPhase EXCEPT
                             ![w] = IF next = "polled" THEN "polled"
                                    ELSE IF next \in GraphExecuting THEN "busy" ELSE "idle"]
         /\ GraphHeld' = [GraphHeld EXCEPT
                            ![w] = IF next \in GraphExecuting THEN target ELSE NoGraphJob]
BY DEF GraphControl, GraphPhase, GraphHeld

LEMMA GotoGraph ==
  ASSUME GraphControl, NEW w \in GraphWorker, NEW next, GraphGoto(w, next)
  PROVE  /\ GraphPhase' = [GraphPhase EXCEPT
                             ![w] = IF next = "polled" THEN "polled"
                                    ELSE IF next \in GraphExecuting THEN "busy" ELSE "idle"]
         /\ GraphHeld' = [GraphHeld EXCEPT
                            ![w] = IF next \in GraphExecuting THEN graphWork[w] ELSE NoGraphJob]
<1>1. graphWork' = [graphWork EXCEPT ![w] = graphWork[w]]
  BY DEF GraphGoto, GraphControl
<1> QED BY <1>1, MoveGraph DEF GraphGoto

(* A worker that goes on with its job, or with the version of one it has   *)
(* dropped, does nothing to the queue.                                     *)
LEMMA WithinGraphJob ==
  ASSUME GraphControl, NEW w \in GraphWorker, graphStep[w] \in GraphExecuting,
         NEW next \in GraphExecuting, GraphGoto(w, next)
  PROVE  UNCHANGED <<GraphPhase, GraphHeld>>
<1>1. next # "polled" /\ graphStep[w] # "polled"
  BY DEF GraphExecuting
<1>2. /\ GraphPhase' = [GraphPhase EXCEPT ![w] = "busy"] /\ GraphPhase[w] = "busy"
      /\ GraphHeld' = [GraphHeld EXCEPT ![w] = graphWork[w]] /\ GraphHeld[w] = graphWork[w]
  BY <1>1, GotoGraph DEF GraphPhase, GraphHeld
<1> QED BY <1>2 DEF GraphPhase, GraphHeld

LEMMA AfterGraphJob ==
  ASSUME GraphControl, NEW w \in GraphWorker, GraphRelease(w), graphStep[w] \in GraphSettling
  PROVE  UNCHANGED <<GraphPhase, GraphHeld>>
BY DEF GraphControl, GraphRelease, GraphSettling, GraphExecuting, GraphPhase, GraphHeld

(* A worker that leaves its job.                                           *)
LEMMA LeaveGraphJob ==
  ASSUME GraphControl, NEW w \in GraphWorker, graphStep[w] \in GraphExecuting,
         \/ GraphRelease(w)
         \/ \E next \in GraphSettling : GraphGoto(w, next)
  PROVE  /\ GraphPhase[w] = "busy" /\ GraphPhase' = [GraphPhase EXCEPT ![w] = "idle"]
         /\ GraphHeld[w] = graphWork[w] /\ GraphHeld' = [GraphHeld EXCEPT ![w] = NoGraphJob]
<1>1. GraphPhase[w] = "busy" /\ GraphHeld[w] = graphWork[w]
  BY DEF GraphExecuting, GraphPhase, GraphHeld
<1>2. CASE GraphRelease(w)
  <2>1. "idle" \notin GraphExecuting
    BY DEF GraphExecuting
  <2> QED BY <1>1, <1>2, <2>1, MoveGraph DEF GraphRelease
<1>3. ASSUME NEW next \in GraphSettling, GraphGoto(w, next)
      PROVE  /\ GraphPhase' = [GraphPhase EXCEPT ![w] = "idle"]
             /\ GraphHeld' = [GraphHeld EXCEPT ![w] = NoGraphJob]
  <2>1. next \notin GraphExecuting /\ next # "polled"
    BY DEF GraphExecuting, GraphSettling
  <2> QED BY <1>3, <2>1, GotoGraph
<1> QED BY <1>1, <1>2, <1>3

LEMMA WorkerGraphQueue ==
  ASSUME GraphControl, NEW w \in GraphWorker, GraphWorkerNext(w)
  PROVE  GraphQueueStep
<1> USE DEF GraphQueueStep, GQ!Next, GQ!WorkerStep
<1>1. CASE GraphPoll(w)
  <2>1. graphStep[w] = "idle" /\ GraphGoto(w, "polled") /\ "polled" \notin GraphExecuting
        /\ "idle" \notin GraphExecuting
    BY <1>1 DEF GraphPoll, GraphExecuting
  <2>2. GraphPhase[w] = "idle" /\ GraphPhase' = [GraphPhase EXCEPT ![w] = "polled"]
    BY <2>1, GotoGraph DEF GraphPhase
  <2>3. GraphHeld[w] = NoGraphJob /\ GraphHeld' = [GraphHeld EXCEPT ![w] = NoGraphJob]
    BY <2>1, GotoGraph DEF GraphHeld
  <2>4. UNCHANGED GraphHeld
    BY <2>3 DEF GraphHeld
  <2> QED BY <1>1, <2>2, <2>4 DEF GraphPoll, GQ!Poll, GraphPhase, GraphHeld
<1>2. CASE GraphClaim(w)
  <2>1. /\ graphStep[w] = "polled" /\ "polled" \notin GraphExecuting
        /\ "idle" \notin GraphExecuting /\ GraphPhase[w] = "polled" /\ GraphHeld[w] = NoGraphJob
    BY <1>2 DEF GraphClaim, GraphExecuting, GraphPhase, GraphHeld
  <2>2. CASE GQ!Claimable = {} /\ GraphGoto(w, "idle") /\ UNCHANGED jobRow
    <3>1. GraphPhase' = [GraphPhase EXCEPT ![w] = "idle"]
          /\ GraphHeld' = [GraphHeld EXCEPT ![w] = NoGraphJob]
      BY <2>1, <2>2, GotoGraph
    <3>2. UNCHANGED GraphHeld
      BY <2>1, <3>1 DEF GraphHeld
    <3> QED BY <1>2, <2>1, <2>2, <3>1, <3>2 DEF GraphClaim, GQ!NothingToDo, GraphPhase, GraphHeld
  <2>3. ASSUME NEW j \in GraphJob, GQ!Claim(w, j),
               graphWork' = [graphWork EXCEPT ![w] = j],
               graphStep' = [graphStep EXCEPT
                               ![w] = IF j \in ReindexJob THEN "offline" ELSE "load"]
        PROVE  GraphQueueStep
    <3> DEFINE next == IF j \in ReindexJob THEN "offline" ELSE "load"
    <3>1. next \in GraphExecuting /\ next # "polled"
      BY DEF GraphExecuting
    <3>2. graphStep' = [graphStep EXCEPT ![w] = next]
      BY <2>3
    <3> HIDE DEF next
    <3>3. /\ GraphPhase' = [GraphPhase EXCEPT ![w] = "busy"]
          /\ GraphHeld' = [GraphHeld EXCEPT ![w] = j]
      BY <2>3, <3>1, <3>2, MoveGraph
    <3> QED BY <1>2, <2>1, <2>3, <3>3 DEF GraphClaim, GQ!Start, GraphPhase, GraphHeld
  <2> QED BY <1>2, <2>2, <2>3 DEF GraphClaim
<1>3. CASE GraphComplete(w)
  <2>1. graphStep[w] \in GraphExecuting /\ GraphRelease(w)
    BY <1>3 DEF GraphComplete, GraphExecuting
  <2> QED BY <1>3, <2>1, LeaveGraphJob DEF GraphComplete, GQ!Succeed, GQ!Leave, GraphPhase, GraphHeld
<1>4. CASE GraphRecordFailure(w)
  <2>1. graphStep[w] \in GraphExecuting /\ \E next \in GraphSettling : GraphGoto(w, next)
    BY <1>4 DEF GraphRecordFailure, GraphExecuting, GraphSettling
  <2>2. \E retryable \in BOOLEAN : GQ!FailJob(graphWork[w], retryable)
    BY <1>4 DEF GraphRecordFailure
  <2> QED BY <1>4, <2>1, <2>2, LeaveGraphJob
          DEF GraphRecordFailure, GQ!Fail, GQ!Leave, GraphPhase, GraphHeld
<1>5. CASE GraphWorkerDies(w)
  <2>1. CASE graphStep[w] \in GraphExecuting
    BY <1>5, <2>1, LeaveGraphJob
    DEF GraphWorkerDies, graphTables, GQ!Crash, GQ!Leave, GraphPhase, GraphHeld
  <2>2. CASE graphStep[w] \in GraphSettling
    BY <1>5, <2>2, AfterGraphJob DEF GraphWorkerDies, graphTables
  <2> QED BY <1>5, <2>1, <2>2 DEF GraphWorkerDies
<1>6. CASE GraphSettle(w)
  BY <1>6, AfterGraphJob DEF GraphSettle, graphTables
<1>7. CASE \/ GraphTakeOffline(w) \/ GraphFails(w) \/ LoadCheckpoint(w) \/ Resume(w) \/ Prepare(w)
           \/ StagePayload(w) \/ EmbedBatch(w) \/ GraphRefused(w) \/ FinalizeGraph(w) \/ Unlink(w)
           \/ SaveCheckpoint(w)
  <2>1. graphStep[w] \in GraphExecuting /\ \E next \in GraphExecuting : GraphGoto(w, next)
    BY <1>7 DEF GraphTakeOffline, GraphFails, LoadCheckpoint, Resume, Prepare, StagePayload,
                EmbedBatch, GraphRefused, FinalizeGraph, Unlink, SaveCheckpoint, AtNode,
                GraphExecuting
  <2>2. UNCHANGED graphTables
    BY <1>7 DEF GraphTakeOffline, GraphFails, LoadCheckpoint, Resume, Prepare, StagePayload,
                EmbedBatch, GraphRefused, FinalizeGraph, Unlink, SaveCheckpoint
  <2> QED BY <2>1, <2>2, WithinGraphJob DEF graphTables
<1> QED BY <1>1, <1>2, <1>3, <1>4, <1>5, <1>6, <1>7 DEF GraphWorkerNext

LEMMA NextGraphQueue == GraphControl /\ [GraphNext]_graphVars => GraphQueueStep
<1> SUFFICES ASSUME GraphControl, [GraphNext]_graphVars PROVE GraphQueueStep
  OBVIOUS
<1>1. ASSUME UNCHANGED <<graphStep, graphWork>> PROVE UNCHANGED <<GraphPhase, GraphHeld>>
  BY <1>1 DEF GraphPhase, GraphHeld
<1>2. ASSUME NEW j \in GraphJob, QueueGraphJob(j)
      PROVE  GraphQueueStep
  <2>1. GQ!Admin
    BY <1>1, <1>2 DEF QueueGraphJob, GQ!Admin, GraphPhase, GraphHeld
  <2> QED BY <2>1 DEF GraphQueueStep, GQ!Next
<1>3. ASSUME NEW j \in GraphJob, GraphTime(j)
      PROVE  GraphQueueStep
  BY <1>3 DEF GraphTime, GraphQueueStep, GQ!Next
<1>4. CASE UNCHANGED graphVars
  BY <1>1, <1>4 DEF graphVars, graphTables, GraphQueueStep
<1> QED BY <1>2, <1>3, <1>4, WorkerGraphQueue DEF GraphNext

(* Every behaviour of the langgraph engine is one of IngestionQueue too.   *)
THEOREM GraphDrivesQueue == GraphSpec => GQ!Spec
<1>1. GraphInit => GQ!Init
  BY DEF GraphInit, GQ!Init, GraphExecuting
<1>2. GraphControl /\ [GraphNext]_graphVars => [GQ!Next]_(GQ!vars)
  BY NextGraphQueue DEF GraphQueueStep, GQ!vars, GraphPhase, GraphHeld
<1> QED BY <1>1, <1>2, GraphControlInvariant, PTL DEF GraphSpec, GQ!Spec

-----------------------------------------------------------------------------
(* What IngestionQueue_proofs shows of the queue holds under this engine.  *)

GT == INSTANCE IngestionQueue_proofs WITH
        Job <- GraphJob, Worker <- GraphWorker, NoWorker <- NoGraphWorker,
        NoJob <- NoGraphJob, MaxAttempts <- GraphAttempts,
        MaxRequeues <- GraphRequeues, Audited <- {}, Timely <- TRUE,
        job <- jobRow, inserted <- jobsInserted, requeues <- jobRequeues,
        phase <- [w \in GraphWorker |-> IF graphStep[w] = "polled" THEN "polled"
                                        ELSE IF graphStep[w] \in GraphExecuting
                                             THEN "busy" ELSE "idle"],
        held <- [w \in GraphWorker |-> IF graphStep[w] \in GraphExecuting
                                       THEN graphWork[w] ELSE NoGraphJob]

LEMMA GraphQueueSpecs == GQ!Spec => GT!Spec
<1>1. GQ!Init <=> GT!Init
  BY DEF GQ!Init, GT!Init, GQ!NoRow, GT!NoRow
<1>2. GQ!Next <=> GT!Next
  BY DEF GQ!Next, GT!Next, GQ!Admin, GT!Admin, GQ!WorkerStep, GT!WorkerStep, GQ!Poll, GT!Poll,
         GQ!Start, GT!Start, GQ!NothingToDo, GT!NothingToDo, GQ!Beat, GT!Beat, GQ!Leave, GT!Leave,
         GQ!Succeed, GT!Succeed, GQ!AuditWritten, GT!AuditWritten, GQ!Fail, GT!Fail, GQ!Crash, GT!Crash, GQ!HeartbeatExpires,
         GT!HeartbeatExpires, GQ!BackoffElapses, GT!BackoffElapses, GQ!Enqueue, GT!Enqueue,
         GQ!Write, GT!Write, GQ!NoRow, GT!NoRow, GQ!Released, GT!Released, GQ!Claimable,
         GT!Claimable, GQ!Claim, GT!Claim, GQ!Owns, GT!Owns, GQ!Heartbeat, GT!Heartbeat,
         GQ!Complete, GT!Complete, GQ!CanRetry, GT!CanRetry, GQ!FailJob, GT!FailJob, GQ!Stale,
         GT!Stale, GQ!Reclaimed, GT!Reclaimed, GQ!ReclaimStale, GT!ReclaimStale, GQ!Retry,
         GT!Retry, GQ!Cancel, GT!Cancel, GQ!Active, GT!Active
<1>3. (UNCHANGED GQ!vars) <=> (UNCHANGED GT!vars)
  BY DEF GQ!vars, GT!vars
<1>4. [GQ!Next]_(GQ!vars) <=> [GT!Next]_(GT!vars)
  BY <1>2, <1>3
<1> QED
  BY <1>1, <1>4, PTL DEF GQ!Spec, GT!Spec

LEMMA GraphQueueFacts ==
  GraphSpec => /\ []GT!TypeOK
               /\ []GT!HolderOwns
               /\ []GT!NoRowIsStuck
               /\ []GT!ExclusiveExecution
<1>1. GT!QueueAssumption
  BY GraphAssumption DEF GT!QueueAssumption
<1>2. /\ GT!Spec => []GT!TypeOK
      /\ GT!Spec => [](TRUE => GT!HolderOwns)
      /\ GT!Spec => []GT!NoRowIsStuck
      /\ GT!Spec => [](TRUE => GT!ExclusiveExecution)
  BY <1>1, GT!TypeCorrect, GT!HolderInvariant, GT!NeverStuck, GT!Exclusive
<1> QED
  BY <1>2, GraphDrivesQueue, GraphQueueSpecs, PTL

-----------------------------------------------------------------------------
(* The invariant.  A worker owns the row of the job it executes, so what   *)
(* the checkpoint of a job says cannot change under the worker that        *)
(* executes it.                                                            *)

GraphOwned ==
  \A w \in GraphWorker : graphStep[w] \in GraphExecuting =>
    /\ jobRow[graphWork[w]].status = "running"
    /\ jobRow[graphWork[w]].lockedBy = w

ThreadsOK == thread \in [GraphJob -> [next : Node, cursor : 0..BatchTotal]]

StoresOK == /\ versionStatus \in {"queued", "processing", "indexed", "failed"}
            /\ batches \subseteq 0..(BatchTotal - 1)
            /\ staging \in BOOLEAN
            /\ finished \subseteq GraphJob

CursorFits(j) ==
  /\ thread[j].next \in {"none", "prepare"} => thread[j].cursor = 0
  /\ thread[j].next = "embed" => thread[j].cursor < BatchTotal
  /\ thread[j].next \in {"finalize", "end"} => thread[j].cursor = BatchTotal

(* Steps of a run after it has looked at its checkpoint.                   *)
InGraph == {"resume", "node", "stage", "saveStage", "saveBatch", "unlink", "saveEnd", "complete"}

StepFits(w) ==
  /\ graphStep[w] \in InGraph => Thread(w) # NoThread
  /\ graphStep[w] \in {"stage", "saveStage"} => Thread(w).next = "prepare"
  /\ graphStep[w] = "saveBatch" => Thread(w).next = "embed"
  /\ graphStep[w] \in {"unlink", "saveEnd"} => Thread(w).next = "finalize"
  /\ graphStep[w] = "complete" => Thread(w).next = "end"
  /\ graphStep[w] = "node" => Thread(w).next # "end"

(* While one job has run: what the stores hold between any two writes.     *)
ThreadTrails(j) ==
  /\ thread[j].next \in {"embed", "finalize"} /\ staging =>
       \A b \in 0..(BatchTotal - 1) : b < thread[j].cursor => b \in batches
  /\ thread[j].next = "end" => ~staging

StepAgrees(w) ==
  /\ graphStep[w] \in {"resume", "saveStage", "saveBatch"} => staging
  /\ graphStep[w] = "node" /\ Thread(w).next # "prepare" => staging
  /\ graphStep[w] = "stage" => versionStatus # "indexed"
  /\ graphStep[w] = "saveBatch" => Thread(w).cursor \in batches
  /\ graphStep[w] = "saveEnd" => ~staging
  /\ graphStep[w] \in {"unlink", "saveEnd", "complete"} => graphWork[w] \in finished

Alone == /\ ServedVersionIsWhole
         /\ OnlyOneJobRan => /\ \A j \in GraphJob : ThreadTrails(j)
                             /\ \A w \in GraphWorker : StepAgrees(w)

StoreInv == /\ ThreadsOK
            /\ StoresOK
            /\ \A j \in GraphJob : CursorFits(j)
            /\ \A w \in GraphWorker : StepFits(w)
            /\ Alone

(* What the invariant rests on: typed control, and ownership.              *)
GraphBase == GraphControl /\ GraphOwned

(* The worker of the only job that has run is the only one in the graph.   *)
LEMMA OnlyOwn ==
  ASSUME GraphBase, ThreadsOK, ThreadsOK', \A u \in GraphWorker : StepFits(u),
         NEW w \in GraphWorker, graphStep[w] \in GraphExecuting,
         \A j \in GraphJob \ {graphWork[w]} : thread'[j] = thread[j],
         thread'[graphWork[w]] # NoThread, OnlyOneJobRan'
  PROVE  /\ OnlyOneJobRan
         /\ \A j \in GraphJob \ {graphWork[w]} : thread'[j] = NoThread
         /\ \A u \in GraphWorker \ {w} : graphStep[u] \notin InGraph
<1>1. graphWork[w] \in GraphJob
  BY DEF GraphBase, GraphControl
<1>2. \A j \in GraphJob \ {graphWork[w]} : thread'[j] = NoThread
  BY <1>1 DEF OnlyOneJobRan, NoThread
<1>3. ASSUME NEW u \in GraphWorker \ {w}, graphStep[u] \in InGraph
      PROVE  FALSE
  <2>1. graphStep[u] \in GraphExecuting
    BY <1>3 DEF InGraph, GraphExecuting
  <2>2. graphWork[u] # graphWork[w] /\ graphWork[u] \in GraphJob
    BY <2>1 DEF GraphBase, GraphOwned, GraphControl
  <2> QED BY <1>2, <1>3, <2>2 DEF StepFits, Thread
<1> QED BY <1>1, <1>2, <1>3 DEF OnlyOneJobRan

(* A step a worker takes in the graph, from what it makes true of its own  *)
(* checkpoint, its own next step and the version.                          *)
LEMMA OwnStep ==
  ASSUME GraphBase, StoreInv, ThreadsOK', StoresOK',
         NEW w \in GraphWorker, graphStep[w] \in GraphExecuting,
         NEW next \in InGraph, GraphGoto(w, next),
         \A j \in GraphJob \ {graphWork[w]} : thread'[j] = thread[j],
         Thread(w)' # NoThread, CursorFits(graphWork[w])', StepFits(w)',
         OnlyOneJobRan /\ OnlyOneJobRan' =>
           /\ versionStatus' = "indexed" => batches' = 0..(BatchTotal - 1)
           /\ ThreadTrails(graphWork[w])'
           /\ StepAgrees(w)'
  PROVE  StoreInv'
<1>1. /\ graphWork' = graphWork /\ graphWork[w] \in GraphJob
      /\ \A u \in GraphWorker \ {w} : graphStep'[u] = graphStep[u]
  BY DEF GraphGoto, GraphBase, GraphControl
<1>2. ASSUME NEW j \in GraphJob \ {graphWork[w]} PROVE CursorFits(j)'
  BY <1>1 DEF StoreInv, CursorFits
<1>3. ASSUME NEW u \in GraphWorker \ {w} PROVE StepFits(u)'
  <2>1. CASE graphStep[u] \in InGraph
    <3>1. graphStep[u] \in GraphExecuting
      BY <2>1 DEF InGraph, GraphExecuting
    <3>2. graphWork[u] # graphWork[w] /\ graphWork[u] \in GraphJob
      BY <3>1 DEF GraphBase, GraphOwned, GraphControl
    <3>3. Thread(u)' = Thread(u)
      BY <1>1, <3>2 DEF Thread
    <3> QED BY <1>1, <3>3 DEF StoreInv, StepFits
  <2>2. CASE graphStep[u] \notin InGraph
    BY <1>1, <2>2 DEF StepFits, InGraph
  <2> QED BY <2>1, <2>2
<1>4. Alone'
  <2> SUFFICES ASSUME OnlyOneJobRan'
               PROVE  /\ versionStatus' = "indexed" => batches' = 0..(BatchTotal - 1)
                      /\ \A j \in GraphJob : ThreadTrails(j)'
                      /\ \A u \in GraphWorker : StepAgrees(u)'
    BY DEF Alone, ServedVersionIsWhole
  <2>1. /\ OnlyOneJobRan
        /\ \A j \in GraphJob \ {graphWork[w]} : thread'[j] = NoThread
        /\ \A u \in GraphWorker \ {w} : graphStep[u] \notin InGraph
    BY <1>1, OnlyOwn DEF StoreInv, Thread
  <2>2. ASSUME NEW j \in GraphJob \ {graphWork[w]} PROVE ThreadTrails(j)'
    BY <2>1 DEF ThreadTrails, NoThread
  <2>3. ASSUME NEW u \in GraphWorker \ {w} PROVE StepAgrees(u)'
    BY <1>1, <2>1 DEF StepAgrees, InGraph
  <2>4. ThreadTrails(graphWork[w])' => \A j \in GraphJob : j = graphWork[w] => ThreadTrails(j)'
    BY <1>1 DEF ThreadTrails
  <2> QED BY <2>1, <2>2, <2>3, <2>4
<1> QED BY <1>1, <1>2, <1>3, <1>4 DEF StoreInv

(* A step outside the graph.                                               *)
LEMMA OutsideStep ==
  ASSUME StoreInv, UNCHANGED <<batches, staging, thread, finished>>,
         versionStatus' \in {versionStatus, "queued", "failed"},
         \A u \in GraphWorker :
           \/ graphStep'[u] = graphStep[u] /\ graphWork'[u] = graphWork[u]
           \/ graphStep'[u] \notin InGraph
  PROVE  StoreInv'
<1>1. ThreadsOK' /\ StoresOK' /\ \A j \in GraphJob : CursorFits(j)'
  BY DEF StoreInv, ThreadsOK, StoresOK, CursorFits
<1>2. ASSUME NEW u \in GraphWorker PROVE StepFits(u)'
  <2>1. CASE graphStep'[u] = graphStep[u] /\ graphWork'[u] = graphWork[u]
    BY <2>1 DEF StoreInv, StepFits, Thread
  <2>2. CASE graphStep'[u] \notin InGraph
    BY <2>2 DEF StepFits, InGraph
  <2> QED BY <2>1, <2>2
<1>3. OnlyOneJobRan' => OnlyOneJobRan
  BY DEF OnlyOneJobRan
<1>4. OnlyOneJobRan' => \A j \in GraphJob : ThreadTrails(j)'
  BY <1>3 DEF StoreInv, Alone, ThreadTrails
<1>5. ASSUME OnlyOneJobRan', NEW u \in GraphWorker PROVE StepAgrees(u)'
  <2>1. CASE graphStep'[u] = graphStep[u] /\ graphWork'[u] = graphWork[u]
    BY <1>3, <1>5, <2>1 DEF StoreInv, Alone, StepAgrees, Thread
  <2>2. CASE graphStep'[u] \notin InGraph
    BY <2>2 DEF StepAgrees, InGraph
  <2> QED BY <2>1, <2>2
<1>6. ServedVersionIsWhole'
  BY <1>3 DEF StoreInv, Alone, ServedVersionIsWhole
<1> QED BY <1>1, <1>2, <1>4, <1>5, <1>6 DEF StoreInv, Alone

-----------------------------------------------------------------------------
(* The steps of a run, one by one.                                         *)

LEMMA LoadKeeps ==
  ASSUME GraphBase, StoreInv, NEW w \in GraphWorker, LoadCheckpoint(w)
  PROVE  StoreInv'
<1>1. /\ graphStep[w] = "load" /\ graphStep[w] \in GraphExecuting /\ graphWork[w] \in GraphJob
      /\ UNCHANGED <<versionStatus, batches, staging, finished>> /\ StoresOK'
  BY DEF LoadCheckpoint, GraphExecuting, GraphBase, GraphControl, versionVars, StoreInv, StoresOK
<1>2. CASE Resuming(w)
  <2>1. /\ GraphGoto(w, "resume") /\ thread' = thread /\ "resume" \in InGraph
        /\ graphStep'[w] = "resume" /\ graphWork' = graphWork
    BY <1>2 DEF LoadCheckpoint, InGraph, GraphGoto, GraphBase, GraphControl
  <2>2. ThreadsOK' /\ CursorFits(graphWork[w])' /\ Thread(w)' # NoThread /\ StepFits(w)' /\ staging'
    BY <1>1, <1>2, <2>1 DEF StoreInv, ThreadsOK, CursorFits, Thread, StepFits, Resuming
  <2>3. OnlyOneJobRan => /\ versionStatus' = "indexed" => batches' = 0..(BatchTotal - 1)
                         /\ ThreadTrails(graphWork[w])'
                         /\ StepAgrees(w)'
    BY <1>1, <2>1, <2>2 DEF StoreInv, Alone, ServedVersionIsWhole, ThreadTrails, StepAgrees
  <2> QED BY <1>1, <2>1, <2>2, <2>3, OwnStep
<1>3. CASE ~Resuming(w)
  <2>1. /\ GraphGoto(w, "node") /\ Save(w, Checkpoint("prepare", 0)) /\ "node" \in InGraph
        /\ graphStep'[w] = "node" /\ graphWork' = graphWork
    BY <1>3 DEF LoadCheckpoint, InGraph, GraphGoto, GraphBase, GraphControl
  <2>2. /\ ThreadsOK' /\ thread'[graphWork[w]] = Checkpoint("prepare", 0)
        /\ \A j \in GraphJob \ {graphWork[w]} : thread'[j] = thread[j]
    BY <1>1, <2>1, GraphAssumption DEF StoreInv, ThreadsOK, Save, Checkpoint, Node
  <2>3. CursorFits(graphWork[w])' /\ Thread(w)' # NoThread /\ StepFits(w)'
    BY <1>1, <2>1, <2>2 DEF CursorFits, Thread, StepFits, Checkpoint, NoThread, InGraph
  <2>4. OnlyOneJobRan => /\ versionStatus' = "indexed" => batches' = 0..(BatchTotal - 1)
                         /\ ThreadTrails(graphWork[w])'
                         /\ StepAgrees(w)'
    BY <1>1, <2>1, <2>2
    DEF StoreInv, Alone, ServedVersionIsWhole, ThreadTrails, StepAgrees, Checkpoint, Thread
  <2> QED BY <1>1, <2>1, <2>2, <2>3, <2>4, OwnStep
<1> QED BY <1>2, <1>3

LEMMA ResumeKeeps ==
  ASSUME GraphBase, StoreInv, NEW w \in GraphWorker, Resume(w)
  PROVE  StoreInv'
<1> DEFINE next == IF Thread(w).next = "end" THEN "complete" ELSE "node"
<1>1. PICK n : n = next
  OBVIOUS
<1>2. /\ graphStep[w] = "resume" /\ graphStep[w] \in GraphExecuting /\ graphWork[w] \in GraphJob
      /\ UNCHANGED <<batches, staging, thread, finished>> /\ versionStatus' = "processing"
      /\ GraphGoto(w, n) /\ n \in InGraph /\ graphStep'[w] = n /\ graphWork' = graphWork
  BY <1>1 DEF Resume, GraphExecuting, GraphBase, GraphControl, InGraph, GraphGoto
<1>3. Thread(w)' = Thread(w) /\ Thread(w) # NoThread
  BY <1>2 DEF Thread, StoreInv, StepFits, InGraph
<1>4. /\ n = "complete" => Thread(w).next = "end"
      /\ n = "node" => Thread(w).next # "end"
      /\ n \in {"complete", "node"}
  BY <1>1
<1> HIDE DEF next
<1>5. ThreadsOK' /\ StoresOK' /\ CursorFits(graphWork[w])'
  BY <1>2 DEF StoreInv, ThreadsOK, StoresOK, CursorFits
<1>6. StepFits(w)'
  BY <1>2, <1>3, <1>4 DEF StepFits
<1>7. OnlyOneJobRan => ThreadTrails(graphWork[w])' /\ StepAgrees(w)'
  <2> SUFFICES ASSUME OnlyOneJobRan
               PROVE  ThreadTrails(graphWork[w])' /\ StepAgrees(w)'
    OBVIOUS
  <2>1. staging /\ ThreadTrails(graphWork[w])
    BY <1>2 DEF StoreInv, Alone, StepAgrees
  <2>2. Thread(w).next # "end"
    BY <1>2, <2>1 DEF ThreadTrails, Thread
  <2> QED BY <1>2, <1>4, <2>1, <2>2 DEF ThreadTrails, StepAgrees
<1> QED BY <1>2, <1>3, <1>5, <1>6, <1>7, OwnStep

LEMMA PrepareKeeps ==
  ASSUME GraphBase, StoreInv, NEW w \in GraphWorker, Prepare(w)
  PROVE  StoreInv'
<1>1. /\ graphStep[w] = "node" /\ Thread(w).next = "prepare" /\ graphStep[w] \in GraphExecuting
      /\ graphWork[w] \in GraphJob /\ UNCHANGED <<batches, staging, thread, finished>>
      /\ versionStatus' = "processing" /\ GraphGoto(w, "stage") /\ "stage" \in InGraph
      /\ graphStep'[w] = "stage" /\ graphWork' = graphWork
  BY DEF Prepare, AtNode, GraphExecuting, GraphBase, GraphControl, InGraph, GraphGoto
<1>2. Thread(w)' = Thread(w) /\ Thread(w) # NoThread
  BY <1>1 DEF Thread, StoreInv, StepFits, InGraph
<1>3. ThreadsOK' /\ StoresOK' /\ CursorFits(graphWork[w])' /\ StepFits(w)'
  BY <1>1, <1>2 DEF StoreInv, ThreadsOK, StoresOK, CursorFits, StepFits
<1>4. OnlyOneJobRan => ThreadTrails(graphWork[w])' /\ StepAgrees(w)'
  BY <1>1 DEF StoreInv, Alone, ThreadTrails, StepAgrees
<1> QED BY <1>1, <1>2, <1>3, <1>4, OwnStep

LEMMA StageKeeps ==
  ASSUME GraphBase, StoreInv, NEW w \in GraphWorker, StagePayload(w)
  PROVE  StoreInv'
<1>1. /\ graphStep[w] = "stage" /\ graphStep[w] \in GraphExecuting /\ graphWork[w] \in GraphJob
      /\ UNCHANGED <<versionStatus, thread, finished>> /\ batches' = {} /\ staging' = TRUE
      /\ GraphGoto(w, "saveStage") /\ "saveStage" \in InGraph
      /\ graphStep'[w] = "saveStage" /\ graphWork' = graphWork
  BY DEF StagePayload, GraphExecuting, GraphBase, GraphControl, InGraph, GraphGoto
<1>2. Thread(w)' = Thread(w) /\ Thread(w) # NoThread /\ Thread(w).next = "prepare"
  BY <1>1 DEF Thread, StoreInv, StepFits, InGraph
<1>3. ThreadsOK' /\ StoresOK' /\ CursorFits(graphWork[w])' /\ StepFits(w)'
  BY <1>1, <1>2 DEF StoreInv, ThreadsOK, StoresOK, CursorFits, StepFits
<1>4. OnlyOneJobRan => /\ versionStatus' # "indexed"
                       /\ ThreadTrails(graphWork[w])' /\ StepAgrees(w)'
  BY <1>1, <1>2 DEF StoreInv, Alone, ThreadTrails, StepAgrees, Thread
<1> QED BY <1>1, <1>2, <1>3, <1>4, OwnStep

LEMMA EmbedKeeps ==
  ASSUME GraphBase, StoreInv, NEW w \in GraphWorker, EmbedBatch(w)
  PROVE  StoreInv'
<1>1. /\ graphStep[w] = "node" /\ Thread(w).next = "embed" /\ graphStep[w] \in GraphExecuting
      /\ graphWork[w] \in GraphJob /\ UNCHANGED <<versionStatus, staging, thread, finished>>
      /\ batches' = batches \cup {Thread(w).cursor} /\ staging
      /\ GraphGoto(w, "saveBatch") /\ "saveBatch" \in InGraph
      /\ graphStep'[w] = "saveBatch" /\ graphWork' = graphWork
  BY DEF EmbedBatch, AtNode, GraphExecuting, GraphBase, GraphControl, InGraph, GraphGoto
<1>2. Thread(w)' = Thread(w) /\ Thread(w) # NoThread
  BY <1>1 DEF Thread, StoreInv, StepFits, InGraph
<1>3. Thread(w).cursor \in 0..(BatchTotal - 1)
  BY <1>1, GraphAssumption DEF Thread, StoreInv, ThreadsOK, CursorFits
<1>4. ThreadsOK' /\ StoresOK' /\ CursorFits(graphWork[w])' /\ StepFits(w)'
  BY <1>1, <1>2, <1>3 DEF StoreInv, ThreadsOK, StoresOK, CursorFits, StepFits
<1>5. OnlyOneJobRan => ThreadTrails(graphWork[w])' /\ StepAgrees(w)'
  BY <1>1, <1>2 DEF StoreInv, Alone, ThreadTrails, StepAgrees
<1>6. OnlyOneJobRan /\ versionStatus = "indexed" => batches' = 0..(BatchTotal - 1)
  BY <1>1, <1>3 DEF StoreInv, Alone, ServedVersionIsWhole
<1> QED BY <1>1, <1>2, <1>4, <1>5, <1>6, OwnStep

(* The version becomes indexed here: the cursor is at the end, and every   *)
(* batch before it is there.                                               *)
LEMMA FinalizeKeeps ==
  ASSUME GraphBase, StoreInv, NEW w \in GraphWorker, FinalizeGraph(w)
  PROVE  StoreInv'
<1>1. /\ graphStep[w] = "node" /\ Thread(w).next = "finalize" /\ graphStep[w] \in GraphExecuting
      /\ graphWork[w] \in GraphJob /\ UNCHANGED <<batches, staging, thread>>
      /\ versionStatus' = "indexed" /\ finished' = finished \cup {graphWork[w]}
      /\ GraphGoto(w, "unlink") /\ "unlink" \in InGraph
      /\ graphStep'[w] = "unlink" /\ graphWork' = graphWork
  BY DEF FinalizeGraph, AtNode, GraphExecuting, GraphBase, GraphControl, InGraph, GraphGoto
<1>2. Thread(w)' = Thread(w) /\ Thread(w) # NoThread
  BY <1>1 DEF Thread, StoreInv, StepFits, InGraph
<1>3. ThreadsOK' /\ StoresOK' /\ CursorFits(graphWork[w])' /\ StepFits(w)'
  BY <1>1, <1>2 DEF StoreInv, ThreadsOK, StoresOK, CursorFits, StepFits
<1>4. OnlyOneJobRan => ThreadTrails(graphWork[w])' /\ StepAgrees(w)'
  BY <1>1, <1>2 DEF StoreInv, Alone, ThreadTrails, StepAgrees
<1>5. ASSUME OnlyOneJobRan PROVE batches = 0..(BatchTotal - 1)
  <2>1. staging /\ Thread(w).cursor = BatchTotal
    BY <1>1, <1>5 DEF StoreInv, Alone, StepAgrees, CursorFits, Thread
  <2>2. \A b \in 0..(BatchTotal - 1) : b \in batches
    BY <1>1, <1>5, <2>1, GraphAssumption DEF StoreInv, Alone, ThreadTrails, Thread
  <2> QED BY <2>2 DEF StoreInv, StoresOK
<1> QED BY <1>1, <1>2, <1>3, <1>4, <1>5, OwnStep

LEMMA UnlinkKeeps ==
  ASSUME GraphBase, StoreInv, NEW w \in GraphWorker, Unlink(w)
  PROVE  StoreInv'
<1>1. /\ graphStep[w] = "unlink" /\ graphStep[w] \in GraphExecuting
      /\ graphWork[w] \in GraphJob /\ UNCHANGED <<versionStatus, batches, thread, finished>>
      /\ staging' = FALSE /\ GraphGoto(w, "saveEnd") /\ "saveEnd" \in InGraph
      /\ graphStep'[w] = "saveEnd" /\ graphWork' = graphWork
  BY DEF Unlink, GraphExecuting, GraphBase, GraphControl, InGraph, GraphGoto
<1>2. Thread(w)' = Thread(w) /\ Thread(w) # NoThread
  BY <1>1 DEF Thread, StoreInv, StepFits, InGraph
<1>3. ThreadsOK' /\ StoresOK' /\ CursorFits(graphWork[w])' /\ StepFits(w)'
  BY <1>1, <1>2 DEF StoreInv, ThreadsOK, StoresOK, CursorFits, StepFits
<1>4. OnlyOneJobRan => /\ versionStatus' = "indexed" => batches' = 0..(BatchTotal - 1)
                       /\ ThreadTrails(graphWork[w])' /\ StepAgrees(w)'
  BY <1>1 DEF StoreInv, Alone, ServedVersionIsWhole, ThreadTrails, StepAgrees
<1> QED BY <1>1, <1>2, <1>3, <1>4, OwnStep

(* What writing a checkpoint needs to be shown about the checkpoint.       *)
LEMMA SaveStep ==
  ASSUME GraphBase, StoreInv, NEW w \in GraphWorker, graphStep[w] \in GraphExecuting,
         NEW checkpoint \in [next : Node \ {"none"}, cursor : 0..BatchTotal],
         Save(w, checkpoint), NEW next \in {"node", "complete"}, GraphGoto(w, next),
         UNCHANGED <<versionStatus, batches, staging, finished>>,
         checkpoint.next = "prepare" => checkpoint.cursor = 0,
         checkpoint.next = "embed" => checkpoint.cursor < BatchTotal,
         checkpoint.next \in {"finalize", "end"} => checkpoint.cursor = BatchTotal,
         next = "complete" <=> checkpoint.next = "end",
         OnlyOneJobRan =>
           /\ checkpoint.next = "end" <=> ~staging
           /\ checkpoint.next # "end" =>
                \A b \in 0..(BatchTotal - 1) : b < checkpoint.cursor => b \in batches
           /\ next = "complete" => graphWork[w] \in finished
  PROVE  StoreInv'
<1>1. /\ graphWork[w] \in GraphJob /\ graphWork' = graphWork /\ graphStep'[w] = next
      /\ next \in InGraph
  BY DEF GraphBase, GraphControl, GraphGoto, InGraph
<1>2. /\ thread'[graphWork[w]] = checkpoint
      /\ \A j \in GraphJob \ {graphWork[w]} : thread'[j] = thread[j]
      /\ ThreadsOK' /\ StoresOK'
  BY <1>1 DEF StoreInv, ThreadsOK, StoresOK, Save
<1>3. Thread(w)' = checkpoint /\ checkpoint # NoThread
  BY <1>1, <1>2 DEF Thread, NoThread
<1>4. CursorFits(graphWork[w])' /\ StepFits(w)'
  BY <1>1, <1>2, <1>3 DEF CursorFits, StepFits
<1>5. OnlyOneJobRan => /\ versionStatus' = "indexed" => batches' = 0..(BatchTotal - 1)
                       /\ ThreadTrails(graphWork[w])' /\ StepAgrees(w)'
  BY <1>1, <1>2, <1>3 DEF StoreInv, Alone, ServedVersionIsWhole, ThreadTrails, StepAgrees
<1> QED BY <1>1, <1>2, <1>3, <1>4, <1>5, OwnStep

LEMMA SaveKeeps ==
  ASSUME GraphBase, StoreInv, NEW w \in GraphWorker, SaveCheckpoint(w)
  PROVE  StoreInv'
<1>1. /\ graphStep[w] \in GraphExecuting /\ graphWork[w] \in GraphJob
      /\ UNCHANGED <<versionStatus, batches, staging, finished>>
  BY DEF SaveCheckpoint, GraphExecuting, GraphBase, GraphControl, versionVars
<1>2. /\ Thread(w) \in [next : Node, cursor : 0..BatchTotal] /\ BatchTotal \in Nat \ {0}
      /\ "embed" \in Node \ {"none"} /\ "finalize" \in Node \ {"none"} /\ "end" \in Node \ {"none"}
  BY <1>1, GraphAssumption DEF StoreInv, ThreadsOK, Thread, Node
<1>3. CASE graphStep[w] = "saveStage"
  <2>1. Save(w, Checkpoint("embed", 0)) /\ GraphGoto(w, "node")
    BY <1>3 DEF SaveCheckpoint
  <2>2. OnlyOneJobRan => staging
    BY <1>3 DEF StoreInv, Alone, StepAgrees
  <2>3. /\ Checkpoint("embed", 0) \in [next : Node \ {"none"}, cursor : 0..BatchTotal]
        /\ Checkpoint("embed", 0).next = "embed" /\ Checkpoint("embed", 0).cursor = 0
    BY <1>2 DEF Checkpoint
  <2>4. 0 < BatchTotal /\ \A b \in 0..(BatchTotal - 1) : ~(b < 0)
    BY <1>2
  <2> QED BY <1>1, <2>1, <2>2, <2>3, <2>4, SaveStep
<1>4. CASE graphStep[w] = "saveBatch"
  <2>1. PICK after, node : after = Thread(w).cursor + 1 /\ node = Route(after)
    OBVIOUS
  <2>2. Save(w, Checkpoint(node, after)) /\ GraphGoto(w, "node")
    BY <1>4, <2>1 DEF SaveCheckpoint
  <2>3. Thread(w).next = "embed" /\ Thread(w).cursor < BatchTotal
    BY <1>1, <1>4 DEF StoreInv, StepFits, CursorFits, Thread
  <2>4. /\ after \in 0..BatchTotal /\ node \in {"embed", "finalize"}
        /\ node = "embed" => after < BatchTotal
        /\ node = "finalize" => after = BatchTotal
    BY <1>2, <2>1, <2>3 DEF Route
  <2>5. /\ Checkpoint(node, after) \in [next : Node \ {"none"}, cursor : 0..BatchTotal]
        /\ Checkpoint(node, after).next = node /\ Checkpoint(node, after).cursor = after
    BY <1>2, <2>4 DEF Checkpoint
  <2>6. OnlyOneJobRan => staging /\ \A b \in 0..(BatchTotal - 1) : b < after => b \in batches
    <3> SUFFICES ASSUME OnlyOneJobRan, NEW b \in 0..(BatchTotal - 1), b < after
                 PROVE  b \in batches
      BY <1>4 DEF StoreInv, Alone, StepAgrees
    <3>1. staging /\ Thread(w).cursor \in batches
      BY <1>4 DEF StoreInv, Alone, StepAgrees
    <3>2. b < Thread(w).cursor \/ b = Thread(w).cursor
      BY <1>2, <2>1
    <3>3. b < Thread(w).cursor => b \in batches
      BY <1>1, <2>3, <3>1 DEF StoreInv, Alone, ThreadTrails, Thread
    <3> QED BY <3>1, <3>2, <3>3
  <2> QED BY <1>1, <2>2, <2>4, <2>5, <2>6, SaveStep
<1>5. CASE graphStep[w] = "saveEnd"
  <2>1. PICK after : after = Thread(w).cursor
    OBVIOUS
  <2>2. Save(w, Checkpoint("end", after)) /\ GraphGoto(w, "complete")
    BY <1>5, <2>1 DEF SaveCheckpoint
  <2>3. after = BatchTotal
    BY <1>1, <1>5, <2>1 DEF StoreInv, StepFits, CursorFits, Thread
  <2>4. /\ Checkpoint("end", after) \in [next : Node \ {"none"}, cursor : 0..BatchTotal]
        /\ Checkpoint("end", after).next = "end" /\ Checkpoint("end", after).cursor = after
    BY <1>2, <2>3 DEF Checkpoint
  <2>5. OnlyOneJobRan => ~staging /\ graphWork[w] \in finished
    BY <1>5 DEF StoreInv, Alone, StepAgrees
  <2> QED BY <1>1, <2>2, <2>3, <2>4, <2>5, SaveStep
<1> QED BY <1>3, <1>4, <1>5 DEF SaveCheckpoint

-----------------------------------------------------------------------------
(* The steps outside the graph, and the theorems.                          *)

LEMMA WorkerKeeps ==
  ASSUME GraphBase, StoreInv, NEW w \in GraphWorker, GraphWorkerNext(w)
  PROVE  StoreInv'
<1>1. ASSUME UNCHANGED <<batches, staging, thread, finished>>,
             versionStatus' \in {versionStatus, "queued", "failed"},
             \/ GraphRelease(w)
             \/ \E next : next \notin InGraph /\ GraphGoto(w, next)
      PROVE  StoreInv'
  <2>1. \A u \in GraphWorker :
          \/ graphStep'[u] = graphStep[u] /\ graphWork'[u] = graphWork[u]
          \/ graphStep'[u] \notin InGraph
    BY <1>1 DEF GraphRelease, GraphGoto, GraphBase, GraphControl, InGraph
  <2> QED BY <1>1, <2>1, OutsideStep
<1>2. CASE GraphPoll(w)
  BY <1>1, <1>2 DEF GraphPoll, versionVars, InGraph
<1>3. CASE GraphClaim(w)
  <2>1. \A u \in GraphWorker :
          \/ graphStep'[u] = graphStep[u] /\ graphWork'[u] = graphWork[u]
          \/ graphStep'[u] \notin InGraph
    BY <1>3 DEF GraphClaim, GraphGoto, GraphBase, GraphControl, InGraph
  <2> QED BY <1>3, <2>1, OutsideStep DEF GraphClaim, versionVars
<1>4. CASE GraphTakeOffline(w)
  BY <1>1, <1>4 DEF GraphTakeOffline, InGraph
<1>5. CASE GraphComplete(w)
  BY <1>1, <1>5 DEF GraphComplete, versionVars
<1>6. CASE GraphFails(w)
  BY <1>1, <1>6 DEF GraphFails, versionVars, InGraph
<1>7. CASE GraphRecordFailure(w)
  BY <1>1, <1>7 DEF GraphRecordFailure, versionVars, InGraph
<1>8. CASE GraphSettle(w)
  BY <1>1, <1>8 DEF GraphSettle
<1>9. CASE GraphWorkerDies(w)
  BY <1>1, <1>9 DEF GraphWorkerDies, versionVars
<1>10. CASE GraphRefused(w)
  BY <1>1, <1>10 DEF GraphRefused, versionVars, InGraph
<1> QED BY <1>2, <1>3, <1>4, <1>5, <1>6, <1>7, <1>8, <1>9, <1>10, LoadKeeps, ResumeKeeps,
           PrepareKeeps, StageKeeps, EmbedKeeps, FinalizeKeeps, UnlinkKeeps, SaveKeeps
        DEF GraphWorkerNext

(* Queueing a job again forgets that it has finished; nobody executes it.  *)
LEMMA QueueKeeps ==
  ASSUME GraphBase, StoreInv, NEW j \in GraphJob, QueueGraphJob(j)
  PROVE  StoreInv'
<1>1. /\ UNCHANGED <<graphStep, graphWork, versionStatus, batches, staging, thread>>
      /\ finished' = finished \ {j}
  BY DEF QueueGraphJob, versionVars
<1>2. jobRow[j].status # "running"
  BY DEF QueueGraphJob, GQ!Enqueue, GQ!Retry, GQ!Active
<1>3. ASSUME NEW w \in GraphWorker, graphStep[w] \in {"unlink", "saveEnd", "complete"}
      PROVE  graphWork[w] # j
  BY <1>2, <1>3 DEF GraphBase, GraphOwned, GraphExecuting
<1>4. /\ ThreadsOK' /\ StoresOK' /\ \A k \in GraphJob : CursorFits(k)'
      /\ \A w \in GraphWorker : StepFits(w)'
  BY <1>1 DEF StoreInv, ThreadsOK, StoresOK, CursorFits, StepFits, Thread
<1>5. ServedVersionIsWhole' /\ (OnlyOneJobRan' => OnlyOneJobRan)
  BY <1>1 DEF StoreInv, Alone, ServedVersionIsWhole, OnlyOneJobRan
<1>6. OnlyOneJobRan' => \A k \in GraphJob : ThreadTrails(k)'
  BY <1>1, <1>5 DEF StoreInv, Alone, ThreadTrails
<1>7. OnlyOneJobRan' => \A w \in GraphWorker : StepAgrees(w)'
  BY <1>1, <1>3, <1>5 DEF StoreInv, Alone, StepAgrees, Thread
<1> QED BY <1>4, <1>5, <1>6, <1>7 DEF StoreInv, Alone

LEMMA NextStoreInv == GraphBase /\ StoreInv /\ [GraphNext]_graphVars => StoreInv'
<1> SUFFICES ASSUME GraphBase, StoreInv, [GraphNext]_graphVars PROVE StoreInv'
  OBVIOUS
<1>1. ASSUME UNCHANGED <<graphStep, graphWork, versionStatus, batches, staging, thread, finished>>
      PROVE  StoreInv'
  BY <1>1, OutsideStep
<1>2. ASSUME NEW j \in GraphJob, GraphTime(j) PROVE StoreInv'
  BY <1>1, <1>2 DEF GraphTime, versionVars
<1>3. CASE UNCHANGED graphVars
  BY <1>1, <1>3 DEF graphVars
<1> QED BY <1>2, <1>3, WorkerKeeps, QueueKeeps DEF GraphNext

LEMMA InitStoreInv == GraphInit => StoreInv
<1> SUFFICES ASSUME GraphInit PROVE StoreInv
  OBVIOUS
<1>1. ThreadsOK /\ StoresOK
  <2>1. NoThread \in [next : Node, cursor : 0..BatchTotal]
    BY GraphAssumption DEF NoThread, Node
  <2>2. thread = [j \in GraphJob |-> NoThread]
    BY DEF GraphInit
  <2>3. ThreadsOK
    BY <2>1, <2>2 DEF ThreadsOK
  <2> QED BY <2>3 DEF GraphInit, StoresOK
<1>2. \A j \in GraphJob : CursorFits(j) /\ ThreadTrails(j)
  BY DEF GraphInit, CursorFits, ThreadTrails, NoThread
<1>3. \A w \in GraphWorker : StepFits(w) /\ StepAgrees(w)
  BY DEF GraphInit, StepFits, StepAgrees, InGraph
<1>4. ServedVersionIsWhole
  BY DEF GraphInit, ServedVersionIsWhole
<1> QED BY <1>1, <1>2, <1>3, <1>4 DEF StoreInv, Alone

LEMMA BaseInvariant == GraphSpec => []GraphBase
<1>1. GraphControl /\ GT!HolderOwns => GraphBase
  <2> SUFFICES ASSUME GraphControl, GT!HolderOwns, NEW w \in GraphWorker,
                      graphStep[w] \in GraphExecuting
               PROVE  /\ jobRow[graphWork[w]].status = "running"
                      /\ jobRow[graphWork[w]].lockedBy = w
    BY DEF GraphBase, GraphOwned
  <2>1. graphWork[w] \in GraphJob /\ graphWork[w] # NoGraphJob
    BY GraphAssumption DEF GraphControl
  <2>2. graphStep[w] # "polled"
    BY DEF GraphExecuting
  <2> QED BY <2>1, <2>2 DEF GT!HolderOwns, GT!ExecutorOwns, GT!Settled, GT!Owns
<1> QED BY <1>1, GraphControlInvariant, GraphQueueFacts, PTL

LEMMA StoreInvariant == GraphSpec => []StoreInv
BY BaseInvariant, InitStoreInv, NextStoreInv, PTL DEF GraphSpec

(* Every variable of the engine keeps its type: rows are rows of the       *)
(* queue, a checkpoint names a node and a cursor within the batches.       *)
THEOREM GraphTypesHold == GraphSpec => []GraphTypeOK
<1>1. GraphControl /\ StoreInv /\ GT!TypeOK => GraphTypeOK
  BY DEF GraphControl, StoreInv, ThreadsOK, StoresOK, GraphTypeOK, GT!TypeOK, GT!Row, GQ!Row,
         GT!JobStatus, GQ!JobStatus
<1> QED BY <1>1, GraphControlInvariant, StoreInvariant, GraphQueueFacts, PTL

(* While one job of the version has run, an indexed version has the rows   *)
(* of every batch, whatever interrupted the job and however often.         *)
THEOREM ServedIsWhole == GraphSpec => []ServedVersionIsWhole
<1>1. StoreInv => ServedVersionIsWhole
  BY DEF StoreInv, Alone
<1> QED BY <1>1, StoreInvariant, PTL

(* ... no checkpoint with its file is ahead of the rows ...                *)
THEOREM ResumptionSkipsNothing == GraphSpec => []CheckpointTrailsChunks
<1>1. StoreInv => CheckpointTrailsChunks
  BY DEF StoreInv, Alone, CheckpointTrailsChunks, ThreadTrails
<1> QED BY <1>1, StoreInvariant, PTL

(* ... and a job about to be completed has finalized the version since it  *)
(* was queued.                                                             *)
THEOREM SuccessIsEarned == GraphSpec => []SuccessMeansIndexed
<1>1. StoreInv => SuccessMeansIndexed
  BY DEF StoreInv, Alone, SuccessMeansIndexed, StepAgrees
<1> QED BY <1>1, StoreInvariant, PTL

(* The queue's guarantees hold while the langgraph engine drives it: no    *)
(* row is out of every transaction's reach, and no two workers execute     *)
(* one job.                                                                *)
THEOREM GraphKeepsQueue ==
  GraphSpec => [](GQ!NoRowIsStuck /\ GQ!ExclusiveExecution)
<1>1. GT!NoRowIsStuck /\ GT!ExclusiveExecution => GQ!NoRowIsStuck /\ GQ!ExclusiveExecution
  BY DEF GT!NoRowIsStuck, GQ!NoRowIsStuck, GT!ExclusiveExecution, GQ!ExclusiveExecution
<1> QED BY <1>1, GraphQueueFacts, PTL

-----------------------------------------------------------------------------
(* The chunker.                                                            *)

(* Every non-blank character before the cursor is in a window already.     *)
CoveredBy(windows, bound) ==
  \A p \in Offsets : p < bound /\ text[p] \notin Blank =>
    \E w \in windows : Inside(p, w)

ParentWindows == {parents[i] : i \in DOMAIN parents}
ChunkWindows == {chunks[i].window : i \in DOMAIN chunks}

TextOK == /\ TextLength \in 1..MaxText
          /\ text \in [0..(TextLength - 1) -> Character]
          /\ text[0] \notin Blank

SoundChunk(c) == /\ c.window.start < c.window.end /\ c.window.end <= TextLength
                 /\ c.window.end - c.window.start <= ChildChars
                 /\ \E p \in Offsets : Inside(p, c.window) /\ Inside(p, c.parent)

Advancing == \A i \in DOMAIN chunks : \A k \in 1..(i - 1) :
               chunks[k].window.start < chunks[i].window.start

ChunkInv ==
  /\ TextOK
  /\ layout \in {"parents", "children", "done"}
  /\ cursor \in 0..(TextLength - 1)
  /\ parents \in Seq(Window)
  /\ chunks \in Seq([window : Window, parent : Window])
  /\ layout = "parents" => chunks = <<>> /\ CoveredBy(ParentWindows, cursor)
  /\ layout # "parents" => CoveredBy(ParentWindows, TextLength)
  /\ layout = "children" => /\ CoveredBy(ChunkWindows, cursor)
                            /\ \A w \in ChunkWindows : w.start < cursor
  /\ layout = "done" => CoveredBy(ChunkWindows, TextLength)
  /\ \A i \in DOMAIN chunks : SoundChunk(chunks[i])
  /\ Advancing

-----------------------------------------------------------------------------
(* Lemmas about the operators of the chunker.                              *)

LEMMA LeastNatural ==
  ASSUME NEW T, T \subseteq Nat, T # {}
  PROVE  \E x \in T : \A y \in T : x <= y
<1>1. IsWellFoundedOn(OpToRel(<, Nat), Nat)
  BY NatLessThanWellFounded
<1>2. PICK x \in T : \A y \in T : <<y, x>> \notin OpToRel(<, Nat)
  BY <1>1, WFMin
<1>3. \A y \in T : ~(y < x)
  BY <1>2 DEF OpToRel
<1> QED BY <1>3

(* A bounded set has a greatest element.                                   *)
LEMMA GreatestInteger ==
  ASSUME NEW T, T \subseteq Int, T # {}, NEW bound \in Int, \A x \in T : x <= bound
  PROVE  \E x \in T : \A y \in T : y <= x
<1> DEFINE Below0 == {bound - x : x \in T}
<1>1. Below0 \subseteq Nat /\ Below0 # {}
  <2>1. ASSUME NEW x \in T PROVE bound - x \in Nat
    OBVIOUS
  <2> QED BY <2>1
<1>2. PICK d \in Below0 : \A e \in Below0 : d <= e
  <2> HIDE DEF Below0
  <2> QED BY <1>1, LeastNatural
<1>3. PICK x \in T : d = bound - x
  BY <1>2
<1>4. \A y \in T : bound - x <= bound - y
  BY <1>2, <1>3
<1>5. \A y \in T : y <= x
  BY <1>4
<1> QED BY <1>5

LEMMA LengthOfText ==
  ASSUME NEW n \in 1..MaxText, text \in [0..(n - 1) -> Character]
  PROVE  TextLength = n
<1> USE ChunkingAssumption
<1>1. Offsets = 0..(n - 1) /\ n \in 0..MaxText
  BY DEF Offsets
<1>2. TextLength \in 0..MaxText /\ 0..(TextLength - 1) = 0..(n - 1)
  BY <1>1 DEF TextLength
<1>3. PICK m \in 0..MaxText : m = TextLength
  BY <1>2
<1>4. ~(m < n)
  <2>1. n - 1 \in 0..(n - 1)
    OBVIOUS
  <2> QED BY <1>2, <1>3, <2>1
<1>5. ~(n < m)
  <2>1. m > n => m - 1 \in 0..(m - 1)
    OBVIOUS
  <2> QED BY <1>2, <1>3, <2>1
<1> QED BY <1>3, <1>4, <1>5

(* A window is not empty, keeps to its size and stays in the text.         *)
LEMMA WindowBounds ==
  ASSUME TextOK, NEW from \in 0..(TextLength - 1), NEW size \in Nat \ {0}
  PROVE  /\ WindowEnd(from, size) \in (from + 1)..TextLength
         /\ WindowEnd(from, size) <= from + size
<1>1. TextLength \in Nat
  BY ChunkingAssumption DEF TextOK
<1>2. CASE from + size >= TextLength
  BY <1>1, <1>2 DEF WindowEnd
<1>3. CASE ~(from + size >= TextLength)
  <2>1. PICK latter : latter = Latter(from, from + size, size)
    OBVIOUS
  <2>2. CASE latter = {}
    BY <1>1, <1>3, <2>1, <2>2 DEF WindowEnd
  <2>3. CASE latter # {}
    <3>1. latter \subseteq from..(from + size - 1)
      BY <2>1 DEF Latter
    <3>2. latter \subseteq Int /\ TextLength \in Int /\ \A p \in latter : p <= TextLength
      BY <1>1, <1>3, <3>1
    <3>3. \E p \in latter : \A q \in latter : q <= p
      BY <2>3, <3>2, GreatestInteger
    <3>4. PICK last : last = CHOOSE p \in latter : \A q \in latter : q <= p
      OBVIOUS
    <3>5. last \in latter
      BY <3>3, <3>4
    <3>6. WindowEnd(from, size) = 1 + last
      BY <1>3, <2>1, <2>3, <3>4 DEF WindowEnd
    <3> QED BY <1>1, <1>3, <3>1, <3>5, <3>6
  <2> QED BY <2>2, <2>3
<1> QED BY <1>2, <1>3

(* The next window starts later, and no later than this one ends.          *)
LEMMA NextBounds ==
  ASSUME NEW from \in Nat, NEW to \in Nat, from < to, NEW overlap \in Nat
  PROVE  NextStart(from, to, overlap) \in (from + 1)..to
BY DEF NextStart

LEMMA ParentGiven ==
  ASSUME TextOK, parents \in Seq(Window), CoveredBy(ParentWindows, TextLength),
         NEW c \in Window, c.start < c.end, c.end <= TextLength, HasText(c.start, c.end)
  PROVE  /\ ParentOf(c) \in Window
         /\ \E p \in Offsets : Inside(p, c) /\ Inside(p, ParentOf(c))
<1> DEFINE holding == {i \in DOMAIN parents : Holds(parents[i], c)}
           nearest == {i \in DOMAIN parents : \A k \in DOMAIN parents :
                         Shared(parents[k], c) <= Shared(parents[i], c)}
           candidates == IF holding # {} THEN holding ELSE nearest
<1>1. /\ DOMAIN parents \subseteq Nat /\ TextLength \in Nat /\ Offsets = 0..(TextLength - 1)
      /\ \A i \in DOMAIN parents : parents[i] \in Window
      /\ c.start \in Nat /\ c.end \in Nat
      /\ \A i \in DOMAIN parents : parents[i].start \in Nat /\ parents[i].end \in Nat
  <2>1. DOMAIN parents = 1..Len(parents) /\ Len(parents) \in Nat
    OBVIOUS
  <2>2. \A i \in DOMAIN parents : parents[i] \in Window
    BY <2>1
  <2>3. TextLength \in Nat /\ Offsets = 0..(TextLength - 1)
    BY ChunkingAssumption DEF TextOK, Offsets
  <2>4. \A w \in Window : w.start \in Nat /\ w.end \in Nat
    BY ChunkingAssumption DEF Window
  <2> QED BY <2>1, <2>2, <2>3, <2>4
<1>2. PICK t \in Offsets : Inside(t, c) /\ text[t] \notin Blank
  BY <1>1 DEF HasText, Inside
<1>3. PICK k \in DOMAIN parents : Inside(t, parents[k])
  BY <1>1, <1>2 DEF CoveredBy, ParentWindows
<1>4. \A i \in DOMAIN parents : Shared(parents[i], c) \in Int /\ Shared(parents[i], c) <= TextLength
  BY <1>1 DEF Shared
<1>5. Shared(parents[k], c) >= 1
  BY <1>1, <1>2, <1>3 DEF Shared, Inside
<1>6. nearest # {}
  <2> DEFINE amounts == {Shared(parents[i], c) : i \in DOMAIN parents}
  <2>1. amounts \subseteq Int /\ amounts # {} /\ \A x \in amounts : x <= TextLength
    BY <1>3, <1>4
  <2>2. PICK x \in amounts : \A y \in amounts : y <= x
    <3> HIDE DEF amounts
    <3>1. TextLength \in Int
      BY <1>1
    <3> QED BY <2>1, <3>1, GreatestInteger
  <2>3. PICK i \in DOMAIN parents : x = Shared(parents[i], c)
    BY <2>2
  <2>4. i \in nearest
    BY <2>2, <2>3
  <2> QED BY <2>4
<1>7. candidates # {} /\ candidates \subseteq DOMAIN parents
  BY <1>6
<1> DEFINE chosen == CHOOSE i \in candidates : \A j \in candidates : i <= j
<1>8. chosen \in candidates
  <2> HIDE DEF candidates
  <2>1. \E i \in candidates : \A j \in candidates : i <= j
    BY <1>1, <1>7, LeastNatural
  <2> QED BY <2>1
<1>9. ParentOf(c) = parents[chosen]
  BY DEF ParentOf
<1> HIDE DEF chosen
<1>10. PICK w : w = parents[chosen]
  OBVIOUS
<1>11. chosen \in DOMAIN parents /\ w \in Window /\ w.start \in Nat /\ w.end \in Nat
  BY <1>1, <1>7, <1>8, <1>10
<1>12. CASE holding # {}
  <2>1. Holds(w, c)
    BY <1>8, <1>10, <1>12
  <2>2. c.start \in Offsets /\ Inside(c.start, c) /\ Inside(c.start, w)
    BY <1>1, <1>11, <2>1 DEF Holds, Inside
  <2> QED BY <1>9, <1>10, <1>11, <2>2
<1>13. CASE holding = {}
  <2>1. Shared(w, c) >= 1
    <3>1. Shared(parents[k], c) <= Shared(w, c)
      BY <1>3, <1>8, <1>10, <1>13
    <3> QED BY <1>3, <1>4, <1>5, <1>10, <1>11, <3>1
  <2>2. PICK s \in Nat : s = IF w.start > c.start THEN w.start ELSE c.start
    BY <1>1, <1>11
  <2>3. s < w.end /\ s < c.end /\ w.start <= s /\ c.start <= s
    BY <1>1, <1>11, <2>1, <2>2, SMTT(30) DEF Shared
  <2>4. s \in Offsets /\ Inside(s, c) /\ Inside(s, w)
    BY <1>1, <1>11, <2>2, <2>3 DEF Inside
  <2> QED BY <1>9, <1>10, <1>11, <2>4
<1> QED BY <1>12, <1>13

-----------------------------------------------------------------------------
(* The steps.                                                              *)

LEMMA TextKept ==
  ASSUME TextOK, UNCHANGED text
  PROVE  /\ TextOK' /\ TextLength' = TextLength /\ Offsets' = Offsets
         /\ \A S, b : CoveredBy(S, b) => CoveredBy(S, b)'
         /\ \A c : SoundChunk(c) => SoundChunk(c)'
<1>1. TextLength' = TextLength /\ Offsets' = Offsets
  BY DEF TextLength, Offsets
<1>2. TextOK'
  BY <1>1 DEF TextOK
<1>3. \A S, b : CoveredBy(S, b) => CoveredBy(S, b)'
  BY <1>1 DEF CoveredBy
<1>4. \A c : SoundChunk(c) => SoundChunk(c)'
  BY <1>1 DEF SoundChunk
<1> QED BY <1>1, <1>2, <1>3, <1>4

(* Cutting a window extends what is covered to its end: if it is left out, *)
(* there is nothing to lose in it.                                         *)
LEMMA CoverExtends ==
  ASSUME TextOK, NEW S, NEW T, S \subseteq T, NEW from \in Nat, NEW to \in Nat,
         CoveredBy(S, from),
         [start |-> from, end |-> to] \in T \/ ~HasText(from, to)
  PROVE  \A bound \in 0..to : CoveredBy(T, bound)
<1> SUFFICES ASSUME NEW bound \in 0..to, NEW p \in Offsets, p < bound, text[p] \notin Blank
             PROVE  \E w \in T : Inside(p, w)
  BY DEF CoveredBy
<1>1. p \in Nat
  BY ChunkingAssumption DEF TextOK, Offsets
<1>2. CASE p < from
  BY <1>2 DEF CoveredBy
<1>3. CASE ~(p < from)
  <2>1. p \in from..(to - 1)
    BY <1>1, <1>3
  <2>2. [start |-> from, end |-> to] \in T
    BY <2>1 DEF HasText
  <2>3. Inside(p, [start |-> from, end |-> to])
    BY <1>1, <1>3 DEF Inside
  <2> QED BY <2>2, <2>3
<1> QED BY <1>2, <1>3

LEMMA CutParentKeeps ==
  ASSUME ChunkInv, CutParent
  PROVE  ChunkInv'
<1>1. PICK to : to = WindowEnd(cursor, WindowChars)
  OBVIOUS
<1>2. PICK window : window = [start |-> cursor, end |-> to]
  OBVIOUS
<1>3. /\ layout = "parents" /\ chunks = <<>>
      /\ parents' = IF HasText(cursor, to) THEN Append(parents, window) ELSE parents
      /\ UNCHANGED <<text, chunks>>
  BY <1>1, <1>2 DEF CutParent, ChunkInv
<1>4. /\ TextLength \in Nat /\ TextLength <= MaxText /\ MaxText \in Nat
      /\ cursor \in Nat /\ cursor \in 0..(TextLength - 1)
      /\ to \in (cursor + 1)..TextLength /\ to \in Nat
  BY <1>1, WindowBounds, ChunkingAssumption DEF ChunkInv, TextOK
<1>5. window \in Window /\ window.start = cursor /\ window.end = to
  BY <1>2, <1>4 DEF Window
<1>6. /\ parents' \in Seq(Window) /\ ParentWindows \subseteq ParentWindows'
      /\ HasText(cursor, to) => window \in ParentWindows'
  <2>1. parents \in Seq(Window)
    BY DEF ChunkInv
  <2>2. CASE HasText(cursor, to)
    <3>1. parents' = Append(parents, window)
      BY <1>3, <2>2
    <3>2. /\ parents' \in Seq(Window) /\ DOMAIN parents' = 1..(Len(parents) + 1)
          /\ \A i \in DOMAIN parents : i \in DOMAIN parents' /\ parents'[i] = parents[i]
          /\ Len(parents) + 1 \in DOMAIN parents' /\ parents'[Len(parents) + 1] = window
      BY <1>5, <2>1, <3>1
    <3> QED BY <3>2 DEF ParentWindows
  <2>3. CASE ~HasText(cursor, to)
    BY <1>3, <2>1, <2>3 DEF ParentWindows
  <2> QED BY <2>2, <2>3
<1>7. PICK before, after : before = ParentWindows /\ after = ParentWindows'
  OBVIOUS
<1>8. \A bound \in 0..to : CoveredBy(after, bound)
  <2>1. CoveredBy(before, cursor) /\ TextOK
    BY <1>3, <1>7 DEF ChunkInv
  <2> QED BY <1>2, <1>4, <1>6, <1>7, <2>1, CoverExtends
<1>9. /\ TextOK' /\ TextLength' = TextLength /\ Offsets' = Offsets
      /\ \A S, b : CoveredBy(S, b) => CoveredBy(S, b)'
  BY <1>3, TextKept DEF ChunkInv
<1>10. /\ chunks' = <<>> /\ (\A i \in DOMAIN chunks : SoundChunk(chunks[i]))'
       /\ Advancing' /\ chunks' \in Seq([window : Window, parent : Window])
       /\ ChunkWindows' = {}
  BY <1>3 DEF Advancing, ChunkWindows
<1>11. CASE to >= TextLength
  <2>1. cursor' = 0 /\ layout' = "children" /\ to = TextLength
    BY <1>1, <1>4, <1>11 DEF CutParent, Slide
  <2>2. cursor' \in 0..(TextLength' - 1)
    BY <1>4, <1>9, <2>1
  <2>3. CoveredBy(after, TextLength)'
    BY <1>4, <1>8, <1>9, <2>1
  <2>4. CoveredBy(ParentWindows, TextLength)'
    BY <1>7, <1>9, <2>3 DEF CoveredBy
  <2>5. CoveredBy(ChunkWindows, cursor)'
    BY <1>9, <2>1, ChunkingAssumption DEF CoveredBy, TextOK, Offsets
  <2> QED BY <1>6, <1>9, <1>10, <2>1, <2>2, <2>4, <2>5 DEF ChunkInv
<1>12. CASE ~(to >= TextLength)
  <2>1. cursor' = NextStart(cursor, to, OverlapChars) /\ layout' = "parents"
    BY <1>1, <1>3, <1>4, <1>12 DEF CutParent, Slide
  <2>2. cursor' \in (cursor + 1)..to
    BY <1>4, <2>1, NextBounds, ChunkingAssumption
  <2>3. cursor' \in 0..(TextLength' - 1) /\ cursor' \in 0..to
    BY <1>4, <1>9, <1>12, <2>2
  <2>4. CoveredBy(after, cursor')
    BY <1>8, <2>3
  <2>5. CoveredBy(ParentWindows, cursor)'
    BY <1>3, <1>7, <1>9, <2>4 DEF CoveredBy
  <2> QED BY <1>6, <1>9, <1>10, <2>1, <2>3, <2>5 DEF ChunkInv
<1> QED BY <1>11, <1>12

LEMMA ChunkStarts ==
  \A s \in Seq([window : Window, parent : Window]) :
    \A i \in DOMAIN s : s[i].window.start \in Nat
<1> SUFFICES ASSUME NEW s \in Seq([window : Window, parent : Window]), NEW i \in DOMAIN s
             PROVE  s[i].window.start \in Nat
  OBVIOUS
<1>1. ASSUME NEW S, NEW t \in Seq(S), NEW k \in DOMAIN t PROVE t[k] \in S
  OBVIOUS
<1>2. s[i] \in [window : Window, parent : Window]
  BY <1>1
<1>3. s[i].window \in Window
  BY <1>2
<1> QED BY <1>3, ChunkingAssumption, SMTT(30) DEF Window

LEMMA CutChildKeeps ==
  ASSUME ChunkInv, CutChild
  PROVE  ChunkInv'
<1>1. PICK to : to = WindowEnd(cursor, ChildChars)
  OBVIOUS
<1>2. PICK window : window = [start |-> cursor, end |-> to]
  OBVIOUS
<1>3. PICK chunk : chunk = [window |-> window, parent |-> ParentOf(window)]
  OBVIOUS
<1>4. /\ layout = "children" /\ UNCHANGED <<text, parents>>
      /\ chunks' = IF HasText(cursor, to) THEN Append(chunks, chunk) ELSE chunks
  BY <1>1, <1>2, <1>3 DEF CutChild
<1>5. /\ TextLength \in Nat /\ TextLength <= MaxText /\ MaxText \in Nat
      /\ cursor \in Nat /\ cursor \in 0..(TextLength - 1)
      /\ to \in (cursor + 1)..TextLength /\ to \in Nat /\ to <= cursor + ChildChars
  BY <1>1, WindowBounds, ChunkingAssumption, SMTT(30) DEF ChunkInv, TextOK
<1>6. window \in Window /\ window.start = cursor /\ window.end = to
  BY <1>2, <1>5 DEF Window
<1>7. /\ TextOK' /\ TextLength' = TextLength /\ Offsets' = Offsets
      /\ \A S, b : CoveredBy(S, b) => CoveredBy(S, b)'
      /\ \A c : SoundChunk(c) => SoundChunk(c)'
  BY <1>4, TextKept DEF ChunkInv
<1>8. /\ chunks' \in Seq([window : Window, parent : Window])
      /\ \A i \in DOMAIN chunks' : SoundChunk(chunks'[i])
      /\ Advancing' /\ ChunkWindows \subseteq ChunkWindows'
      /\ HasText(cursor, to) => window \in ChunkWindows'
      /\ \A w \in ChunkWindows' : w.start <= cursor
  <2>1. /\ chunks \in Seq([window : Window, parent : Window])
        /\ \A i \in DOMAIN chunks : chunks[i].window.start < cursor /\ SoundChunk(chunks[i])
        /\ \A w \in ChunkWindows : w.start < cursor
    BY <1>4 DEF ChunkInv, ChunkWindows
  <2>2. CASE HasText(cursor, to)
    <3>1. /\ ParentOf(window) \in Window
          /\ \E p \in Offsets : Inside(p, window) /\ Inside(p, ParentOf(window))
      BY <1>4, <1>5, <1>6, <2>2, ParentGiven, SMTT(30) DEF ChunkInv
    <3>2. chunk \in [window : Window, parent : Window] /\ chunk.window = window
      BY <1>3, <1>6, <3>1
    <3>3. SoundChunk(chunk)
      BY <1>3, <1>5, <1>6, <3>1, ChunkingAssumption DEF SoundChunk
    <3>4. chunks' = Append(chunks, chunk)
      BY <1>4, <2>2
    <3>5. PICK n \in Nat : n = Len(chunks) + 1
      BY <2>1
    <3>6. /\ chunks' \in Seq([window : Window, parent : Window]) /\ DOMAIN chunks' = 1..n
          /\ DOMAIN chunks = 1..(n - 1)
          /\ \A i \in 1..(n - 1) : chunks'[i] = chunks[i]
          /\ chunks'[n] = chunk
      BY <2>1, <3>2, <3>4, <3>5
    <3>7. \A i \in 1..n : i \in 1..(n - 1) \/ i = n
      OBVIOUS
    <3>8. \A i \in DOMAIN chunks' : SoundChunk(chunks'[i])
      BY <2>1, <3>3, <3>6, <3>7
    <3>9. Advancing'
      <4> SUFFICES ASSUME NEW i \in 1..n, NEW k \in 1..(i - 1)
                   PROVE  chunks'[k].window.start < chunks'[i].window.start
        BY <3>6 DEF Advancing
      <4>1. k \in 1..(n - 1) /\ chunks'[k] = chunks[k]
        BY <3>6
      <4>2. CASE i = n
        BY <1>6, <2>1, <3>2, <3>6, <4>1, <4>2
      <4>3. CASE i \in 1..(n - 1)
        BY <3>6, <4>1, <4>3 DEF ChunkInv, Advancing
      <4> QED BY <3>7, <4>2, <4>3
    <3>10. ChunkWindows' = ChunkWindows \cup {window}
      BY <3>2, <3>5, <3>6, <3>7 DEF ChunkWindows
    <3>11. \A w \in ChunkWindows' : w.start <= cursor
      <4>1. \A w \in ChunkWindows : w.start \in Nat
        BY <2>1, ChunkStarts DEF ChunkWindows
      <4> QED BY <1>5, <1>6, <2>1, <3>10, <4>1
    <3> QED BY <3>6, <3>8, <3>9, <3>10, <3>11
  <2>3. CASE ~HasText(cursor, to)
    <3>1. chunks' = chunks
      BY <1>4, <2>3
    <3>2. \A w \in ChunkWindows : w.start \in Nat
      BY <2>1, ChunkStarts DEF ChunkWindows
    <3>3. ChunkWindows' = ChunkWindows /\ Advancing'
      BY <3>1 DEF ChunkInv, ChunkWindows, Advancing
    <3> QED BY <1>5, <2>1, <2>3, <3>1, <3>2, <3>3
  <2> QED BY <2>2, <2>3
<1>9. (\A i \in DOMAIN chunks : SoundChunk(chunks[i]))'
  BY <1>7, <1>8
<1>10. PICK before, after : before = ChunkWindows /\ after = ChunkWindows'
  OBVIOUS
<1>11. \A bound \in 0..to : CoveredBy(after, bound)
  <2>1. CoveredBy(before, cursor) /\ TextOK
    BY <1>4, <1>10 DEF ChunkInv
  <2> QED BY <1>2, <1>5, <1>8, <1>10, <2>1, CoverExtends
<1>12. CoveredBy(ParentWindows, TextLength)'
  <2>1. ParentWindows' = ParentWindows /\ CoveredBy(ParentWindows, TextLength)
    BY <1>4 DEF ChunkInv, ParentWindows
  <2> QED BY <1>4, <1>7, <2>1 DEF CoveredBy
<1>13. parents' \in Seq(Window)
  BY <1>4 DEF ChunkInv
<1>14. CASE to >= TextLength
  <2>1. cursor' = 0 /\ layout' = "done" /\ to = TextLength
    BY <1>1, <1>5, <1>14 DEF CutChild, Slide
  <2>2. cursor' \in 0..(TextLength' - 1)
    BY <1>5, <1>7, <2>1
  <2>3. CoveredBy(after, TextLength)
    BY <1>5, <1>11, <2>1
  <2>4. CoveredBy(ChunkWindows, TextLength)'
    BY <1>4, <1>7, <1>10, <2>3 DEF CoveredBy
  <2> QED BY <1>7, <1>8, <1>9, <1>12, <1>13, <2>1, <2>2, <2>4 DEF ChunkInv
<1>15. CASE ~(to >= TextLength)
  <2>1. cursor' = NextStart(cursor, to, ChildOverlap) /\ layout' = "children"
    BY <1>1, <1>4, <1>5, <1>15 DEF CutChild, Slide
  <2>2. ChildOverlap \in Nat
    BY ChunkingAssumption DEF ChildOverlap
  <2>3. cursor' \in (cursor + 1)..to
    BY <1>5, <2>1, <2>2, NextBounds
  <2>4. cursor' \in 0..(TextLength' - 1) /\ cursor' \in 0..to
    BY <1>5, <1>7, <1>15, <2>3
  <2>5. CoveredBy(after, cursor')
    BY <1>11, <2>4
  <2>6. CoveredBy(ChunkWindows, cursor)'
    BY <1>4, <1>7, <1>10, <2>5 DEF CoveredBy
  <2>7. \A w \in ChunkWindows' : w.start < cursor'
    <3>1. \A w \in ChunkWindows' : w.start \in Nat
      BY <1>8, ChunkStarts DEF ChunkWindows
    <3> QED BY <1>5, <1>8, <2>3, <3>1
  <2> QED BY <1>7, <1>8, <1>9, <1>12, <1>13, <2>1, <2>4, <2>6, <2>7 DEF ChunkInv
<1> QED BY <1>14, <1>15

-----------------------------------------------------------------------------
(* Theorems.                                                               *)

LEMMA InitChunkInv == ChunkingInit => ChunkInv
<1> SUFFICES ASSUME ChunkingInit PROVE ChunkInv
  OBVIOUS
<1>1. PICK n \in 1..MaxText : text \in [0..(n - 1) -> Character] /\ Normalized(text, n)
  BY DEF ChunkingInit
<1>2. TextLength = n
  BY <1>1, LengthOfText
<1>3. TextOK
  BY <1>1, <1>2 DEF TextOK, Normalized
<1>4. cursor = 0 /\ layout = "parents" /\ parents = <<>> /\ chunks = <<>>
  BY DEF ChunkingInit
<1>5. CoveredBy(ParentWindows, 0)
  BY <1>3, ChunkingAssumption DEF CoveredBy, TextOK, Offsets
<1>6. cursor \in 0..(TextLength - 1)
  BY <1>1, <1>2, <1>4
<1> QED BY <1>3, <1>4, <1>5, <1>6 DEF ChunkInv, Advancing

LEMMA NextChunkInv == ChunkInv /\ [ChunkingNext]_chunkingVars => ChunkInv'
<1> SUFFICES ASSUME ChunkInv, [ChunkingNext]_chunkingVars PROVE ChunkInv'
  OBVIOUS
<1>1. CASE UNCHANGED chunkingVars
  <2>1. UNCHANGED <<text, layout, cursor, parents, chunks>>
    BY <1>1 DEF chunkingVars
  <2> QED BY <2>1 DEF ChunkInv, TextOK, TextLength, Offsets, CoveredBy, ParentWindows, ChunkWindows,
                      SoundChunk, Advancing
<1> QED BY <1>1, CutParentKeeps, CutChildKeeps, SMTT(30) DEF ChunkingNext

LEMMA ChunkTypes == ChunkInv => ChunkingTypeOK
<1> SUFFICES ASSUME ChunkInv PROVE ChunkingTypeOK
  OBVIOUS
<1>1. cursor \in 0..MaxText
  BY ChunkingAssumption DEF ChunkInv, TextOK
<1> QED BY <1>1 DEF ChunkInv, TextOK, ChunkingTypeOK

(* Every variable of the chunker keeps its type; in particular the cursor  *)
(* and all windows stay within the text.                                   *)
THEOREM ChunkingTypesHold == ChunkingSpec => []ChunkingTypeOK
BY InitChunkInv, NextChunkInv, ChunkTypes, PTL DEF ChunkingSpec

(* Nothing is lost to retrieval and every chunk has text in common with    *)
(* its context, for every text, window size and overlap.                   *)
THEOREM NothingIsLost == ChunkingSpec => []EveryCharacterIsRetrievable
<1>1. ASSUME ChunkInv PROVE EveryCharacterIsRetrievable
  <2> SUFFICES ASSUME layout = "done"
               PROVE  /\ \A p \in Offsets : text[p] \notin Blank =>
                           \E i \in DOMAIN chunks : Inside(p, chunks[i].window)
                      /\ \A i \in DOMAIN chunks : LET c == chunks[i] IN
                           /\ c.window.end - c.window.start <= ChildChars
                           /\ \A k \in 1..(i - 1) : chunks[k].window.start < c.window.start
                           /\ \E p \in Offsets : Inside(p, c.window) /\ Inside(p, c.parent)
    BY DEF EveryCharacterIsRetrievable
  <2>1. ASSUME NEW p \in Offsets, text[p] \notin Blank
        PROVE  \E i \in DOMAIN chunks : Inside(p, chunks[i].window)
    <3>1. p < TextLength
      BY <1>1, ChunkingAssumption DEF ChunkInv, TextOK, Offsets
    <3> QED BY <1>1, <2>1, <3>1 DEF ChunkInv, CoveredBy, ChunkWindows
  <2>2. ASSUME NEW i \in DOMAIN chunks
        PROVE  LET c == chunks[i] IN
               /\ c.window.end - c.window.start <= ChildChars
               /\ \A k \in 1..(i - 1) : chunks[k].window.start < c.window.start
               /\ \E p \in Offsets : Inside(p, c.window) /\ Inside(p, c.parent)
    BY <1>1 DEF ChunkInv, SoundChunk, Advancing
  <2> QED BY <2>1, <2>2
<1> QED BY <1>1, InitChunkInv, NextChunkInv, PTL DEF ChunkingSpec

-----------------------------------------------------------------------------
(* The artifact service.                                                   *)

Creation == [step : CreationStep, name : ArtifactName \cup {<<>>}, number : 1..MaxNumber]

ArtifactTypes ==
  /\ temporaries \subseteq ArtifactRequest
  /\ creation \in [ArtifactRequest -> Creation]
  /\ answeredFirst \in [ArtifactRequest -> SUBSET ArtifactRequest]

(* A file is that of a request that was answered, and every such request   *)
(* has left one; whoever is about to write has found its name free of the  *)
(* requests that were answered before it began.                            *)
FilesAreAnswered == \A path \in DOMAIN artifacts : artifacts[path] \in Created

AnsweredHaveFiles == \A r \in Created : PathOf(r) \in DOMAIN artifacts

EarlierAreAnswered == \A q \in ArtifactRequest : answeredFirst[q] \subseteq Created

NameWasFree ==
  \A q \in ArtifactRequest : creation[q].step \in {"open", "replace"} =>
    \A r \in answeredFirst[q] : PathOf(r) # PathOf(q)

NobodyOverwrites == \A r \in Created : r \notin answeredFirst[artifacts[PathOf(r)]]

ArtifactInv == /\ ArtifactTypes
               /\ FilesAreAnswered
               /\ AnsweredHaveFiles
               /\ EarlierAreAnswered
               /\ NameWasFree
               /\ NobodyOverwrites

LEMMA CreationMoves ==
  ASSUME ArtifactTypes, NEW q \in ArtifactRequest, NEW step \in CreationStep,
         CreationGoes(q, step)
  PROVE  /\ creation' \in [ArtifactRequest -> Creation]
         /\ creation'[q].step = step
         /\ creation'[q].name = creation[q].name /\ creation'[q].number = creation[q].number
         /\ \A r \in ArtifactRequest \ {q} : creation'[r] = creation[r]
<1>1. creation[q] \in Creation
  BY DEF ArtifactTypes
<1>2. creation' = [creation EXCEPT ![q] = [creation[q] EXCEPT !.step = step]]
  BY DEF CreationGoes
<1>3. [creation[q] EXCEPT !.step = step] \in Creation
  BY <1>1 DEF Creation
<1> QED BY <1>1, <1>2, <1>3 DEF ArtifactTypes, Creation

(* A request that does not finish leaves what is known of the others, if   *)
(* it has not just found its name free.                                    *)
LEMMA OthersKeep ==
  ASSUME ArtifactInv, NEW q \in ArtifactRequest, creation' \in [ArtifactRequest -> Creation],
         temporaries' \subseteq ArtifactRequest,
         \A r \in ArtifactRequest \ {q} : creation'[r] = creation[r],
         creation[q].step # "created", creation'[q].step # "created",
         UNCHANGED <<artifacts, answeredFirst>>,
         creation'[q].step \in {"open", "replace"} =>
           /\ PathOf(q)' = PathOf(q)
           /\ \A r \in answeredFirst[q] : PathOf(r) # PathOf(q)
  PROVE  ArtifactInv'
<1>1. Created' = Created /\ Created \subseteq ArtifactRequest /\ q \notin Created
  BY DEF Created
<1>2. \A r \in Created : PathOf(r)' = PathOf(r)
  BY <1>1 DEF PathOf
<1>3. ArtifactTypes' /\ FilesAreAnswered' /\ AnsweredHaveFiles' /\ EarlierAreAnswered'
      /\ NobodyOverwrites'
  BY <1>1, <1>2 DEF ArtifactInv, ArtifactTypes, FilesAreAnswered, AnsweredHaveFiles,
                    EarlierAreAnswered, NobodyOverwrites
<1>4. NameWasFree'
  <2> SUFFICES ASSUME NEW p \in ArtifactRequest, creation'[p].step \in {"open", "replace"},
                      NEW r \in answeredFirst[p]
               PROVE  PathOf(r)' # PathOf(p)'
    BY DEF NameWasFree
  <2>1. r \in Created
    BY DEF ArtifactInv, EarlierAreAnswered
  <2>2. PathOf(r)' = PathOf(r)
    BY <1>2, <2>1
  <2>3. CASE p = q
    BY <2>2, <2>3
  <2>4. CASE p # q
    <3>1. creation'[p] = creation[p] /\ PathOf(p)' = PathOf(p)
      BY <2>4 DEF PathOf
    <3> QED BY <2>2, <3>1 DEF ArtifactInv, NameWasFree
  <2> QED BY <2>3, <2>4
<1> QED BY <1>3, <1>4 DEF ArtifactInv

LEMMA BeginKeeps ==
  ASSUME ArtifactInv, NEW q \in ArtifactRequest, NEW name \in ArtifactName,
         BeginArtifact(q, name)
  PROVE  ArtifactInv'
<1> DEFINE new == [step |-> "probe", name |-> name, number |-> 1]
<1>1. /\ creation' = [creation EXCEPT ![q] = new]
      /\ answeredFirst' = [answeredFirst EXCEPT ![q] = Created]
      /\ artifacts' = artifacts /\ temporaries' = temporaries
      /\ creation[q].step = "idle"
  BY DEF BeginArtifact
<1>2. new \in Creation /\ new.step = "probe"
  BY ArtifactAssumption DEF Creation, CreationStep
<1> HIDE DEF new
<1>3. /\ creation' \in [ArtifactRequest -> Creation]
      /\ creation'[q].step = "probe"
      /\ \A r \in ArtifactRequest \ {q} : creation'[r] = creation[r]
  BY <1>1, <1>2 DEF ArtifactInv, ArtifactTypes
<1>4. Created' = Created /\ Created \subseteq ArtifactRequest /\ q \notin Created
  BY <1>1, <1>3 DEF Created
<1>5. \A r \in Created : PathOf(r)' = PathOf(r)
  BY <1>3, <1>4 DEF PathOf
<1>6. /\ answeredFirst' \in [ArtifactRequest -> SUBSET ArtifactRequest]
      /\ answeredFirst'[q] = Created
      /\ \A r \in ArtifactRequest \ {q} : answeredFirst'[r] = answeredFirst[r]
  BY <1>1, <1>4 DEF ArtifactInv, ArtifactTypes
<1>7. ArtifactTypes' /\ FilesAreAnswered' /\ AnsweredHaveFiles' /\ EarlierAreAnswered'
  <2>1. EarlierAreAnswered'
    BY <1>4, <1>6 DEF ArtifactInv, EarlierAreAnswered
  <2> QED BY <1>1, <1>3, <1>4, <1>5, <1>6, <2>1
          DEF ArtifactInv, ArtifactTypes, FilesAreAnswered, AnsweredHaveFiles
<1>8. NobodyOverwrites'
  <2> SUFFICES ASSUME NEW r \in Created PROVE r \notin answeredFirst'[artifacts[PathOf(r)]]
    BY <1>1, <1>4, <1>5 DEF NobodyOverwrites
  <2>1. artifacts[PathOf(r)] \in ArtifactRequest \ {q}
    BY <1>4 DEF ArtifactInv, FilesAreAnswered, AnsweredHaveFiles
  <2> QED BY <1>6, <2>1 DEF ArtifactInv, NobodyOverwrites
<1>9. NameWasFree'
  <2> SUFFICES ASSUME NEW p \in ArtifactRequest \ {q}, creation'[p].step \in {"open", "replace"},
                      NEW r \in answeredFirst[p]
               PROVE  PathOf(r)' # PathOf(p)'
    BY <1>3, <1>6 DEF NameWasFree
  <2>1. r \in Created
    BY DEF ArtifactInv, EarlierAreAnswered
  <2>2. creation'[p] = creation[p] /\ PathOf(p)' = PathOf(p)
    BY <1>3 DEF PathOf
  <2> QED BY <1>5, <2>1, <2>2 DEF ArtifactInv, NameWasFree
<1> QED BY <1>7, <1>8, <1>9 DEF ArtifactInv

LEMMA ProbeKeeps ==
  ASSUME ArtifactInv, NEW q \in ArtifactRequest, ProbePath(q)
  PROVE  ArtifactInv'
<1>1. /\ creation[q].step = "probe"
      /\ artifacts' = artifacts /\ temporaries' = temporaries /\ answeredFirst' = answeredFirst
  BY DEF ProbePath
<1>2. ArtifactTypes /\ temporaries' \subseteq ArtifactRequest
  BY <1>1 DEF ArtifactInv, ArtifactTypes
<1>3. CASE ~Taken(PathOf(q)) /\ CreationGoes(q, "open")
  <2>1. PathOf(q)' = PathOf(q)
    BY <1>2, <1>3, CreationMoves DEF CreationStep, PathOf
  <2>2. \A r \in answeredFirst[q] : PathOf(r) # PathOf(q)
    BY <1>3 DEF Taken, ArtifactInv, EarlierAreAnswered, AnsweredHaveFiles
  <2> QED BY <1>1, <1>2, <1>3, <2>1, <2>2, CreationMoves, OthersKeep DEF CreationStep
<1>4. CASE /\ creation[q].number < MaxNumber
           /\ creation' = [creation EXCEPT ![q].number = @ + 1]
  <2>1. creation[q] \in Creation
    BY <1>2 DEF ArtifactTypes
  <2>2. creation' = [creation EXCEPT ![q] = [creation[q] EXCEPT !.number = creation[q].number + 1]]
    BY <1>4
  <2>3. creation[q].number + 1 \in 1..MaxNumber
    BY <1>4, <2>1, ArtifactAssumption DEF Creation
  <2>4. [creation[q] EXCEPT !.number = creation[q].number + 1] \in Creation
    BY <2>1, <2>3 DEF Creation
  <2>5. /\ creation' \in [ArtifactRequest -> Creation]
        /\ creation'[q].step = "probe"
        /\ \A r \in ArtifactRequest \ {q} : creation'[r] = creation[r]
    BY <1>1, <1>2, <2>1, <2>2, <2>4 DEF ArtifactTypes, Creation
  <2> QED BY <1>1, <1>2, <2>5, OthersKeep
<1>5. CASE CreationGoes(q, "failed")
  BY <1>1, <1>2, <1>5, CreationMoves, OthersKeep DEF CreationStep
<1> QED BY <1>3, <1>4, <1>5 DEF ProbePath

LEMMA RenderingKeeps ==
  ASSUME ArtifactInv, NEW q \in ArtifactRequest,
         OpenTemporary(q) \/ RenderFails(q) \/ LoseCreation(q)
  PROVE  ArtifactInv'
<1>1. ArtifactTypes
  BY DEF ArtifactInv
<1>2. /\ creation[q].step \in {"probe", "open", "replace"}
      /\ artifacts' = artifacts /\ answeredFirst' = answeredFirst
      /\ temporaries' \subseteq ArtifactRequest
  BY <1>1 DEF OpenTemporary, RenderFails, LoseCreation, ArtifactTypes
<1>3. \/ CreationGoes(q, "failed") \/ CreationGoes(q, "lost")
      \/ creation[q].step = "open" /\ CreationGoes(q, "replace")
  BY DEF OpenTemporary, RenderFails, LoseCreation
<1>4. CASE CreationGoes(q, "failed") \/ CreationGoes(q, "lost")
  BY <1>1, <1>2, <1>4, CreationMoves, OthersKeep DEF CreationStep
<1>5. CASE creation[q].step = "open" /\ CreationGoes(q, "replace")
  <2>1. PathOf(q)' = PathOf(q)
    BY <1>1, <1>5, CreationMoves DEF CreationStep, PathOf
  <2>2. \A r \in answeredFirst[q] : PathOf(r) # PathOf(q)
    BY <1>5 DEF ArtifactInv, NameWasFree
  <2> QED BY <1>1, <1>2, <1>5, <2>1, <2>2, CreationMoves, OthersKeep DEF CreationStep
<1> QED BY <1>3, <1>4, <1>5

LEMMA ReplaceKeeps ==
  ASSUME ArtifactInv, NEW q \in ArtifactRequest, ReplaceTarget(q)
  PROVE  ArtifactInv'
<1>t. ArtifactTypes
  BY DEF ArtifactInv
<1>1. /\ creation[q].step = "replace" /\ CreationGoes(q, "created")
      /\ artifacts' = [path \in DOMAIN artifacts \cup {PathOf(q)} |->
                         IF path = PathOf(q) THEN q ELSE artifacts[path]]
      /\ temporaries' = temporaries \ {q} /\ answeredFirst' = answeredFirst
  BY DEF ReplaceTarget
<1>2. /\ creation' \in [ArtifactRequest -> Creation]
      /\ creation'[q].step = "created"
      /\ creation'[q].name = creation[q].name /\ creation'[q].number = creation[q].number
      /\ \A r \in ArtifactRequest \ {q} : creation'[r] = creation[r]
  BY <1>t, <1>1, CreationMoves DEF CreationStep
<1>3. Created' = Created \cup {q} /\ Created \subseteq ArtifactRequest /\ q \notin Created
  BY <1>1, <1>2 DEF Created
<1>4. \A r \in ArtifactRequest : PathOf(r)' = PathOf(r)
  BY <1>2 DEF PathOf
<1>p. PICK path : path = PathOf(q)
  OBVIOUS
<1>5. /\ DOMAIN artifacts' = DOMAIN artifacts \cup {path}
      /\ artifacts'[path] = q
      /\ \A other \in DOMAIN artifacts \ {path} : artifacts'[other] = artifacts[other]
  BY <1>1, <1>p
<1>6. ArtifactTypes'
  BY <1>t, <1>1, <1>2 DEF ArtifactTypes
<1>7. FilesAreAnswered'
  BY <1>3, <1>5 DEF ArtifactInv, FilesAreAnswered
<1>8. AnsweredHaveFiles'
  BY <1>p, <1>3, <1>4, <1>5 DEF ArtifactInv, AnsweredHaveFiles
<1>9. EarlierAreAnswered'
  BY <1>1, <1>3 DEF ArtifactInv, EarlierAreAnswered
<1>10. NameWasFree'
  <2> SUFFICES ASSUME NEW p \in ArtifactRequest, creation'[p].step \in {"open", "replace"},
                      NEW r \in answeredFirst[p]
               PROVE  PathOf(r)' # PathOf(p)'
    BY <1>1 DEF NameWasFree
  <2>1. r \in ArtifactRequest /\ creation'[p] = creation[p]
    BY <1>2, <1>3 DEF ArtifactInv, EarlierAreAnswered
  <2> QED BY <1>4, <2>1 DEF ArtifactInv, NameWasFree
<1>11. NobodyOverwrites'
  <2> SUFFICES ASSUME NEW r \in Created \cup {q}
               PROVE  r \notin answeredFirst[artifacts'[PathOf(r)]]
    BY <1>1, <1>3, <1>4 DEF NobodyOverwrites
  <2>1. CASE PathOf(r) = path
    <3>1. artifacts'[PathOf(r)] = q
      BY <1>5, <2>1
    <3>2. r # q => r \notin answeredFirst[q]
      BY <1>1, <1>p, <2>1 DEF ArtifactInv, NameWasFree
    <3>3. q \notin answeredFirst[q]
      BY <1>3 DEF ArtifactInv, EarlierAreAnswered
    <3> QED BY <3>1, <3>2, <3>3
  <2>2. CASE PathOf(r) # path
    <3>1. r \in Created /\ PathOf(r) \in DOMAIN artifacts \ {path}
      BY <1>p, <2>2 DEF ArtifactInv, AnsweredHaveFiles
    <3> QED BY <1>5, <3>1 DEF ArtifactInv, NobodyOverwrites
  <2> QED BY <2>1, <2>2
<1> QED BY <1>6, <1>7, <1>8, <1>9, <1>10, <1>11 DEF ArtifactInv

LEMMA InitArtifactInv == ArtifactInit => ArtifactInv
<1> SUFFICES ASSUME ArtifactInit PROVE ArtifactInv
  OBVIOUS
<1>1. [step |-> "idle", name |-> <<>>, number |-> 1] \in Creation
  BY ArtifactAssumption DEF Creation, CreationStep
<1>2. creation \in [ArtifactRequest -> Creation] /\ Created = {}
  BY <1>1 DEF ArtifactInit, Created
<1> QED BY <1>2 DEF ArtifactInit, ArtifactInv, ArtifactTypes, FilesAreAnswered,
                    AnsweredHaveFiles, EarlierAreAnswered, NameWasFree, NobodyOverwrites

LEMMA NextArtifactInv == ArtifactInv /\ [ArtifactNext]_artifactVars => ArtifactInv'
<1> SUFFICES ASSUME ArtifactInv, [ArtifactNext]_artifactVars PROVE ArtifactInv'
  OBVIOUS
<1>1. CASE UNCHANGED artifactVars
  BY <1>1 DEF artifactVars, ArtifactInv, ArtifactTypes, FilesAreAnswered, AnsweredHaveFiles,
              EarlierAreAnswered, NameWasFree, NobodyOverwrites, Created, PathOf
<1> QED BY <1>1, BeginKeeps, ProbeKeeps, RenderingKeeps, ReplaceKeeps DEF ArtifactNext

LEMMA ArtifactInvInductive == ArtifactSpec => []ArtifactInv
BY InitArtifactInv, NextArtifactInv, PTL DEF ArtifactSpec

(* Every variable of the artifact service keeps its type.                  *)
THEOREM ArtifactTypesHold == ArtifactSpec => []ArtifactTypeOK
<1>1. ArtifactInv => ArtifactTypeOK
  BY DEF ArtifactInv, ArtifactTypes, FilesAreAnswered, Created, Creation, ArtifactTypeOK
<1> QED BY <1>1, ArtifactInvInductive, PTL

(* A request never writes over an artifact that was reported before it     *)
(* began: _unique_path found its name free after that.                     *)
THEOREM ArtifactsStay == ArtifactSpec => []ArtifactsAreKept
<1>1. ArtifactInv => ArtifactsAreKept
  BY DEF ArtifactInv, AnsweredHaveFiles, NobodyOverwrites, ArtifactsAreKept
<1> QED BY <1>1, ArtifactInvInductive, PTL

-----------------------------------------------------------------------------
(* The five parts together.                                                *)

(* A behaviour of the administration side is one of each of its parts,     *)
(* since a step of one leaves the others alone; so whatever is shown of a  *)
(* part above holds in it.                                                 *)
THEOREM AdminImplementsParts ==
  AdminSpec => GateSpec /\ RetentionSpec /\ GraphSpec /\ ChunkingSpec /\ ArtifactSpec
<1>1. AdminInit => GateInit /\ RetentionInit /\ GraphInit /\ ChunkingInit /\ ArtifactInit
  <2>1. ASSUME ShortTextInit PROVE ChunkingInit
    <3>1. text \in [0..(1 - 1) -> Character] /\ text[0] = "letter"
      BY <2>1 DEF ShortTextInit, Character
    <3>2. Normalized(text, 1)
      BY <3>1 DEF Normalized, Blank
    <3>3. 1 \in 1..MaxText
      BY ChunkingAssumption
    <3> QED BY <2>1, <3>1, <3>2, <3>3 DEF ShortTextInit, ChunkingInit
  <2> QED BY <2>1 DEF AdminInit
<1>2. [AdminNext]_adminVars =>
        /\ [GateNext]_gateVars /\ [RetentionNext]_retentionVars /\ [GraphNext]_graphVars
        /\ [ChunkingNext]_chunkingVars /\ [ArtifactNext]_artifactVars
  BY DEF AdminNext, adminVars
<1> QED BY <1>1, <1>2, PTL
        DEF AdminSpec, GateSpec, RetentionSpec, GraphSpec, ChunkingSpec, ArtifactSpec

(* The parts of the administration side keep their types in it.            *)
THEOREM AdminTypesHold == AdminSpec => []AdminTypeOK
<1>1. GateTypeOK /\ RetentionTypeOK /\ GraphTypeOK /\ ChunkingTypeOK /\ ArtifactTypeOK
      => AdminTypeOK
  BY DEF AdminTypeOK
<1> QED BY <1>1, AdminImplementsParts, GateTypesHold, RetentionTypesHold, GraphTypesHold,
           ChunkingTypesHold, ArtifactTypesHold, PTL
=============================================================================
