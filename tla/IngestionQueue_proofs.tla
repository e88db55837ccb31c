------------------------ MODULE IngestionQueue_proofs ------------------------
(***************************************************************************)
(* Theorems of IngestionQueue, for any jobs, workers and attempt limit.    *)
(* The ones about exclusive execution assume Timely: without it the model  *)
(* checker exhibits two workers executing one job.                         *)
(***************************************************************************)
EXTENDS IngestionQueue, TLAPS

(* A worker holds a job exactly while it executes the job or writes its    *)
(* audit event, the latter for the jobs in Audited alone.                  *)
BusyHolds == \A w \in Worker : /\ phase[w] \in {"busy", "audit"} <=> held[w] # NoJob
                               /\ phase[w] = "audit" => held[w] \in Audited

TInv == TypeOK /\ BusyHolds

-----------------------------------------------------------------------------
(* What the row transactions write is a row.                               *)

LEMMA WriteType ==
  ASSUME TypeOK, NEW j \in Job, NEW row \in Row, Write(j, row)
  PROVE  job' \in [Job -> Row]
BY DEF TypeOK, Write

LEMMA NoRowType == NoRow \in Row
BY QueueAssumption DEF NoRow, Row, JobStatus

LEMMA QueuedType ==
  ASSUME NEW row \in Row, NEW n \in Nat
  PROVE  [row EXCEPT !.status = "queued", !.id = n] \in Row
BY DEF Row, JobStatus

LEMMA ClaimedType ==
  ASSUME NEW row \in Row, row.attempts < MaxAttempts, NEW w \in Worker
  PROVE  [row EXCEPT !.status = "running", !.attempts = @ + 1,
                     !.lockedBy = w, !.heartbeat = "fresh"] \in Row
<1> DEFINE n == row.attempts + 1
<1>1. n \in 0..MaxAttempts
  BY QueueAssumption DEF Row
<1>2. [row EXCEPT !.status = "running", !.attempts = n,
                  !.lockedBy = w, !.heartbeat = "fresh"] \in Row
  <2> HIDE DEF n
  <2> QED BY <1>1 DEF Row, JobStatus
<1> QED BY <1>2

LEMMA SucceededType ==
  ASSUME NEW row \in Row
  PROVE  [row EXCEPT !.status = "succeeded", !.lockedBy = NoWorker,
                     !.heartbeat = "fresh"] \in Row
BY DEF Row, JobStatus

LEMMA DelayedType ==
  ASSUME NEW row \in Row, NEW d \in BOOLEAN
  PROVE  [row EXCEPT !.delayed = d] \in Row
BY DEF Row

LEMMA FirstAttemptType ==
  ASSUME NEW row \in Row
  PROVE  [row EXCEPT !.attempts = 0] \in Row
BY QueueAssumption DEF Row

LEMMA ReleasedType ==
  ASSUME NEW row \in Row, NEW status \in JobStatus
  PROVE  /\ Released(row, status) \in Row
         /\ Released(row, status).status = status
         /\ Released(row, status).attempts = row.attempts
         /\ Released(row, status).lockedBy = NoWorker
         /\ Released(row, status).heartbeat = "none"
BY DEF Released, Row

LEMMA EnqueueType ==
  ASSUME TypeOK, NEW j \in Job, Enqueue(j)
  PROVE  job' \in [Job -> Row] /\ inserted' \in Nat
<1>1. ASSUME NEW n \in Nat,
             Write(j, [NoRow EXCEPT !.status = "queued", !.id = n])
      PROVE  job' \in [Job -> Row]
  BY <1>1, NoRowType, QueuedType DEF Write, TypeOK
<1>2. job[j].id \in Nat /\ inserted \in Nat /\ inserted + 1 \in Nat
  BY DEF TypeOK, Row
<1> QED BY <1>1, <1>2 DEF Enqueue

LEMMA ClaimType ==
  ASSUME TypeOK, NEW j \in Job, NEW w \in Worker, Claim(w, j)
  PROVE  job' \in [Job -> Row]
<1>1. job[j] \in Row /\ job[j].attempts < MaxAttempts
  BY DEF Claim, Claimable, TypeOK
<1> QED BY <1>1, ClaimedType DEF Claim, Write, TypeOK

LEMMA HeartbeatType ==
  ASSUME TypeOK, NEW j \in Job, NEW w \in Worker, Heartbeat(w, j)
  PROVE  job' \in [Job -> Row]
BY DEF Heartbeat, Write, TypeOK, Row

LEMMA CompleteType ==
  ASSUME TypeOK, NEW j \in Job, NEW w \in Worker, Complete(w, j)
  PROVE  job' \in [Job -> Row]
BY SucceededType DEF Complete, Write, TypeOK

LEMMA FailJobType ==
  ASSUME TypeOK, NEW j \in Job, NEW retryable \in BOOLEAN, FailJob(j, retryable)
  PROVE  job' \in [Job -> Row]
<1> DEFINE new == IF CanRetry(j, retryable) THEN "queued" ELSE "failed"
<1>1. job[j] \in Row /\ new \in JobStatus /\ CanRetry(j, retryable) \in BOOLEAN
  BY DEF TypeOK, JobStatus, CanRetry
<1>2. Released(job[j], new) \in Row
  BY <1>1, ReleasedType
<1>3. [Released(job[j], new) EXCEPT !.delayed = CanRetry(j, retryable)] \in Row
  BY <1>1, <1>2, DelayedType
<1> QED BY <1>3 DEF FailJob, Write, TypeOK

LEMMA ReclaimType ==
  ASSUME TypeOK, ReclaimStale
  PROVE  job' \in [Job -> Row]
<1>1. ASSUME NEW j \in Job
      PROVE  Reclaimed(j) \in Row
  BY ReleasedType DEF Reclaimed, TypeOK, JobStatus
<1> QED BY <1>1 DEF ReclaimStale, TypeOK

LEMMA RetryType ==
  ASSUME TypeOK, NEW j \in Job, Retry(j)
  PROVE  job' \in [Job -> Row]
<1>1. Released(job[j], "queued") \in Row
  BY ReleasedType DEF TypeOK, JobStatus
<1>2. [Released(job[j], "queued") EXCEPT !.attempts = 0] \in Row
  BY <1>1, FirstAttemptType
<1> QED BY <1>2 DEF Retry, Write, TypeOK

LEMMA CancelType ==
  ASSUME TypeOK, NEW j \in Job, Cancel(j)
  PROVE  job' \in [Job -> Row]
BY DEF Cancel, Write, TypeOK, Row, JobStatus

-----------------------------------------------------------------------------
(* Type correctness.                                                       *)

LEMMA LeaveType ==
  ASSUME TInv, NEW w \in Worker, Leave(w), job' \in [Job -> Row]
  PROVE  TInv'
BY QueueAssumption DEF TInv, TypeOK, BusyHolds, Leave

LEMMA InitTInv == Init => TInv
BY QueueAssumption DEF Init, NoRow, Row, JobStatus, TInv, TypeOK, BusyHolds

LEMMA NextTInv == TInv /\ [Next]_vars => TInv'
<1> SUFFICES ASSUME TInv, [Next]_vars PROVE TInv'
  OBVIOUS
<1> USE DEF TInv
<1>1. CASE Admin
  <2>1. requeues' \in 0..MaxRequeues
    BY <1>1, QueueAssumption DEF Admin, TypeOK
  <2>2. job' \in [Job -> Row] /\ inserted' \in Nat
    BY <1>1, EnqueueType, RetryType, CancelType DEF Admin, TypeOK
  <2> QED BY <1>1, <2>1, <2>2 DEF Admin, TypeOK, BusyHolds
<1>2. ASSUME NEW w \in Worker, WorkerStep(w)
      PROVE  TInv'
  <2>1. CASE Poll(w)
    BY <2>1, ReclaimType, QueueAssumption DEF Poll, TypeOK, BusyHolds
  <2>2. CASE Start(w)
    <3>1. PICK j \in Job : Claim(w, j) /\ held' = [held EXCEPT ![w] = j]
      BY <2>2 DEF Start
    <3>2. job' \in [Job -> Row]
      BY <3>1, ClaimType
    <3> QED BY <2>2, <3>1, <3>2, QueueAssumption DEF Start, TypeOK, BusyHolds
  <2>3. CASE NothingToDo(w)
    BY <2>3 DEF NothingToDo, TypeOK, BusyHolds
  <2>4. CASE Beat(w)
    <3>1. held[w] \in Job
      BY <2>4 DEF Beat, TypeOK, BusyHolds
    <3> QED BY <2>4, <3>1, HeartbeatType DEF Beat, TypeOK, BusyHolds
  <2>5. CASE Succeed(w)
    <3>1. held[w] \in Job
      BY <2>5 DEF Succeed, TypeOK, BusyHolds
    <3>2. job' \in [Job -> Row]
      BY <2>5, <3>1, CompleteType DEF Succeed
    <3>3. CASE held[w] \in Audited
      BY <2>5, <3>2, <3>3 DEF Succeed, TypeOK, BusyHolds
    <3>4. CASE held[w] \notin Audited
      BY <2>5, <3>2, <3>4, LeaveType DEF Succeed
    <3> QED BY <3>3, <3>4
  <2>6. CASE AuditWritten(w)
    BY <2>6, LeaveType DEF AuditWritten, TypeOK
  <2>7. CASE Fail(w)
    <3>1. held[w] \in Job
      BY <2>7 DEF Fail, TypeOK, BusyHolds
    <3> QED BY <2>7, <3>1, FailJobType, LeaveType DEF Fail
  <2>8. CASE Crash(w)
    BY <2>8, LeaveType DEF Crash, TypeOK
  <2> QED BY <1>2, <2>1, <2>2, <2>3, <2>4, <2>5, <2>6, <2>7, <2>8 DEF WorkerStep
<1>3. ASSUME NEW j \in Job, HeartbeatExpires(j)
      PROVE  TInv'
  BY <1>3 DEF HeartbeatExpires, Write, TypeOK, BusyHolds, Row
<1>4. ASSUME NEW j \in Job, BackoffElapses(j)
      PROVE  TInv'
  BY <1>4, ZenonT(60) DEF BackoffElapses, Write, TypeOK, BusyHolds, Row
<1>5. CASE UNCHANGED vars
  BY <1>5 DEF vars, TypeOK, BusyHolds
<1> QED BY <1>1, <1>2, <1>3, <1>4, <1>5 DEF Next

LEMMA TInvariant == Spec => []TInv
BY InitTInv, NextTInv, PTL DEF Spec

(* Every row keeps its type; in particular no row is ever tried more than  *)
(* max_attempts times since it was queued.                                 *)
THEOREM TypeCorrect == Spec => []TypeOK
<1>1. TInv => TypeOK
  BY DEF TInv
<1> QED BY <1>1, TInvariant, PTL

-----------------------------------------------------------------------------
(* No row is stuck.                                                        *)

RowOK(row) == /\ row.status = "queued" => row.attempts < MaxAttempts
              /\ row.status = "running" => /\ row.lockedBy # NoWorker
                                           /\ row.heartbeat # "none"

LEMMA WriteRowOK ==
  ASSUME TypeOK, NoRowIsStuck, NEW j \in Job, NEW row \in Row, RowOK(row),
         Write(j, row)
  PROVE  NoRowIsStuck'
BY DEF TypeOK, NoRowIsStuck, RowOK, Write

LEMMA NextNoRowIsStuck == TInv /\ NoRowIsStuck /\ [Next]_vars => NoRowIsStuck'
<1> SUFFICES ASSUME TypeOK, BusyHolds, NoRowIsStuck, [Next]_vars PROVE NoRowIsStuck'
  BY DEF TInv
<1> USE QueueAssumption
<1>1. CASE Admin
  <2>1. ASSUME NEW j \in Job, Enqueue(j) PROVE NoRowIsStuck'
    <3>1. ASSUME NEW n \in Nat,
                 Write(j, [NoRow EXCEPT !.status = "queued", !.id = n])
          PROVE  NoRowIsStuck'
      BY <3>1 DEF Write, NoRow, NoRowIsStuck, TypeOK
    <3>2. job[j].id \in Nat /\ inserted + 1 \in Nat
      BY DEF TypeOK, Row
    <3> QED BY <2>1, <3>1, <3>2 DEF Enqueue
  <2>2. ASSUME NEW j \in Job, Retry(j) PROVE NoRowIsStuck'
    BY <2>2 DEF Retry, Released, Write, NoRowIsStuck, TypeOK, Row
  <2>3. ASSUME NEW j \in Job, Cancel(j) PROVE NoRowIsStuck'
    BY <2>3 DEF Cancel, Write, NoRowIsStuck, TypeOK, Row
  <2> QED BY <1>1, <2>1, <2>2, <2>3 DEF Admin
<1>2. ASSUME NEW w \in Worker, WorkerStep(w)
      PROVE  NoRowIsStuck'
  <2>1. CASE Poll(w)
    <3>1. ASSUME NEW j \in Job
          PROVE  RowOK(job'[j])
      <4>1. /\ job[j] \in Row
            /\ job'[j] = IF Stale(j) THEN Reclaimed(j) ELSE job[j]
        BY <2>1 DEF Poll, ReclaimStale, TypeOK
      <4>2. Reclaimed(j).status = "queued" => Reclaimed(j).attempts < MaxAttempts
        BY <4>1, ReleasedType DEF Reclaimed, JobStatus
      <4>3. Reclaimed(j).status # "running"
        BY <4>1, ReleasedType DEF Reclaimed, JobStatus
      <4>4. RowOK(job[j])
        BY DEF NoRowIsStuck, RowOK
      <4> QED BY <4>1, <4>2, <4>3, <4>4 DEF RowOK
    <3> QED BY <3>1 DEF NoRowIsStuck, RowOK
  <2>2. CASE Start(w)
    BY <2>2 DEF Start, Claim, Claimable, Write, NoRowIsStuck, TypeOK, Row
  <2>3. CASE NothingToDo(w)
    BY <2>3 DEF NothingToDo, NoRowIsStuck
  <2>4. CASE Beat(w)
    BY <2>4 DEF Beat, Heartbeat, Owns, Write, NoRowIsStuck, TypeOK, BusyHolds, Row
  <2>5. CASE Succeed(w)
    <3>1. held[w] \in Job
      BY <2>5 DEF Succeed, TypeOK, BusyHolds
    <3>2. CASE Owns(w, held[w])
      <4>1. job' = [job EXCEPT ![held[w]] =
                     [@ EXCEPT !.status = "succeeded", !.lockedBy = NoWorker,
                               !.heartbeat = "fresh"]]
        BY <2>5, <3>2 DEF Succeed, Complete, Write
      <4>2. job'[held[w]].status = "succeeded"
        BY <3>1, <4>1 DEF TypeOK, Row
      <4>3. \A i \in Job \ {held[w]} : job'[i] = job[i]
        BY <4>1 DEF TypeOK
      <4> QED BY <4>2, <4>3 DEF NoRowIsStuck
    <3>3. CASE ~Owns(w, held[w])
      BY <2>5, <3>3 DEF Succeed, Complete, NoRowIsStuck
    <3> QED BY <3>2, <3>3
  <2>6. CASE AuditWritten(w)
    BY <2>6 DEF AuditWritten, NoRowIsStuck
  <2>7. CASE Fail(w)
    BY <2>7 DEF Fail, FailJob, CanRetry, Released, Write, NoRowIsStuck,
                TypeOK, BusyHolds, Row
  <2>8. CASE Crash(w)
    BY <2>8 DEF Crash, NoRowIsStuck
  <2> QED BY <1>2, <2>1, <2>2, <2>3, <2>4, <2>5, <2>6, <2>7, <2>8 DEF WorkerStep
<1>3. ASSUME NEW j \in Job, HeartbeatExpires(j) \/ BackoffElapses(j)
      PROVE  NoRowIsStuck'
  BY <1>3 DEF HeartbeatExpires, BackoffElapses, Write, NoRowIsStuck, TypeOK, Row
<1>4. CASE UNCHANGED vars
  BY <1>4 DEF vars, NoRowIsStuck
<1> QED BY <1>1, <1>2, <1>3, <1>4 DEF Next

(* Crashes, late failures and reclaims never leave a row that neither a    *)
(* claim nor the reclaimer would ever pick up, timely workers or not.      *)
THEOREM NeverStuck == Spec => []NoRowIsStuck
<1>1. Init => NoRowIsStuck
  <2>1. NoRow.status # "queued" /\ NoRow.status # "running"
    BY DEF NoRow
  <2> QED BY <2>1 DEF Init, NoRowIsStuck
<1> QED BY <1>1, NextNoRowIsStuck, TInvariant, PTL DEF Spec

-----------------------------------------------------------------------------
(* Exclusive execution.                                                    *)

(* An import or reindex job, or any job until an administrator queues one  *)
(* again, who may do so while its audit event is being written.            *)
Settled(j) == j \in Audited => requeues = 0

(* Exclusion is not inductive by itself: it holds because the worker that  *)
(* executes a job owns its row, and nothing but that worker takes a row    *)
(* away from its owner while its heartbeat is fresh ...                    *)
ExecutorOwns == \A w \in Worker : phase[w] = "busy" /\ Settled(held[w]) =>
                  /\ Owns(w, held[w])
                  /\ job[held[w]].heartbeat = "fresh"

(* ... and because the worker that writes the audit event of a job is the  *)
(* only one that holds it, over a row that has succeeded.                  *)
AuditorIsAlone == requeues = 0 => \A w \in Worker : phase[w] = "audit" =>
                    /\ job[held[w]].status = "succeeded"
                    /\ \A v \in Worker : held[v] = held[w] => v = w

HolderOwns == ExecutorOwns /\ AuditorIsAlone

(* A worker that has just left its job, having written no row but its own. *)
LEMMA LeaveHolderOwns ==
  ASSUME TypeOK, BusyHolds, HolderOwns, NEW w \in Worker, Leave(w),
         phase[w] \in {"busy", "audit"},
         \A i \in Job \ {held[w]} : job'[i] = job[i]
  PROVE  HolderOwns'
<1> USE QueueAssumption
<1>1. /\ requeues' = requeues
      /\ held[w] \in Job /\ phase'[w] = "idle" /\ held'[w] = NoJob
      /\ \A v \in Worker \ {w} : phase'[v] = phase[v] /\ held'[v] = held[v]
  BY DEF Leave, TypeOK, BusyHolds
<1>2. ASSUME NEW v \in Worker, v # w, phase[v] = "busy", Settled(held[v])
      PROVE  held[v] # held[w]
  <2>1. CASE phase[w] = "busy"
    BY <1>2, <2>1 DEF HolderOwns, ExecutorOwns, Owns
  <2>2. CASE phase[w] = "audit"
    <3>1. held[v] = held[w] => requeues = 0
      BY <1>2, <2>2 DEF Settled, BusyHolds
    <3> QED BY <1>2, <2>2, <3>1 DEF HolderOwns, AuditorIsAlone
  <2> QED BY <2>1, <2>2
<1>3. ExecutorOwns'
  <2> SUFFICES ASSUME NEW v \in Worker, phase'[v] = "busy", Settled(held[v])
      PROVE    /\ (Owns(v, held[v]))'
               /\ job'[held'[v]].heartbeat = "fresh"
    BY <1>1 DEF ExecutorOwns, Settled
  <2>1. v # w /\ phase[v] = "busy" /\ held'[v] = held[v]
    BY <1>1
  <2>2. held[v] \in Job \ {held[w]}
    BY <1>2, <2>1 DEF TypeOK, BusyHolds
  <2> QED BY <2>1, <2>2 DEF HolderOwns, ExecutorOwns, Owns
<1>4. AuditorIsAlone'
  <2> SUFFICES ASSUME requeues = 0, NEW v \in Worker, phase'[v] = "audit"
      PROVE    /\ job'[held'[v]].status = "succeeded"
               /\ \A u \in Worker : held'[u] = held'[v] => u = v
    BY <1>1 DEF AuditorIsAlone
  <2>1. v # w /\ phase[v] = "audit" /\ held'[v] = held[v]
    BY <1>1
  <2>2. held[v] \in Job /\ \A u \in Worker : held[u] = held[v] => u = v
    BY <2>1 DEF HolderOwns, AuditorIsAlone, TypeOK, BusyHolds
  <2>3. job'[held[v]] = job[held[v]]
    BY <2>1, <2>2
  <2>4. \A u \in Worker : held'[u] = held[v] => u = v
    BY <1>1, <2>2
  <2> QED BY <2>1, <2>3, <2>4 DEF HolderOwns, AuditorIsAlone
<1> QED BY <1>3, <1>4 DEF HolderOwns

LEMMA SucceedHolderOwns ==
  ASSUME TypeOK, BusyHolds, HolderOwns, NEW w \in Worker, Succeed(w)
  PROVE  HolderOwns'
<1>1. /\ phase[w] = "busy" /\ held[w] \in Job
      /\ \A i \in Job \ {held[w]} : job'[i] = job[i]
  BY QueueAssumption DEF Succeed, Complete, Write, TypeOK, BusyHolds
<1>2. CASE held[w] \notin Audited
  BY <1>1, <1>2, LeaveHolderOwns DEF Succeed
<1>3. CASE held[w] \in Audited
  <2>1. /\ requeues' = requeues /\ held' = held
        /\ phase'[w] = "audit"
        /\ \A v \in Worker \ {w} : phase'[v] = phase[v]
    BY <1>3 DEF Succeed, TypeOK
  <2>2. ASSUME NEW v \in Worker, v # w, phase[v] = "busy", Settled(held[v])
        PROVE  held[v] \in Job \ {held[w]}
    BY <1>1, <2>2 DEF HolderOwns, ExecutorOwns, Owns, Settled, TypeOK, BusyHolds
  <2>3. ExecutorOwns'
    <3> SUFFICES ASSUME NEW v \in Worker, phase'[v] = "busy", Settled(held[v])
        PROVE    /\ (Owns(v, held[v]))'
                 /\ job'[held[v]].heartbeat = "fresh"
      BY <2>1 DEF ExecutorOwns, Settled
    <3>1. v # w /\ phase[v] = "busy"
      BY <2>1
    <3>2. job'[held[v]] = job[held[v]]
      BY <1>1, <2>2, <3>1
    <3> QED BY <2>1, <3>1, <3>2 DEF HolderOwns, ExecutorOwns, Owns
  <2>4. AuditorIsAlone'
    <3> SUFFICES ASSUME requeues = 0
        PROVE    \A v \in Worker : phase'[v] = "audit" =>
                   /\ job'[held[v]].status = "succeeded"
                   /\ \A u \in Worker : held[u] = held[v] => u = v
      BY <2>1 DEF AuditorIsAlone
    <3>1. Owns(w, held[w])
      BY <1>1 DEF HolderOwns, ExecutorOwns, Settled
    <3>2. job'[held[w]].status = "succeeded"
      BY <1>1, <3>1 DEF Succeed, Complete, Write, TypeOK, Row
    <3>3. \A v \in Worker \ {w} : held[v] # held[w]
      <4> SUFFICES ASSUME NEW v \in Worker, v # w, held[v] = held[w] PROVE FALSE
        OBVIOUS
      <4>1. phase[v] \in {"busy", "audit"}
        BY <1>1, QueueAssumption DEF BusyHolds
      <4>2. CASE phase[v] = "busy"
        BY <1>3, <2>2, <4>2 DEF Settled
      <4>3. CASE phase[v] = "audit"
        BY <3>1, <4>3 DEF HolderOwns, AuditorIsAlone, Owns
      <4> QED BY <4>1, <4>2, <4>3
    <3>4. ASSUME NEW v \in Worker, v # w, phase'[v] = "audit"
          PROVE  /\ job'[held[v]].status = "succeeded"
                 /\ \A u \in Worker : held[u] = held[v] => u = v
      <4>1. phase[v] = "audit" /\ held[v] \in Job \ {held[w]}
        BY <2>1, <3>3, <3>4, QueueAssumption DEF BusyHolds
      <4> QED BY <1>1, <4>1 DEF HolderOwns, AuditorIsAlone
    <3> QED BY <2>1, <3>2, <3>3, <3>4
  <2> QED BY <2>3, <2>4 DEF HolderOwns
<1> QED BY <1>2, <1>3

LEMMA NextHolderOwns ==
  ASSUME Timely, TypeOK, BusyHolds, HolderOwns, [Next]_vars
  PROVE  HolderOwns'
<1> USE QueueAssumption
<1> DEFINE Keeps == \A w \in Worker : phase'[w] = phase[w] /\ held'[w] = held[w]
(* A row nobody executes or has completed is written, beside the workers.  *)
<1>0. ASSUME Keeps, NEW j \in Job, job[j].status \notin {"running", "succeeded"},
             \A i \in Job \ {j} : job'[i] = job[i],
             requeues' = 0 => requeues = 0
      PROVE  HolderOwns'
  BY <1>0 DEF HolderOwns, ExecutorOwns, AuditorIsAlone, Owns, Settled, TypeOK,
              BusyHolds
<1>1. CASE Admin
  <2>1. PICK j \in Job :
          \/ /\ job[j].status = "absent" /\ Enqueue(j)
             /\ UNCHANGED requeues
          \/ requeues' = requeues + 1 /\ (Enqueue(j) \/ Retry(j))
          \/ Cancel(j) /\ UNCHANGED requeues
    BY <1>1 DEF Admin
  <2>2. Keeps /\ \A i \in Job \ {j} : job'[i] = job[i]
    BY <1>1, <2>1 DEF Admin, Enqueue, Retry, Cancel, Write, TypeOK
  <2>3. CASE requeues' = requeues + 1 /\ (Enqueue(j) \/ Retry(j))
    <3>1. job[j].status # "running" /\ requeues' # 0
      BY <2>3 DEF Enqueue, Retry, Active, TypeOK
    <3> QED BY <2>2, <3>1 DEF HolderOwns, ExecutorOwns, AuditorIsAlone, Owns,
                              Settled, TypeOK, BusyHolds
  <2>4. CASE job[j].status = "absent" /\ UNCHANGED requeues
    BY <1>0, <2>2, <2>4
  <2>5. CASE Cancel(j) /\ UNCHANGED requeues
    BY <1>0, <2>2, <2>5 DEF Cancel
  <2> QED BY <2>1, <2>3, <2>4, <2>5
<1>2. ASSUME NEW w \in Worker, WorkerStep(w)
      PROVE  HolderOwns'
  <2>1. CASE Poll(w)
    <3>1. /\ held' = held /\ requeues' = requeues
          /\ \A v \in Worker : phase'[v] \in {"busy", "audit"} => phase'[v] = phase[v]
      BY <2>1 DEF Poll, TypeOK
    <3>2. \A i \in Job : ~Stale(i) => job'[i] = job[i]
      BY <2>1 DEF Poll, ReclaimStale, TypeOK
    <3> QED BY <3>1, <3>2 DEF HolderOwns, ExecutorOwns, AuditorIsAlone, Owns,
                              Settled, Stale, TypeOK, BusyHolds
  <2>2. CASE Start(w)
    <3>1. PICK j \in Job : Claim(w, j) /\ held' = [held EXCEPT ![w] = j]
      BY <2>2 DEF Start
    <3>2. /\ job[j].status = "queued"
          /\ \A i \in Job \ {j} : job'[i] = job[i]
          /\ job'[j].status = "running"
          /\ job'[j].lockedBy = w
          /\ job'[j].heartbeat = "fresh"
      BY <3>1 DEF Claim, Claimable, Write, TypeOK, Row
    <3>3. /\ requeues' = requeues
          /\ phase'[w] = "busy" /\ held'[w] = j
          /\ \A v \in Worker \ {w} : phase'[v] = phase[v] /\ held'[v] = held[v]
      BY <2>2, <3>1 DEF Start, TypeOK
    <3>4. ExecutorOwns'
      BY <3>2, <3>3 DEF HolderOwns, ExecutorOwns, Owns, Settled, TypeOK, BusyHolds
    <3>5. AuditorIsAlone'
      BY <3>2, <3>3 DEF HolderOwns, AuditorIsAlone, TypeOK, BusyHolds
    <3> QED BY <3>4, <3>5 DEF HolderOwns
  <2>3. CASE NothingToDo(w)
    BY <2>3 DEF NothingToDo, HolderOwns, ExecutorOwns, AuditorIsAlone, Owns,
                Settled, TypeOK
  <2>4. CASE Beat(w)
    <3>1. \A i \in Job : /\ job'[i].status = job[i].status
                         /\ job'[i].lockedBy = job[i].lockedBy
                         /\ job[i].heartbeat = "fresh" => job'[i].heartbeat = "fresh"
      BY <2>4 DEF Beat, Heartbeat, Write, TypeOK, BusyHolds, Row
    <3> QED BY <2>4, <3>1 DEF Beat, HolderOwns, ExecutorOwns, AuditorIsAlone, Owns,
                              Settled, TypeOK, BusyHolds
  <2>5. CASE Succeed(w)
    BY <2>5, SucceedHolderOwns
  <2>6. CASE AuditWritten(w)
    BY <2>6, LeaveHolderOwns DEF AuditWritten
  <2>7. CASE Fail(w)
    <3>1. \A i \in Job \ {held[w]} : job'[i] = job[i]
      BY <2>7 DEF Fail, FailJob, Write, TypeOK
    <3> QED BY <2>7, <3>1, LeaveHolderOwns DEF Fail
  <2>8. CASE Crash(w)
    BY <2>8, LeaveHolderOwns DEF Crash
  <2> QED BY <1>2, <2>1, <2>2, <2>3, <2>4, <2>5, <2>6, <2>7, <2>8 DEF WorkerStep
<1>3. ASSUME NEW j \in Job, HeartbeatExpires(j)
      PROVE  HolderOwns'
  <2>1. /\ \A i \in Job \ {j} : job'[i] = job[i]
        /\ job'[j].status = job[j].status
        /\ UNCHANGED <<phase, held, requeues>>
        /\ \A w \in Worker : phase[w] = "busy" => held[w] # j
    BY <1>3 DEF HeartbeatExpires, Write, TypeOK, Row
  <2> QED BY <2>1 DEF HolderOwns, ExecutorOwns, AuditorIsAlone, Owns, Settled,
                      TypeOK, BusyHolds
<1>4. ASSUME NEW j \in Job, BackoffElapses(j)
      PROVE  HolderOwns'
  <2>1. /\ \A i \in Job : /\ job'[i].status = job[i].status
                          /\ job'[i].lockedBy = job[i].lockedBy
                          /\ job'[i].heartbeat = job[i].heartbeat
        /\ UNCHANGED <<phase, held, requeues>>
    BY <1>4 DEF BackoffElapses, Write, TypeOK, Row
  <2> QED BY <2>1 DEF HolderOwns, ExecutorOwns, AuditorIsAlone, Owns, Settled,
                      TypeOK, BusyHolds
<1>5. CASE UNCHANGED vars
  BY <1>5 DEF vars, HolderOwns, ExecutorOwns, AuditorIsAlone, Owns, Settled
<1> QED BY <1>1, <1>2, <1>3, <1>4, <1>5 DEF Next

LEMMA HolderInvariant == Spec => [](Timely => HolderOwns)
<1>1. Init => HolderOwns
  BY DEF Init, HolderOwns, ExecutorOwns, AuditorIsAlone
<1>2. TInv /\ (Timely => HolderOwns) /\ [Next]_vars => (Timely => HolderOwns)'
  BY NextHolderOwns DEF TInv
<1> QED BY <1>1, <1>2, TInvariant, PTL DEF Spec

(* As long as heartbeats are timely, no two workers ever execute the same  *)
(* import or reindex job, however claims, reclaims, crashes, failures and  *)
(* administrators interleave; nor the same withdraw or evaluate job until  *)
(* an administrator queues a job again.                                    *)
THEOREM Exclusive == Spec => [](Timely => ExclusiveExecution)
<1>1. TypeOK /\ HolderOwns => ExclusiveExecution
  BY DEF TypeOK, HolderOwns, ExecutorOwns, Owns, Settled, ExclusiveExecution
<1>2. (TypeOK /\ (Timely => HolderOwns)) => (Timely => ExclusiveExecution)
  BY <1>1
<1> QED BY <1>2, TypeCorrect, HolderInvariant, PTL

-----------------------------------------------------------------------------
(* Who may undo a success.                                                 *)

UndoneByAdminOrHolder == \A j \in Job :
  job[j].status = "succeeded" /\ job'[j].status # "succeeded" =>
    \/ requeues' = requeues + 1
    \/ /\ j \in Audited
       /\ \E w \in Worker : /\ held[w] = j /\ held'[w] = NoJob
                            /\ phase[w] = "busy" => requeues > 0

LEMMA NextUndone ==
  ASSUME TInv, HolderOwns, [Next]_vars
  PROVE  UndoneByAdminOrHolder
<1> USE DEF TInv, UndoneByAdminOrHolder
<1>1. CASE Admin
  BY <1>1 DEF Admin, Enqueue, Cancel, Write, TypeOK
<1>2. ASSUME NEW w \in Worker, WorkerStep(w)
      PROVE  UndoneByAdminOrHolder
  <2>1. CASE Poll(w)
    BY <2>1 DEF Poll, ReclaimStale, Stale, TypeOK
  <2>2. CASE Start(w)
    BY <2>2 DEF Start, Claim, Claimable, Write, TypeOK
  <2>3. CASE NothingToDo(w)
    BY <2>3 DEF NothingToDo
  <2>4. CASE Beat(w)
    BY <2>4 DEF Beat, Heartbeat, Owns, Write, TypeOK, BusyHolds
  <2>5. CASE Succeed(w)
    BY <2>5 DEF Succeed, Complete, Owns, Write, TypeOK, BusyHolds
  <2>6. CASE AuditWritten(w)
    BY <2>6 DEF AuditWritten
  <2>7. CASE Fail(w)
    <3>1. \A i \in Job \ {held[w]} : job'[i] = job[i]
      BY <2>7 DEF Fail, FailJob, Write, TypeOK
    <3>2. held'[w] = NoJob
      BY <2>7 DEF Fail, Leave, TypeOK
    <3>3. CASE phase[w] = "audit"
      BY <3>1, <3>2, <3>3 DEF BusyHolds, TypeOK
    <3>4. CASE phase[w] = "busy" /\ Settled(held[w])
      BY <3>1, <3>4 DEF HolderOwns, ExecutorOwns, Owns
    <3>5. CASE phase[w] = "busy" /\ ~Settled(held[w])
      <4>1. held[w] \in Audited /\ requeues > 0
        BY <3>5, QueueAssumption DEF Settled, TypeOK
      <4> QED BY <3>1, <3>2, <4>1
    <3> QED BY <2>7, <3>3, <3>4, <3>5 DEF Fail
  <2>8. CASE Crash(w)
    BY <2>8 DEF Crash
  <2> QED BY <1>2, <2>1, <2>2, <2>3, <2>4, <2>5, <2>6, <2>7, <2>8 DEF WorkerStep
<1>3. ASSUME NEW j \in Job, HeartbeatExpires(j) \/ BackoffElapses(j)
      PROVE  UndoneByAdminOrHolder
  BY <1>3 DEF HeartbeatExpires, BackoffElapses, Write, TypeOK, Row
<1>4. CASE UNCHANGED vars
  BY <1>4 DEF vars
<1> QED BY <1>1, <1>2, <1>3, <1>4 DEF Next

(* With timely heartbeats the success of an import or reindex job is       *)
(* undone by nobody but an administrator: fail_ingestion_job, which looks  *)
(* at neither owner nor status, and the reclaimer never meet a row that    *)
(* has succeeded.  A withdraw or evaluate job loses its success besides to *)
(* a worker that still holds it, and to no other.                          *)
THEOREM SuccessIsUndoneOnlyByHolders ==
  ASSUME Timely
  PROVE  Spec => SuccessIsUndoneByAdminOrHolder
<1>1. TInv /\ (Timely => HolderOwns) /\ [Next]_vars => [UndoneByAdminOrHolder]_vars
  BY NextUndone
<1>2. Spec => [][UndoneByAdminOrHolder]_vars
  BY <1>1, TInvariant, HolderInvariant, PTL DEF Spec
<1> QED BY <1>2 DEF SuccessIsUndoneByAdminOrHolder, UndoneByAdminOrHolder
=============================================================================
