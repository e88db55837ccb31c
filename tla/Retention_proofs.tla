-------------------------- MODULE Retention_proofs --------------------------
(***************************************************************************)
(* Theorems of Retention, for any source keys, importers, workers and      *)
(* measurements, and any bounds on the rows inserted.                      *)
(***************************************************************************)
EXTENDS Retention, TLAPS

-----------------------------------------------------------------------------
(* The inductive invariant.                                                *)

DocumentRow == [key : SourceKey, old : BOOLEAN, expired : {"no", "marked", "due"}]
               \cup {NoDocument}
VersionRow == [document : {0} \cup DocumentId,
               status : {"absent", "queued", "processing", "indexed", "superseded",
                         "failed"}]
Task == [step : IndexerStep, version : {0} \cup VersionId]
JobStatus == {"absent", "queued", "running", "succeeded", "failed"}
MeasurementRun == [step : {"new", "running", "ended"}, version : {0} \cup VersionId]

Types == /\ documents \in [DocumentId -> DocumentRow]
         /\ lastDocument \in 0..MaxDocuments
         /\ lastVersion \in 0..MaxVersions
         /\ versionRows \in [VersionId -> VersionRow]
         /\ children \subseteq ChildTable \X VersionId
         /\ grants \subseteq DocumentId
         /\ indexJobs \in [VersionId -> JobStatus]
         /\ indexer \in [Indexer -> Task]
         /\ measuring \in [Measurement -> MeasurementRun]

(* A row that exists belongs to a document and has a used number.          *)
Rows == \A v \in VersionId :
          /\ versionRows[v].status = "absent" => versionRows[v] = NoVersionRow
          /\ VersionExists(v) => versionRows[v].document \in DocumentId /\ v <= lastVersion

(* What a task has left behind, unless its version was purged since.       *)
OwnTask(i) == LET v == TaskVersion(i)
                  step == indexer[i].step
              IN
  /\ step \notin {"idle", "dead"} => v \in VersionId /\ v <= lastVersion
  /\ step = "finalize" /\ VersionExists(v) => <<"chunk", v>> \in children

RInv == /\ Types
        /\ Rows
        /\ NoOrphans
        /\ ServedHasChunks
        /\ \A i \in Indexer : OwnTask(i)

-----------------------------------------------------------------------------
(* Rows and tasks.                                                         *)

LEMMA NoRows ==
  /\ NoDocument \in DocumentRow /\ NoDocument.old = FALSE /\ NoDocument.expired = "no"
  /\ NoVersionRow \in VersionRow /\ NoVersionRow.status = "absent"
  /\ NoTask \in Task /\ NoTask.step = "idle"
  /\ Ended \in Task /\ Ended.step = "dead"
BY DEF NoDocument, DocumentRow, NoVersionRow, VersionRow, NoTask, Ended, Task, IndexerStep

LEMMA TaskStepped ==
  ASSUME NEW old \in Task, NEW step \in IndexerStep
  PROVE  LET new == [old EXCEPT !.step = step] IN
         /\ new \in Task /\ new.step = step /\ new.version = old.version
BY DEF Task, IndexerStep

LEMMA StatusWritten ==
  ASSUME NEW old \in VersionRow, NEW status \in {"queued", "processing", "indexed",
                                                 "superseded", "failed"}
  PROVE  LET new == [old EXCEPT !.status = status] IN
         /\ new \in VersionRow /\ new.status = status /\ new.document = old.document
         /\ new # NoVersionRow
BY NoRows DEF VersionRow

(* The steps of a task change statuses, add children and jobs of versions  *)
(* that exist, and leave the documents alone.                              *)
RowsKept ==
  /\ versionRows' \in [VersionId -> VersionRow]
  /\ \A v \in VersionId :
       /\ versionRows'[v].status = "absent" => versionRows'[v] = NoVersionRow
       /\ versionRows'[v] # NoVersionRow <=> versionRows[v] # NoVersionRow
       /\ versionRows'[v].document = versionRows[v].document
       /\ versionRows'[v].status \in {"indexed", "superseded"} => <<"chunk", v>> \in children'

ChildrenKept ==
  /\ children \subseteq children' /\ children' \subseteq ChildTable \X VersionId
  /\ \A c \in children' : VersionExists(c[2])

JobsKept ==
  /\ indexJobs' \in [VersionId -> JobStatus]
  /\ \A v \in VersionId : /\ indexJobs[v] # "absent" => indexJobs'[v] # "absent"
                          /\ indexJobs'[v] # "absent" => VersionExists(v)

LEMMA SameRows ==
  ASSUME RInv
  PROVE  /\ UNCHANGED versionRows /\ children \subseteq children' => RowsKept
         /\ UNCHANGED children => ChildrenKept
         /\ UNCHANGED indexJobs => JobsKept
BY DEF RInv, Types, Rows, NoOrphans, ServedHasChunks, RowsKept, ChildrenKept, JobsKept,
       VersionExists

LEMMA RStep ==
  ASSUME RInv, RowsKept, ChildrenKept, JobsKept,
         UNCHANGED <<documents, lastDocument, lastVersion, grants, measuring>>,
         NEW i \in Indexer, NEW task \in Task, indexer' = [indexer EXCEPT ![i] = task],
         OwnTask(i)'
  PROVE  RInv'
<1>1. /\ indexer' \in [Indexer -> Task]
      /\ \A k \in Indexer \ {i} : indexer'[k] = indexer[k]
  BY DEF RInv, Types
<1>2. Types'
  BY <1>1 DEF RInv, Types, RowsKept, ChildrenKept, JobsKept
<1>3. Rows'
  BY DEF RInv, Rows, RowsKept, VersionExists
<1>4. NoOrphans'
  <2>1. \A v \in VersionId : VersionExists(v)' => DocumentExists(versionRows[v].document)'
    BY DEF RInv, NoOrphans, RowsKept, VersionExists, DocumentExists
  <2>2. \A v \in VersionId : VersionExists(v)' <=> VersionExists(v)
    BY DEF RowsKept, VersionExists
  <2>3. \A c \in children' : VersionExists(c[2])'
    BY <2>2 DEF ChildrenKept
  <2>4. \A v \in VersionId : indexJobs'[v] # "absent" => VersionExists(v)'
    BY <2>2 DEF JobsKept
  <2>5. \A d \in grants' : DocumentExists(d)'
    BY DEF RInv, NoOrphans, DocumentExists
  <2> QED BY <2>1, <2>3, <2>4, <2>5 DEF NoOrphans
<1>5. ServedHasChunks'
  BY DEF RowsKept, ServedHasChunks
<1>6. ASSUME NEW k \in Indexer PROVE OwnTask(k)'
  <2>1. CASE k = i
    BY <2>1
  <2>2. CASE k # i
    <3>1. indexer'[k] = indexer[k] /\ OwnTask(k)
      BY <1>1, <2>2 DEF RInv
    <3> QED BY <3>1 DEF OwnTask, TaskVersion, RowsKept, ChildrenKept, JobsKept, VersionExists
  <2> QED BY <2>1, <2>2
<1> QED BY <1>2, <1>3, <1>4, <1>5, <1>6 DEF RInv

(* The task goes on to its next step.                                      *)
LEMMA TurnStep ==
  ASSUME RInv, RowsKept, ChildrenKept, JobsKept,
         UNCHANGED <<documents, lastDocument, lastVersion, grants, measuring>>,
         NEW i \in Indexer, NEW step \in IndexerStep, TurnTo(i, step),
         indexer[i].step \notin {"idle", "dead"},
         step = "finalize" => <<"chunk", TaskVersion(i)>> \in children'
  PROVE  RInv'
<1> DEFINE new == [indexer[i] EXCEPT !.step = step]
<1>1. indexer[i] \in Task /\ OwnTask(i)
  BY DEF RInv, Types
<1>2. new \in Task /\ new.step = step /\ new.version = indexer[i].version
  BY <1>1, TaskStepped
<1>3. indexer' = [indexer EXCEPT ![i] = new]
  BY DEF TurnTo
<1> HIDE DEF new
<1>4. indexer'[i] = new
  BY <1>3 DEF RInv, Types
<1>5. OwnTask(i)'
  BY <1>1, <1>2, <1>4 DEF OwnTask, TaskVersion, RowsKept, ChildrenKept, JobsKept, VersionExists
<1> QED BY <1>2, <1>3, <1>5, RStep

(* The task ends, and the process with it or not.                          *)
LEMMA EndStep ==
  ASSUME RInv, RowsKept, ChildrenKept, JobsKept,
         UNCHANGED <<documents, lastDocument, lastVersion, grants, measuring>>,
         NEW i \in Indexer, NEW task \in {NoTask, Ended},
         indexer' = [indexer EXCEPT ![i] = task]
  PROVE  RInv'
<1>1. indexer'[i] = task
  BY DEF RInv, Types
<1>2. OwnTask(i)'
  BY <1>1, NoRows DEF OwnTask, TaskVersion
<1>3. task \in Task
  BY NoRows
<1> QED BY <1>2, <1>3, RStep

-----------------------------------------------------------------------------
(* The operations of an indexer.                                           *)

(* Changing the status of one version, to one in which it is not served.   *)
LEMMA SetRow ==
  ASSUME RInv, NEW v \in VersionId, VersionExists(v), UNCHANGED children,
         NEW status \in {"queued", "processing", "failed"}, SetVersionRow(v, status)
  PROVE  RowsKept
<1> DEFINE new == [versionRows[v] EXCEPT !.status = status]
<1>1. versionRows[v] \in VersionRow
  BY DEF RInv, Types
<1>2. /\ new \in VersionRow /\ new.status = status
      /\ new.document = versionRows[v].document /\ new # NoVersionRow
  <2>1. status \in {"queued", "processing", "indexed", "superseded", "failed"}
    OBVIOUS
  <2> QED BY <1>1, <2>1, StatusWritten
<1>3. versionRows' = [versionRows EXCEPT ![v] = new]
  BY DEF SetVersionRow
<1> HIDE DEF new
<1>4. /\ versionRows' \in [VersionId -> VersionRow] /\ versionRows'[v] = new
      /\ \A w \in VersionId \ {v} : versionRows'[w] = versionRows[w]
  BY <1>2, <1>3 DEF RInv, Types
<1> QED BY <1>2, <1>4 DEF RowsKept, RInv, Rows, ServedHasChunks, VersionExists

LEMMA FailedRow ==
  ASSUME RInv, NEW v \in VersionId, UNCHANGED children, FailVersion(v)
  PROVE  RowsKept
<1>1. CASE VersionExists(v)
  <2>1. SetVersionRow(v, "failed")
    BY <1>1 DEF FailVersion, SetVersionRow
  <2> QED BY <1>1, <2>1, SetRow
<1>2. CASE ~VersionExists(v)
  <2>1. versionRows[v] = NoVersionRow /\ versionRows[v] \in VersionRow
    BY <1>2 DEF VersionExists, RInv, Types
  <2>2. [versionRows[v] EXCEPT !.status = versionRows[v].status] = versionRows[v]
    BY <2>1 DEF VersionRow
  <2>3. versionRows' = versionRows
    BY <1>2, <2>2 DEF FailVersion, RInv, Types
  <2> QED BY <2>3, SameRows
<1> QED BY <1>1, <1>2

LEMMA ReleasedRow ==
  ASSUME RInv, NEW v \in VersionId, UNCHANGED children, ReleaseVersion(v)
  PROVE  RowsKept
<1>0. versionRows[v] \in VersionRow
  BY DEF RInv, Types
<1>1. CASE versionRows[v].status \in {"processing", "failed"}
  <2>1. SetVersionRow(v, "queued")
    BY <1>1 DEF ReleaseVersion, SetVersionRow
  <2>2. VersionExists(v)
    BY <1>1, NoRows DEF VersionExists
  <2> QED BY <2>1, <2>2, SetRow
<1>2. CASE versionRows[v].status \notin {"processing", "failed"}
  <2>1. [versionRows[v] EXCEPT !.status = versionRows[v].status] = versionRows[v]
    BY <1>0 DEF VersionRow
  <2>2. versionRows' = versionRows
    BY <1>2, <2>1 DEF ReleaseVersion, RInv, Types
  <2> QED BY <2>2, SameRows
<1> QED BY <1>1, <1>2

LEMMA JobWritten ==
  ASSUME RInv, NEW v \in VersionId, VersionExists(v), NEW status \in JobStatus \ {"absent"},
         indexJobs' = [indexJobs EXCEPT ![v] = status]
  PROVE  JobsKept
BY DEF RInv, Types, NoOrphans, JobsKept

LEMMA EnqueueImportJobStep ==
  ASSUME RInv, NEW i \in Indexer, EnqueueImportJob(i)
  PROVE  RInv'
<1>1. /\ indexer' = [indexer EXCEPT ![i] = NoTask]
      /\ UNCHANGED <<documents, lastDocument, lastVersion, grants, measuring, children>>
  BY DEF EnqueueImportJob, documentTable
<1>2. TaskVersion(i) \in VersionId
  BY DEF EnqueueImportJob, RInv, OwnTask, TaskVersion
<1>3. ChildrenKept
  BY <1>1, SameRows
<1>4. CASE /\ VersionExists(TaskVersion(i))
           /\ indexJobs' = [indexJobs EXCEPT ![TaskVersion(i)] = "queued"]
           /\ UNCHANGED versionRows
  <2>1. RowsKept
    BY <1>1, <1>4, SameRows
  <2>2. JobsKept
    BY <1>2, <1>4, JobWritten DEF JobStatus
  <2> QED BY <1>1, <1>3, <2>1, <2>2, EndStep
<1>5. CASE FailVersion(TaskVersion(i)) /\ UNCHANGED indexJobs
  <2>1. RowsKept /\ JobsKept
    BY <1>1, <1>2, <1>5, FailedRow, SameRows
  <2> QED BY <1>1, <1>3, <2>1, EndStep
<1> QED BY <1>4, <1>5 DEF EnqueueImportJob

LEMMA ClaimImportStep ==
  ASSUME RInv, NEW i \in Indexer, NEW v \in VersionId, ClaimImport(i, v)
  PROVE  RInv'
<1> DEFINE task == [step |-> "mark", version |-> v]
<1>1. /\ indexer' = [indexer EXCEPT ![i] = task] /\ i \in IndexWorker
      /\ UNCHANGED <<documents, lastDocument, lastVersion, grants, measuring, children,
                     versionRows>>
  BY DEF ClaimImport, documentTable
<1>2. /\ VersionExists(v) /\ v <= lastVersion
      /\ indexJobs' = [indexJobs EXCEPT ![v] = "running"]
  BY DEF ClaimImport, RInv, NoOrphans, Rows
<1>3. JobsKept /\ indexJobs'[v] = "running"
  <2>1. JobsKept
    BY <1>2, JobWritten DEF JobStatus
  <2> QED BY <1>2, <2>1 DEF RInv, Types
<1>4. RowsKept /\ ChildrenKept
  BY <1>1, SameRows
<1>5. task \in Task /\ task.step = "mark" /\ task.version = v
  BY DEF Task, IndexerStep
<1> HIDE DEF task
<1>6. indexer'[i] = task
  BY <1>1 DEF RInv, Types
<1>7. OwnTask(i)'
  BY <1>1, <1>2, <1>3, <1>5, <1>6 DEF OwnTask, TaskVersion
<1> QED BY <1>1, <1>3, <1>4, <1>5, <1>7, RStep

LEMMA TaskOfVersion ==
  ASSUME RInv, NEW i \in Indexer, indexer[i].step \notin {"idle", "dead"}
  PROVE  TaskVersion(i) \in VersionId
BY DEF RInv, OwnTask, TaskVersion

LEMMA WritableExists ==
  ASSUME NEW v, Writable(v)
  PROVE  VersionExists(v)
BY NoRows DEF Writable, VersionExists

LEMMA MarkVersionProcessingStep ==
  ASSUME RInv, NEW i \in Indexer, MarkVersionProcessing(i)
  PROVE  RInv'
<1>1. /\ SetVersionRow(TaskVersion(i), "processing") /\ TurnTo(i, "usage")
      /\ VersionExists(TaskVersion(i)) /\ TaskVersion(i) \in VersionId
      /\ UNCHANGED <<documents, lastDocument, lastVersion, grants, measuring, children,
                     indexJobs>>
  BY TaskOfVersion, WritableExists DEF MarkVersionProcessing, documentTable
<1>2. RowsKept
  BY <1>1, SetRow
<1>3. ChildrenKept /\ JobsKept
  BY <1>1, SameRows
<1>4. indexer[i].step = "mark" /\ "usage" \in IndexerStep
  BY DEF MarkVersionProcessing, IndexerStep
<1> QED BY <1>1, <1>2, <1>3, <1>4, TurnStep

LEMMA ChildInserted ==
  ASSUME RInv, NEW v \in VersionId, VersionExists(v), NEW table \in ChildTable,
         InsertChild(table, v)
  PROVE  ChildrenKept /\ <<table, v>> \in children'
BY DEF RInv, Types, NoOrphans, InsertChild, ChildrenKept

LEMMA RecordEmbeddingUsagesStep ==
  ASSUME RInv, NEW i \in Indexer, RecordEmbeddingUsages(i)
  PROVE  RInv'
<1>1. /\ InsertChild("usage", TaskVersion(i)) /\ TurnTo(i, "persist")
      /\ VersionExists(TaskVersion(i)) /\ TaskVersion(i) \in VersionId
      /\ UNCHANGED <<documents, lastDocument, lastVersion, grants, measuring, versionRows,
                     indexJobs>>
  BY TaskOfVersion DEF RecordEmbeddingUsages, documentTable
<1>2. "usage" \in ChildTable /\ "persist" \in IndexerStep
  BY DEF ChildTable, IndexerStep
<1>3. ChildrenKept
  BY <1>1, <1>2, ChildInserted
<1>4. RowsKept /\ JobsKept
  BY <1>1, <1>3, SameRows DEF ChildrenKept
<1>5. indexer[i].step = "usage"
  BY DEF RecordEmbeddingUsages
<1> QED BY <1>1, <1>2, <1>3, <1>4, <1>5, TurnStep

LEMMA PersistDocumentChunksStep ==
  ASSUME RInv, NEW i \in Indexer, PersistDocumentChunks(i)
  PROVE  RInv'
<1>1. /\ InsertChild("chunk", TaskVersion(i)) /\ TurnTo(i, "finalize")
      /\ VersionExists(TaskVersion(i)) /\ TaskVersion(i) \in VersionId
      /\ UNCHANGED <<documents, lastDocument, lastVersion, grants, measuring, versionRows,
                     indexJobs>>
  BY TaskOfVersion, WritableExists DEF PersistDocumentChunks, documentTable
<1>2. "chunk" \in ChildTable /\ "finalize" \in IndexerStep
  BY DEF ChildTable, IndexerStep
<1>3. ChildrenKept /\ <<"chunk", TaskVersion(i)>> \in children'
  BY <1>1, <1>2, ChildInserted
<1>4. RowsKept /\ JobsKept
  BY <1>1, <1>3, SameRows DEF ChildrenKept
<1>5. indexer[i].step = "persist"
  BY DEF PersistDocumentChunks
<1> QED BY <1>1, <1>2, <1>3, <1>4, <1>5, TurnStep

(* The version served so far keeps its chunks; the new one has them since  *)
(* PersistDocumentChunks, or the purge would have deleted it.              *)
LEMMA FinalizeVersionStep ==
  ASSUME RInv, NEW i \in Indexer, FinalizeVersion(i)
  PROVE  RInv'
<1> DEFINE v == TaskVersion(i)
           indexed == [versionRows[v] EXCEPT !.status = "indexed"]
           superseded(w) == [versionRows[w] EXCEPT !.status = "superseded"]
           before(w) == /\ versionRows[w].document = versionRows[v].document
                        /\ versionRows[w].status = "indexed"
<1>1. /\ TurnTo(i, "complete") /\ indexer[i].step = "finalize"
      /\ VersionExists(v) /\ v \in VersionId
      /\ UNCHANGED <<documents, lastDocument, lastVersion, grants, measuring, children,
                     indexJobs>>
  BY TaskOfVersion, WritableExists DEF FinalizeVersion, documentTable
<1>2. versionRows' = [w \in VersionId |-> IF w = v THEN indexed
                                          ELSE IF before(w) THEN superseded(w)
                                          ELSE versionRows[w]]
  BY DEF FinalizeVersion
<1>3. \A w \in VersionId : versionRows[w] \in VersionRow
  BY DEF RInv, Types
<1>4. /\ indexed \in VersionRow /\ indexed.status = "indexed"
      /\ indexed.document = versionRows[v].document /\ indexed # NoVersionRow
  BY <1>1, <1>3, StatusWritten
<1>5. \A w \in VersionId : LET new == superseded(w) IN
        /\ new \in VersionRow /\ new.status = "superseded"
        /\ new.document = versionRows[w].document /\ new # NoVersionRow
  BY <1>3, StatusWritten
<1>6. <<"chunk", v>> \in children
  BY <1>1 DEF RInv, OwnTask, TaskVersion
<1>7. \A w \in VersionId : before(w) => VersionExists(w) /\ <<"chunk", w>> \in children
  BY NoRows DEF RInv, ServedHasChunks, VersionExists
<1>8. /\ versionRows' \in [VersionId -> VersionRow]
      /\ versionRows'[v] = indexed
      /\ \A w \in VersionId \ {v} : versionRows'[w] = IF before(w) THEN superseded(w)
                                                       ELSE versionRows[w]
  <2> HIDE DEF indexed, superseded, before
  <2> QED BY <1>1, <1>2, <1>3, <1>4, <1>5
<1>9. ASSUME NEW w \in VersionId
      PROVE  /\ versionRows'[w].status = "absent" => versionRows'[w] = NoVersionRow
             /\ versionRows'[w] # NoVersionRow <=> versionRows[w] # NoVersionRow
             /\ versionRows'[w].document = versionRows[w].document
             /\ versionRows'[w].status \in {"indexed", "superseded"} =>
                  <<"chunk", w>> \in children
  <2>1. CASE w = v
    BY <1>1, <1>4, <1>6, <1>8, <2>1 DEF VersionExists
  <2>2. CASE w # v /\ before(w)
    <3>1. versionRows'[w] = superseded(w)
      BY <1>8, <2>2
    <3> HIDE DEF superseded, before
    <3> QED BY <1>5, <1>7, <2>2, <3>1 DEF VersionExists
  <2>3. CASE w # v /\ ~before(w)
    <3>1. versionRows'[w] = versionRows[w]
      BY <1>8, <2>3
    <3> QED BY <3>1 DEF RInv, Rows, ServedHasChunks
  <2> QED BY <2>1, <2>2, <2>3
<1>10. RowsKept
  <2> HIDE DEF v, indexed, superseded, before
  <2> QED BY <1>1, <1>8, <1>9 DEF RowsKept
<1>11. ChildrenKept /\ JobsKept
  BY <1>1, SameRows
<1>12. "complete" \in IndexerStep
  BY DEF IndexerStep
<1> QED BY <1>1, <1>10, <1>11, <1>12, TurnStep

LEMMA CompleteIndexingStep ==
  ASSUME RInv, NEW i \in Indexer, CompleteIndexing(i)
  PROVE  RInv'
<1> DEFINE v == TaskVersion(i)
           status == IF i \in IndexWorker /\ indexJobs[v] = "running" THEN "succeeded"
                                                                      ELSE indexJobs[v]
<1>1. /\ indexer' = [indexer EXCEPT ![i] = NoTask]
      /\ v \in VersionId
      /\ UNCHANGED <<documents, lastDocument, lastVersion, grants, measuring, children,
                     versionRows>>
  BY TaskOfVersion DEF CompleteIndexing, documentTable
<1>2. indexJobs' = [indexJobs EXCEPT ![v] = status]
  BY DEF CompleteIndexing
<1>3. status \in JobStatus /\ (status = "absent" <=> indexJobs[v] = "absent")
  BY <1>1 DEF JobStatus, RInv, Types
<1> HIDE DEF status
<1>4. JobsKept
  BY <1>1, <1>2, <1>3 DEF RInv, Types, NoOrphans, JobsKept
<1>5. RowsKept /\ ChildrenKept
  BY <1>1, SameRows
<1> QED BY <1>1, <1>4, <1>5, EndStep

LEMMA IndexingFailsStep ==
  ASSUME RInv, NEW i \in Indexer, IndexingFails(i)
  PROVE  RInv'
<1>1. /\ TurnTo(i, "failed") /\ indexer[i].step \in {"mark", "usage", "persist", "finalize"}
      /\ UNCHANGED <<documents, lastDocument, lastVersion, grants, measuring, children,
                     versionRows, indexJobs>>
  BY DEF IndexingFails, documentTable
<1>2. RowsKept /\ ChildrenKept /\ JobsKept
  BY <1>1, SameRows
<1>3. "failed" \in IndexerStep
  BY DEF IndexerStep
<1> QED BY <1>1, <1>2, <1>3, TurnStep

(* A job that is still there belongs to a version that is still there.     *)
LEMMA FailIndexJobStep ==
  ASSUME RInv, NEW i \in Indexer, FailIndexJob(i)
  PROVE  RInv'
<1>1. /\ indexer[i].step = "failed" /\ TaskVersion(i) \in VersionId
      /\ UNCHANGED <<documents, lastDocument, lastVersion, grants, measuring, children,
                     versionRows>>
  BY TaskOfVersion DEF FailIndexJob, documentTable
<1>2. RowsKept /\ ChildrenKept
  BY <1>1, SameRows
<1>3. CASE indexJobs[TaskVersion(i)] = "absent"
  <2>1. UNCHANGED indexJobs /\ indexer' = [indexer EXCEPT ![i] = Ended]
    BY <1>3 DEF FailIndexJob
  <2>2. JobsKept
    BY <2>1, SameRows
  <2> QED BY <1>1, <1>2, <2>1, <2>2, EndStep
<1>4. CASE indexJobs[TaskVersion(i)] # "absent"
  <2>1. PICK outcome \in {"queued", "failed"} :
          /\ indexJobs' = [indexJobs EXCEPT ![TaskVersion(i)] = outcome]
          /\ TurnTo(i, IF outcome = "queued" THEN "requeued" ELSE "dropped")
    BY <1>4 DEF FailIndexJob
  <2>2. VersionExists(TaskVersion(i)) /\ outcome \in JobStatus \ {"absent"}
    BY <1>1, <1>4 DEF RInv, NoOrphans, JobStatus
  <2>3. JobsKept
    BY <1>1, <2>1, <2>2, JobWritten
  <2>4. PICK next \in {"requeued", "dropped"} : TurnTo(i, next)
    BY <2>1
  <2>5. next \in IndexerStep
    BY DEF IndexerStep
  <2> QED BY <1>1, <1>2, <2>3, <2>4, <2>5, TurnStep
<1> QED BY <1>3, <1>4

LEMMA RecordIndexFailureStep ==
  ASSUME RInv, NEW i \in Indexer, RecordIndexFailure(i)
  PROVE  RInv'
<1>1. /\ TaskVersion(i) \in VersionId /\ indexer' = [indexer EXCEPT ![i] = NoTask]
      /\ UNCHANGED <<documents, lastDocument, lastVersion, grants, measuring, children,
                     indexJobs>>
  BY TaskOfVersion DEF RecordIndexFailure, documentTable
<1>2. ReleaseVersion(TaskVersion(i)) \/ FailVersion(TaskVersion(i))
  BY DEF RecordIndexFailure
<1>3. RowsKept
  BY <1>1, <1>2, ReleasedRow, FailedRow
<1>4. ChildrenKept /\ JobsKept
  BY <1>1, SameRows
<1> QED BY <1>1, <1>3, <1>4, EndStep

(* A process that ends, or starts again, writes no row.                    *)
LEMMA ProcessStep ==
  ASSUME RInv, NEW i \in Indexer, WorkerError(i) \/ RestartWorker(i)
  PROVE  RInv'
<1>1. PICK task \in {NoTask, Ended} :
        /\ indexer' = [indexer EXCEPT ![i] = task]
        /\ UNCHANGED <<documents, lastDocument, lastVersion, grants, measuring, children,
                       versionRows, indexJobs>>
  BY DEF WorkerError, RestartWorker, documentTable
<1>2. RowsKept /\ ChildrenKept /\ JobsKept
  BY <1>1, SameRows
<1> QED BY <1>1, <1>2, EndStep

LEMMA ReclaimImportStep ==
  ASSUME RInv, NEW v \in VersionId, ReclaimImport(v)
  PROVE  RInv'
<1>1. PICK outcome \in {"queued", "failed"} : indexJobs' = [indexJobs EXCEPT ![v] = outcome]
  BY DEF ReclaimImport
<1>2. /\ VersionExists(v) /\ outcome \in JobStatus \ {"absent"}
      /\ UNCHANGED <<documents, lastDocument, lastVersion, grants, measuring, children,
                     versionRows, indexer>>
  BY DEF ReclaimImport, documentTable, RInv, NoOrphans, JobStatus
<1>3. JobsKept
  BY <1>1, <1>2, JobWritten
<1>4. Types' /\ Rows' /\ ServedHasChunks' /\ \A i \in Indexer : OwnTask(i)'
  BY <1>2, <1>3 DEF RInv, Types, Rows, ServedHasChunks, OwnTask, TaskVersion, VersionExists,
                    JobsKept
<1>5. NoOrphans'
  BY <1>2, <1>3 DEF RInv, NoOrphans, VersionExists, DocumentExists, JobsKept
<1> QED BY <1>4, <1>5 DEF RInv

(* New content: the numbers of the rows were never used, so no task, child *)
(* or job refers to them.                                                  *)
LEMMA NewVersion ==
  ASSUME RInv, NEW d \in DocumentId, lastVersion < MaxVersions,
         lastVersion' = lastVersion + 1, lastDocument' \in 0..MaxDocuments,
         documents' \in [DocumentId -> DocumentRow],
         documents'[d] # NoDocument,
         \A e \in DocumentId \ {d} : documents'[e] = documents[e],
         versionRows' = [versionRows EXCEPT
                           ![lastVersion'] = [document |-> d, status |-> "queued"]],
         children' = children \cup {<<"review", lastVersion'>>},
         NEW i \in Indexer, NEW step \in {"enqueue", "usage"},
         indexer' = [indexer EXCEPT ![i] = [step |-> step, version |-> lastVersion']],
         UNCHANGED <<grants, indexJobs, measuring>>
  PROVE  RInv'
<1> DEFINE n == lastVersion'
           row == [document |-> d, status |-> "queued"]
           task == [step |-> step, version |-> n]
<1>1. /\ n \in VersionId /\ n = lastVersion + 1 /\ n > lastVersion
      /\ lastVersion \in 0..MaxVersions /\ lastVersion' \in 0..MaxVersions
  BY RetentionAssumption DEF RInv, Types, VersionId
<1>2. /\ row \in VersionRow /\ row.document = d /\ row.status = "queued"
      /\ row # NoVersionRow
  BY NoRows DEF VersionRow
<1>3. /\ task \in Task /\ task.step = step /\ task.version = n
      /\ step \notin {"idle", "finalize", "dead"}
  BY <1>1 DEF Task, IndexerStep
<1> HIDE DEF row, task
<1>4. /\ versionRows' \in [VersionId -> VersionRow] /\ versionRows'[n] = row
      /\ \A v \in VersionId \ {n} : versionRows'[v] = versionRows[v]
  <2>1. versionRows' = [versionRows EXCEPT ![n] = row]
    BY DEF row
  <2> HIDE DEF n
  <2> QED BY <1>1, <1>2, <2>1 DEF RInv, Types
<1>5. /\ indexer' \in [Indexer -> Task] /\ indexer'[i] = task
      /\ \A k \in Indexer \ {i} : indexer'[k] = indexer[k]
  <2>1. indexer' = [indexer EXCEPT ![i] = task]
    BY DEF task
  <2> QED BY <1>3, <2>1 DEF RInv, Types
<1>6. /\ children' \subseteq ChildTable \X VersionId /\ children \subseteq children'
      /\ \A c \in children' : c \in children \/ c[2] = n
  BY <1>1 DEF RInv, Types, ChildTable
<1>7. /\ versionRows[n] = NoVersionRow
      /\ \A v \in VersionId : VersionExists(v) => versionRows'[v] = versionRows[v]
      /\ \A v \in VersionId : VersionExists(v) => versionRows'[v] # NoVersionRow
  <2>1. ~VersionExists(n)
    BY <1>1 DEF RInv, Rows, Types, VersionId
  <2> HIDE DEF n
  <2> QED BY <1>4, <2>1 DEF VersionExists
<1> HIDE DEF n
<1>8. Types'
  BY <1>1, <1>4, <1>5, <1>6 DEF RInv, Types
<1>9. Rows'
  BY <1>1, <1>2, <1>4 DEF RInv, Rows, VersionExists, VersionId, n
<1>10. \A e \in DocumentId : DocumentExists(e) => documents'[e] # NoDocument
  BY DEF DocumentExists
<1>11. NoOrphans'
  <2>1. \A v \in VersionId : VersionExists(v)' => DocumentExists(versionRows[v].document)'
    <3> SUFFICES ASSUME NEW v \in VersionId, VersionExists(v)'
                 PROVE  DocumentExists(versionRows[v].document)'
      OBVIOUS
    <3>1. CASE v = n
      BY <1>2, <1>4, <3>1 DEF DocumentExists
    <3>2. CASE v # n
      <4>1. versionRows'[v] = versionRows[v] /\ VersionExists(v)
        BY <1>4, <3>2 DEF VersionExists
      <4>2. versionRows[v].document \in DocumentId /\ DocumentExists(versionRows[v].document)
        BY <4>1 DEF RInv, NoOrphans, Rows
      <4> QED BY <1>10, <4>1, <4>2 DEF DocumentExists
    <3> QED BY <3>1, <3>2
  <2>2. \A c \in children' : VersionExists(c[2])'
    BY <1>2, <1>4, <1>6, <1>7 DEF RInv, Types, NoOrphans, VersionExists
  <2>3. \A e \in grants' : DocumentExists(e)'
    BY <1>10 DEF RInv, Types, NoOrphans, DocumentExists
  <2>4. \A v \in VersionId : indexJobs'[v] # "absent" => VersionExists(v)'
    BY <1>7 DEF RInv, NoOrphans, VersionExists
  <2> QED BY <2>1, <2>2, <2>3, <2>4 DEF NoOrphans
<1>12. ServedHasChunks'
  <2> SUFFICES ASSUME NEW v \in VersionId, versionRows'[v].status \in {"indexed", "superseded"}
               PROVE  <<"chunk", v>> \in children'
    BY DEF ServedHasChunks
  <2>1. v # n
    BY <1>2, <1>4
  <2> QED BY <1>4, <1>6, <2>1 DEF RInv, ServedHasChunks
<1>13. ASSUME NEW k \in Indexer PROVE OwnTask(k)'
  <2>1. CASE k = i
    <3>1. indexer'[k] = task
      BY <1>5, <2>1
    <3> QED BY <1>1, <1>3, <2>1, <3>1 DEF OwnTask, TaskVersion, n
  <2>2. CASE k # i
    <3>1. indexer'[k] = indexer[k] /\ OwnTask(k)
      BY <1>5, <2>2 DEF RInv
    <3>2. CASE indexer[k].step \in {"idle", "dead"}
      BY <3>1, <3>2 DEF OwnTask, TaskVersion
    <3>3. CASE indexer[k].step \notin {"idle", "dead"}
      <4>1. TaskVersion(k) \in VersionId /\ TaskVersion(k) <= lastVersion
        BY <3>1, <3>3 DEF OwnTask
      <4>2. TaskVersion(k) # n /\ TaskVersion(k) <= lastVersion'
        BY <1>1, <4>1 DEF VersionId
      <4>3. versionRows'[TaskVersion(k)] = versionRows[TaskVersion(k)]
        BY <1>4, <4>1, <4>2
      <4> QED BY <1>6, <3>1, <4>1, <4>2, <4>3 DEF OwnTask, TaskVersion, VersionExists
    <3> QED BY <3>2, <3>3
  <2> QED BY <2>1, <2>2
<1> QED BY <1>8, <1>9, <1>11, <1>12, <1>13 DEF RInv

LEMMA BeginDocumentImportStep ==
  ASSUME RInv, NEW i \in Indexer, NEW key \in SourceKey, BeginDocumentImport(i, key)
  PROVE  RInv'
<1> DEFINE step == IF i \in AsyncImport THEN "enqueue" ELSE "usage"
           row == [key |-> key, old |-> FALSE, expired |-> "no"]
<1>1. PICK d \in DocumentId :
        /\ \/ DocumentExists(d) /\ UNCHANGED <<documents, lastDocument>>
           \/ /\ d = lastDocument + 1 /\ lastDocument' = d
              /\ documents' = [documents EXCEPT ![d] = row]
        /\ versionRows' = [versionRows EXCEPT
                             ![lastVersion'] = [document |-> d, status |-> "queued"]]
  BY DEF BeginDocumentImport
<1>2. row \in DocumentRow /\ row # NoDocument
  BY RetentionAssumption DEF DocumentRow, NoDocument
<1>3. /\ lastVersion < MaxVersions /\ lastVersion' = lastVersion + 1
      /\ children' = children \cup {<<"review", lastVersion'>>}
      /\ UNCHANGED <<grants, indexJobs, measuring>>
  BY DEF BeginDocumentImport
<1>4. indexer' = [indexer EXCEPT ![i] = [step |-> step, version |-> lastVersion']]
  BY DEF BeginDocumentImport
<1>5. step \in {"enqueue", "usage"}
  OBVIOUS
<1> HIDE DEF step, row
<1>6. CASE DocumentExists(d) /\ UNCHANGED <<documents, lastDocument>>
  <2>1. /\ lastDocument' \in 0..MaxDocuments /\ documents' \in [DocumentId -> DocumentRow]
        /\ documents'[d] # NoDocument
        /\ \A e \in DocumentId \ {d} : documents'[e] = documents[e]
    BY <1>6 DEF DocumentExists, RInv, Types
  <2> QED BY <1>1, <1>3, <1>4, <1>5, <2>1, NewVersion
<1>7. CASE /\ d = lastDocument + 1 /\ lastDocument' = d
           /\ documents' = [documents EXCEPT ![d] = row]
  <2>1. /\ documents' \in [DocumentId -> DocumentRow] /\ documents'[d] # NoDocument
        /\ \A e \in DocumentId \ {d} : documents'[e] = documents[e]
    BY <1>2, <1>7 DEF RInv, Types
  <2>2. lastDocument' \in 0..MaxDocuments
    BY <1>7, RetentionAssumption DEF DocumentId
  <2> QED BY <1>1, <1>3, <1>4, <1>5, <2>1, <2>2, NewVersion
<1> QED BY <1>1, <1>6, <1>7

-----------------------------------------------------------------------------
(* Grants and measurements.                                                *)

LEMMA GrantAccessStep ==
  ASSUME RInv, NEW d \in DocumentId, GrantAccess(d)
  PROVE  RInv'
<1>1. /\ DocumentExists(d) /\ grants' = grants \cup {d}
      /\ UNCHANGED <<documents, lastDocument, lastVersion, versionRows, children, indexJobs,
                     indexer, measuring>>
  BY DEF GrantAccess, documentTable
<1>2. Types' /\ Rows' /\ ServedHasChunks' /\ \A i \in Indexer : OwnTask(i)'
  BY <1>1 DEF RInv, Types, Rows, ServedHasChunks, OwnTask, TaskVersion, VersionExists
<1>3. NoOrphans'
  BY <1>1 DEF RInv, NoOrphans, VersionExists, DocumentExists
<1> QED BY <1>2, <1>3 DEF RInv

(* A measurement adds children to a version that exists.                   *)
LEMMA MeasurementStep ==
  ASSUME RInv, ChildrenKept, measuring' \in [Measurement -> MeasurementRun],
         UNCHANGED <<documents, lastDocument, lastVersion, versionRows, grants, indexJobs,
                     indexer>>
  PROVE  RInv'
<1>1. Types'
  BY DEF RInv, Types, ChildrenKept
<1>2. Rows' /\ ServedHasChunks' /\ \A i \in Indexer : OwnTask(i)'
  BY DEF RInv, Rows, ServedHasChunks, OwnTask, TaskVersion, VersionExists, ChildrenKept
<1>3. NoOrphans'
  BY DEF RInv, NoOrphans, VersionExists, DocumentExists, ChildrenKept
<1> QED BY <1>1, <1>2, <1>3 DEF RInv

LEMMA BeginMeasurementStep ==
  ASSUME RInv, NEW m \in Measurement, NEW v \in VersionId, BeginMeasurement(m, v)
  PROVE  RInv'
<1>1. /\ VersionExists(v) /\ InsertChild("run", v) /\ "run" \in ChildTable
      /\ measuring' = [measuring EXCEPT ![m] = [step |-> "running", version |-> v]]
      /\ UNCHANGED <<documents, lastDocument, lastVersion, versionRows, grants, indexJobs,
                     indexer>>
  BY DEF BeginMeasurement, documentTable, ChildTable
<1>2. ChildrenKept /\ measuring' \in [Measurement -> MeasurementRun]
  BY <1>1, ChildInserted DEF RInv, Types, MeasurementRun
<1> QED BY <1>1, <1>2, MeasurementStep

(* The run that is still there belongs to a version that is still there.   *)
LEMMA EndMeasurementStep ==
  ASSUME RInv, NEW m \in Measurement, EndMeasurement(m)
  PROVE  RInv'
<1>1. /\ measuring' = [measuring EXCEPT ![m] = [step |-> "ended", version |-> 0]]
      /\ UNCHANGED <<documents, lastDocument, lastVersion, versionRows, grants, indexJobs,
                     indexer>>
  BY DEF EndMeasurement, documentTable
<1>2. measuring' \in [Measurement -> MeasurementRun]
  BY <1>1 DEF RInv, Types, MeasurementRun
<1>3. CASE <<"run", measuring[m].version>> \in children
  <2>1. InsertChild("result", measuring[m].version) /\ "result" \in ChildTable
    BY <1>3 DEF EndMeasurement, ChildTable
  <2>2. measuring[m].version \in VersionId /\ VersionExists(measuring[m].version)
    BY <1>3 DEF RInv, Types, NoOrphans
  <2>3. ChildrenKept
    BY <2>1, <2>2, ChildInserted
  <2> QED BY <1>1, <1>2, <2>3, MeasurementStep
<1>4. CASE <<"run", measuring[m].version>> \notin children
  <2>1. UNCHANGED children
    BY <1>4 DEF EndMeasurement
  <2>2. ChildrenKept
    BY <2>1, SameRows
  <2> QED BY <1>1, <1>2, <2>2, MeasurementStep
<1> QED BY <1>3, <1>4

-----------------------------------------------------------------------------
(* The purge.                                                              *)

(* Marking and ageing change rows of documents that exist.                 *)
LEMMA MarkStep ==
  ASSUME RInv, documents' \in [DocumentId -> DocumentRow],
         \A d \in DocumentId : DocumentExists(d) => documents'[d] # NoDocument,
         UNCHANGED <<lastDocument, lastVersion, versionRows, children, grants, indexJobs,
                     indexer, measuring>>
  PROVE  RInv'
<1>1. Types' /\ Rows' /\ ServedHasChunks' /\ \A i \in Indexer : OwnTask(i)'
  BY DEF RInv, Types, Rows, ServedHasChunks, OwnTask, TaskVersion, VersionExists
<1>2. NoOrphans'
  BY DEF RInv, Types, Rows, NoOrphans, VersionExists, DocumentExists
<1> QED BY <1>1, <1>2 DEF RInv

LEMMA DocumentWritten ==
  ASSUME NEW old \in DocumentRow \ {NoDocument}, NEW state \in {"marked", "due"}
  PROVE  /\ LET new == [old EXCEPT !.old = TRUE] IN new \in DocumentRow /\ new # NoDocument
         /\ LET new == [old EXCEPT !.expired = state] IN
              new \in DocumentRow /\ new # NoDocument
BY NoRows DEF DocumentRow

LEMMA SoftPurgeStep ==
  ASSUME RInv, SoftPurge
  PROVE  RInv'
<1> DEFINE marked(d) == [documents[d] EXCEPT !.expired = "marked"]
           due(d) == documents[d].old /\ documents[d].expired = "no"
<1>1. /\ documents' = [d \in DocumentId |-> IF due(d) THEN marked(d) ELSE documents[d]]
      /\ UNCHANGED <<lastDocument, lastVersion, versionRows, children, grants, indexJobs,
                     indexer, measuring>>
  BY DEF SoftPurge
<1>2. \A d \in DocumentId : due(d) => marked(d) \in DocumentRow /\ marked(d) # NoDocument
  BY NoRows, DocumentWritten DEF RInv, Types
<1> HIDE DEF marked, due
<1>3. documents' \in [DocumentId -> DocumentRow]
  BY <1>1, <1>2 DEF RInv, Types
<1>4. \A d \in DocumentId : DocumentExists(d) => documents'[d] # NoDocument
  BY <1>1, <1>2 DEF DocumentExists
<1> QED BY <1>1, <1>3, <1>4, MarkStep

LEMMA DocumentAgesStep ==
  ASSUME RInv, NEW d \in DocumentId, DocumentAges(d)
  PROVE  RInv'
<1> DEFINE aged == [documents[d] EXCEPT !.old = TRUE]
           due == [documents[d] EXCEPT !.expired = "due"]
<1>1. /\ documents' = [documents EXCEPT ![d] = aged] \/ documents' = [documents EXCEPT ![d] = due]
      /\ UNCHANGED <<lastDocument, lastVersion, versionRows, children, grants, indexJobs,
                     indexer, measuring>>
  BY DEF DocumentAges
<1>2. aged \in DocumentRow /\ aged # NoDocument /\ due \in DocumentRow /\ due # NoDocument
  <2>1. documents[d] \in DocumentRow \ {NoDocument}
    BY DEF DocumentAges, DocumentExists, RInv, Types
  <2> QED BY <2>1, DocumentWritten
<1> HIDE DEF aged, due
<1>3. documents' \in [DocumentId -> DocumentRow]
  BY <1>1, <1>2 DEF RInv, Types
<1>4. \A e \in DocumentId : DocumentExists(e) => documents'[e] # NoDocument
  BY <1>1, <1>2 DEF DocumentExists, RInv, Types
<1> QED BY <1>1, <1>3, <1>4, MarkStep

(* Every table loses the rows of the purged documents and no others.       *)
LEMMA HardPurgeStep ==
  ASSUME RInv, HardPurge
  PROVE  RInv'
<1>1. /\ documents' = [d \in DocumentId |-> IF d \in PurgeDue THEN NoDocument
                                                             ELSE documents[d]]
      /\ versionRows' = [v \in VersionId |-> IF v \in PurgedVersions THEN NoVersionRow
                                                                   ELSE versionRows[v]]
      /\ children' = children \ (ChildTable \X PurgedVersions)
      /\ grants' = grants \ PurgeDue
      /\ indexJobs' = [v \in VersionId |-> IF v \in PurgedVersions THEN "absent"
                                                                 ELSE indexJobs[v]]
      /\ UNCHANGED <<lastDocument, lastVersion, indexer, measuring>>
  BY DEF HardPurge, PurgedTables
<1>2. Types'
  <2>1. documents' \in [DocumentId -> DocumentRow] /\ versionRows' \in [VersionId -> VersionRow]
    BY <1>1, NoRows DEF RInv, Types
  <2>2. indexJobs' \in [VersionId -> JobStatus]
    BY <1>1 DEF RInv, Types, JobStatus
  <2> QED BY <1>1, <2>1, <2>2 DEF RInv, Types
<1>3. Rows'
  BY <1>1, NoRows DEF RInv, Rows, VersionExists
<1>4. NoOrphans'
  <2>1. \A v \in VersionId : VersionExists(v)' => DocumentExists(versionRows[v].document)'
    <3> SUFFICES ASSUME NEW v \in VersionId, VersionExists(v)'
                 PROVE  DocumentExists(versionRows[v].document)'
      OBVIOUS
    <3>1. v \notin PurgedVersions /\ versionRows'[v] = versionRows[v] /\ VersionExists(v)
      BY <1>1 DEF VersionExists
    <3>2. /\ versionRows[v].document \in DocumentId \ PurgeDue
          /\ DocumentExists(versionRows[v].document)
      BY <3>1 DEF RInv, Rows, NoOrphans, PurgedVersions
    <3> QED BY <1>1, <3>1, <3>2 DEF DocumentExists
  <2>2. \A c \in children' : VersionExists(c[2])'
    <3> SUFFICES ASSUME NEW c \in children' PROVE VersionExists(c[2])'
      OBVIOUS
    <3>1. c \in children /\ c[2] \in VersionId /\ c[2] \notin PurgedVersions
      BY <1>1 DEF RInv, Types
    <3> QED BY <1>1, <3>1 DEF RInv, NoOrphans, VersionExists
  <2>3. \A d \in grants' : DocumentExists(d)'
    BY <1>1 DEF RInv, Types, NoOrphans, DocumentExists
  <2>4. \A v \in VersionId : indexJobs'[v] # "absent" => VersionExists(v)'
    BY <1>1 DEF RInv, NoOrphans, VersionExists
  <2> QED BY <2>1, <2>2, <2>3, <2>4 DEF NoOrphans
<1>5. ServedHasChunks'
  <2> SUFFICES ASSUME NEW v \in VersionId, versionRows'[v].status \in {"indexed", "superseded"}
               PROVE  <<"chunk", v>> \in children'
    BY DEF ServedHasChunks
  <2>1. v \notin PurgedVersions /\ versionRows'[v] = versionRows[v]
    BY <1>1, NoRows
  <2> QED BY <1>1, <2>1 DEF RInv, ServedHasChunks
<1>6. ASSUME NEW i \in Indexer PROVE OwnTask(i)'
  <2>1. OwnTask(i) /\ indexer'[i] = indexer[i] /\ lastVersion' = lastVersion
    BY <1>1 DEF RInv
  <2>2. CASE TaskVersion(i) \notin VersionId
    BY <2>1, <2>2 DEF OwnTask, TaskVersion
  <2>3. CASE TaskVersion(i) \in PurgedVersions /\ TaskVersion(i) \in VersionId
    <3>1. versionRows'[TaskVersion(i)] = NoVersionRow
      BY <1>1, <2>3
    <3> QED BY <2>1, <3>1 DEF OwnTask, TaskVersion, VersionExists
  <2>4. CASE TaskVersion(i) \in VersionId \ PurgedVersions
    <3>1. /\ versionRows'[TaskVersion(i)] = versionRows[TaskVersion(i)]
          /\ indexJobs'[TaskVersion(i)] = indexJobs[TaskVersion(i)]
          /\ <<"chunk", TaskVersion(i)>> \in children =>
               <<"chunk", TaskVersion(i)>> \in children'
      BY <1>1, <2>4
    <3> QED BY <2>1, <3>1 DEF OwnTask, TaskVersion, VersionExists
  <2> QED BY <2>2, <2>3, <2>4
<1> QED BY <1>2, <1>3, <1>4, <1>5, <1>6 DEF RInv

-----------------------------------------------------------------------------
(* The theorems.                                                           *)

LEMMA RInvInitially == RetentionInit => RInv
<1> SUFFICES ASSUME RetentionInit PROVE RInv
  OBVIOUS
<1>1. Types
  BY NoRows, RetentionAssumption DEF RetentionInit, Types, JobStatus, MeasurementRun
<1>2. Rows /\ NoOrphans /\ ServedHasChunks
  BY NoRows DEF RetentionInit, Rows, NoOrphans, ServedHasChunks, VersionExists
<1>3. \A i \in Indexer : OwnTask(i)
  BY NoRows DEF RetentionInit, OwnTask, TaskVersion
<1> QED BY <1>1, <1>2, <1>3 DEF RInv

LEMMA RInvInductive == RInv /\ [RetentionNext]_retentionVars => RInv'
<1> SUFFICES ASSUME RInv, [RetentionNext]_retentionVars PROVE RInv'
  OBVIOUS
<1>1. ASSUME NEW i \in Indexer, IndexerNext(i) PROVE RInv'
  BY <1>1, BeginDocumentImportStep, EnqueueImportJobStep, ClaimImportStep,
     MarkVersionProcessingStep, RecordEmbeddingUsagesStep, PersistDocumentChunksStep,
     FinalizeVersionStep, CompleteIndexingStep, IndexingFailsStep, FailIndexJobStep,
     RecordIndexFailureStep, ProcessStep DEF IndexerNext
<1>2. ASSUME NEW d \in DocumentId, GrantAccess(d) \/ DocumentAges(d) PROVE RInv'
  BY <1>2, GrantAccessStep, DocumentAgesStep
<1>3. ASSUME NEW m \in Measurement,
             (\E v \in VersionId : BeginMeasurement(m, v)) \/ EndMeasurement(m)
      PROVE  RInv'
  BY <1>3, BeginMeasurementStep, EndMeasurementStep
<1>4. CASE Purge
  BY <1>4, SoftPurgeStep, HardPurgeStep DEF Purge
<1>5. ASSUME NEW v \in VersionId, ReclaimImport(v) PROVE RInv'
  BY <1>5, ReclaimImportStep
<1>6. CASE UNCHANGED retentionVars
  BY <1>6 DEF retentionVars, documentTable, RInv, Types, Rows, NoOrphans, ServedHasChunks,
              OwnTask, TaskVersion, VersionExists, DocumentExists
<1> QED BY <1>1, <1>2, <1>3, <1>4, <1>5, <1>6 DEF RetentionNext

(* Every variable of the tables and of the indexers keeps its type.        *)
THEOREM RetentionTypesHold == RetentionSpec => []RetentionTypeOK
<1>1. RInv => RetentionTypeOK
  <2> SUFFICES ASSUME RInv PROVE RetentionTypeOK
    OBVIOUS
  <2>1. ASSUME NEW d \in DocumentId
        PROVE  \/ documents[d] = NoDocument
               \/ /\ documents[d].key \in SourceKey
                  /\ documents[d].old \in BOOLEAN
                  /\ documents[d].expired \in {"no", "marked", "due"}
    BY DEF RInv, Types, DocumentRow
  <2> QED BY <2>1 DEF RInv, Types, VersionRow, Task, MeasurementRun, JobStatus, RetentionTypeOK
<1> QED BY <1>1, RInvInitially, RInvInductive, PTL DEF RetentionSpec

(* No row outlives its document or version, however imports, workers and   *)
(* evaluations interleave with the purge (_purge_expired_documents).       *)
THEOREM NoOrphansRemain == RetentionSpec => []NoOrphans
<1>1. RInv => NoOrphans
  BY DEF RInv
<1> QED BY <1>1, RInvInitially, RInvInductive, PTL DEF RetentionSpec

(* A version that is or was served has its chunks until it is purged       *)
(* (persist_document_chunks, finalize_document_version).                   *)
THEOREM ServedKeepsChunks == RetentionSpec => []ServedHasChunks
<1>1. RInv => ServedHasChunks
  BY DEF RInv
<1> QED BY <1>1, RInvInitially, RInvInductive, PTL DEF RetentionSpec
=============================================================================
