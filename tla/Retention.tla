----------------------------- MODULE Retention -----------------------------
(***************************************************************************)
(* Retention: retention_purge of src/backend/database.py marks documents   *)
(* that are past the retention window and, a grace period later, deletes   *)
(* them with every row that belongs to them, while imports, the worker and *)
(* evaluations go on writing such rows.                                    *)
(*                                                                         *)
(* Rows are identified by their primary keys, which the database does not  *)
(* give out twice; a source key imported again after a purge is a new      *)
(* document.  Foreign keys are enforced, as PostgreSQL does: an insert     *)
(* that refers to a deleted row is an error of the caller.                 *)
(***************************************************************************)
EXTENDS Naturals

CONSTANTS SourceKey,     \* source_key of a document
          MaxDocuments,  \* bound: rows of documents ever inserted
          MaxVersions,   \* bound: rows of document_versions ever inserted
          SyncImport,    \* importers that index what they import themselves
          AsyncImport,   \* requests to the endpoint that queue a job instead
          IndexWorker,   \* worker replicas
          Measurement,   \* evaluation runs, each about one version
          DatabaseMayFail  \* whether a transaction a worker makes outside the try
                           \* of _execute may fail for a reason of its own

ASSUME RetentionAssumption == /\ "none" \notin SourceKey
                              /\ DatabaseMayFail \in BOOLEAN
                              /\ MaxDocuments \in Nat \ {0}
                              /\ MaxVersions \in Nat \ {0}

VARIABLES documents,     \* documents[d]: the row of d, or NoDocument
          lastDocument,  \* the sequences of both tables
          lastVersion,
          versionRows,   \* versionRows[v]: the row of v, or NoVersionRow
          children,      \* rows of the tables that refer to a version
          grants,        \* documents with rows in document_acl
          indexJobs,     \* indexJobs[v]: status of v's import job
          indexer,       \* indexer[i]: what i does next, and for which version
          measuring      \* measuring[m]: where run m is, and its version

Indexer == SyncImport \cup AsyncImport \cup IndexWorker

documentTable == <<documents, lastDocument, lastVersion>>
retentionVars == <<documentTable, versionRows, children, grants, indexJobs, indexer,
                   measuring>>

DocumentId == 1..MaxDocuments
VersionId == 1..MaxVersions
ChildTable == {"chunk", "review", "usage", "run", "result"}

NoDocument == [key |-> "none", old |-> FALSE, expired |-> "no"]
NoVersionRow == [document |-> 0, status |-> "absent"]

IndexerStep == {"idle", "enqueue", "mark", "usage", "persist", "finalize",
                "complete", "failed", "requeued", "dropped", "dead"}

RetentionTypeOK ==
  /\ \A d \in DocumentId :
       documents[d] = NoDocument \/ /\ documents[d].key \in SourceKey
                                    /\ documents[d].old \in BOOLEAN
                                    /\ documents[d].expired \in {"no", "marked", "due"}
  /\ lastDocument \in 0..MaxDocuments
  /\ lastVersion \in 0..MaxVersions
  /\ versionRows \in [VersionId ->
                        [document : {0} \cup DocumentId,
                         status : {"absent", "queued", "processing", "indexed",
                                   "superseded", "failed"}]]
  /\ children \subseteq ChildTable \X VersionId
  /\ grants \subseteq DocumentId
  /\ indexJobs \in [VersionId -> {"absent", "queued", "running", "succeeded", "failed"}]
  /\ indexer \in [Indexer -> [step : IndexerStep, version : {0} \cup VersionId]]
  /\ measuring \in [Measurement -> [step : {"new", "running", "ended"},
                                   version : {0} \cup VersionId]]

NoTask == [step |-> "idle", version |-> 0]
Ended == [step |-> "dead", version |-> 0]

RetentionInit ==
  /\ documents = [d \in DocumentId |-> NoDocument]
  /\ lastDocument = 0
  /\ lastVersion = 0
  /\ versionRows = [v \in VersionId |-> NoVersionRow]
  /\ children = {}
  /\ grants = {}
  /\ indexJobs = [v \in VersionId |-> "absent"]
  /\ indexer = [i \in Indexer |-> NoTask]
  /\ measuring = [m \in Measurement |-> [step |-> "new", version |-> 0]]

-----------------------------------------------------------------------------
(* An operator X_Y before an operator X is X with a plausible mistake in   *)
(* it; no action uses it.                                                  *)

DocumentExists(d) == documents[d] # NoDocument
VersionExists(v) == versionRows[v] # NoVersionRow
VersionsOf(d) == {v \in VersionId : versionRows[v].document = d}

TurnTo(i, step) == indexer' = [indexer EXCEPT ![i].step = step]
SetVersionRow(v, status) == versionRows' = [versionRows EXCEPT ![v].status = status]
TaskVersion(i) == indexer[i].version

(* begin_document_import of new content: the document of that source key   *)
(* gets another version, and keeps its expired_at; without one a document  *)
(* is inserted.  A synchronous import goes on by itself, the asynchronous  *)
(* endpoint queues a job.                                                  *)
BeginDocumentImport(i, key) ==
  /\ i \notin IndexWorker
  /\ indexer[i].step = "idle"
  /\ lastVersion < MaxVersions
  /\ lastVersion' = lastVersion + 1
  /\ \E d \in DocumentId :
       /\ \/ DocumentExists(d) /\ documents[d].key = key
             /\ UNCHANGED <<documents, lastDocument>>
          \/ /\ \A e \in DocumentId : documents[e].key # key
             /\ d = lastDocument + 1
             /\ lastDocument' = d
             /\ documents' = [documents EXCEPT
                                ![d] = [key |-> key, old |-> FALSE, expired |-> "no"]]
       /\ versionRows' = [versionRows EXCEPT
                            ![lastVersion'] = [document |-> d, status |-> "queued"]]
  /\ children' = children \cup {<<"review", lastVersion'>>}
  /\ indexer' = [indexer EXCEPT
                   ![i] = [step |-> IF i \in AsyncImport THEN "enqueue" ELSE "usage",
                           version |-> lastVersion']]
  /\ UNCHANGED <<grants, indexJobs, measuring>>

FailVersion(v) == versionRows' = [versionRows EXCEPT
                                    ![v].status = IF VersionExists(v) THEN "failed" ELSE @]

(* enqueue_ingestion_job; if it fails, because the version is gone or for  *)
(* another reason, fail_document_import passes over a version that is gone.*)
EnqueueImportJob(i) ==
  /\ indexer[i].step = "enqueue"
  /\ \/ /\ VersionExists(TaskVersion(i))
        /\ indexJobs' = [indexJobs EXCEPT ![TaskVersion(i)] = "queued"]
        /\ UNCHANGED versionRows
     \/ FailVersion(TaskVersion(i)) /\ UNCHANGED indexJobs
  /\ indexer' = [indexer EXCEPT ![i] = NoTask]
  /\ UNCHANGED <<documentTable, children, grants, measuring>>

(* claim_ingestion_job, then what the job does with its version.           *)
ClaimImport(i, v) ==
  /\ i \in IndexWorker
  /\ indexer[i].step = "idle"
  /\ indexJobs[v] = "queued"
  /\ indexJobs' = [indexJobs EXCEPT ![v] = "running"]
  /\ indexer' = [indexer EXCEPT ![i] = [step |-> "mark", version |-> v]]
  /\ UNCHANGED <<documentTable, versionRows, children, grants, measuring>>

Writable(v) == versionRows[v].status \in {"queued", "processing"}

MarkVersionProcessing(i) ==
  /\ indexer[i].step = "mark"
  /\ Writable(TaskVersion(i))
  /\ SetVersionRow(TaskVersion(i), "processing")
  /\ TurnTo(i, "usage")
  /\ UNCHANGED <<documentTable, children, grants, indexJobs, measuring>>

InsertChild(table, v) == children' = children \cup {<<table, v>>}

(* record_embedding_usages, after the embeddings were computed; it looks   *)
(* at no version, its foreign key does.                                    *)
RecordEmbeddingUsages(i) ==
  /\ indexer[i].step = "usage"
  /\ VersionExists(TaskVersion(i))
  /\ InsertChild("usage", TaskVersion(i))
  /\ TurnTo(i, "persist")
  /\ UNCHANGED <<documentTable, versionRows, grants, indexJobs, measuring>>

PersistDocumentChunks(i) ==
  /\ indexer[i].step = "persist"
  /\ Writable(TaskVersion(i))
  /\ InsertChild("chunk", TaskVersion(i))
  /\ TurnTo(i, "finalize")
  /\ UNCHANGED <<documentTable, versionRows, grants, indexJobs, measuring>>

(* finalize_document_version in direct mode.                               *)
FinalizeVersion(i) == LET v == TaskVersion(i) IN
  /\ indexer[i].step = "finalize"
  /\ Writable(v)
  /\ versionRows' =
       [w \in VersionId |->
          IF w = v THEN [versionRows[v] EXCEPT !.status = "indexed"]
          ELSE IF /\ versionRows[w].document = versionRows[v].document
                  /\ versionRows[w].status = "indexed"
               THEN [versionRows[w] EXCEPT !.status = "superseded"]
          ELSE versionRows[w]]
  /\ TurnTo(i, "complete")
  /\ UNCHANGED <<documentTable, children, grants, indexJobs, measuring>>

(* complete_ingestion_job writes nothing if the row is gone.               *)
CompleteIndexing(i) ==
  /\ indexer[i].step = "complete"
  /\ indexJobs' = [indexJobs EXCEPT ![TaskVersion(i)] =
                     IF i \in IndexWorker /\ @ = "running" THEN "succeeded" ELSE @]
  /\ indexer' = [indexer EXCEPT ![i] = NoTask]
  /\ UNCHANGED <<documentTable, versionRows, children, grants, measuring>>

(* Any call may fail; one that needs a version that is gone does.          *)
IndexingFails(i) ==
  /\ indexer[i].step \in {"mark", "usage", "persist", "finalize"}
  /\ TurnTo(i, "failed")
  /\ UNCHANGED <<documentTable, versionRows, children, grants, indexJobs, measuring>>

(* _record_failure: fail_ingestion_job, in which the absence of the job    *)
(* raises ValueError ...                                                   *)
FailIndexJob(i) ==
  /\ indexer[i].step = "failed"
  /\ i \in IndexWorker
  /\ IF indexJobs[TaskVersion(i)] = "absent"
     THEN indexer' = [indexer EXCEPT ![i] = Ended] /\ UNCHANGED indexJobs
     ELSE \E outcome \in {"queued", "failed"} :
            /\ indexJobs' = [indexJobs EXCEPT ![TaskVersion(i)] = outcome]
            /\ TurnTo(i, IF outcome = "queued" THEN "requeued" ELSE "dropped")
  /\ UNCHANGED <<documentTable, versionRows, children, grants, measuring>>

(* ... then the version's transaction, in which the absence of the version *)
(* is no error; a synchronous import has only this one.  The audit event   *)
(* that follows refers to neither.                                         *)
ReleaseVersion(v) ==
  versionRows' = [versionRows EXCEPT
                    ![v].status = IF @ \in {"processing", "failed"} THEN "queued" ELSE @]

RecordIndexFailure(i) ==
  /\ \/ indexer[i].step = "requeued" /\ ReleaseVersion(TaskVersion(i))
     \/ /\ indexer[i].step = IF i \in SyncImport THEN "failed" ELSE "dropped"
        /\ FailVersion(TaskVersion(i))
  /\ indexer' = [indexer EXCEPT ![i] = NoTask]
  /\ UNCHANGED <<documentTable, children, grants, indexJobs, measuring>>

(* Reclaiming and claiming, the heartbeat and the completion after the     *)
(* index, the audit events, and everything else in _record_failure, are    *)
(* outside the try of _execute: an error of any of them leaves run_once    *)
(* and run_forever, which catch KeyboardInterrupt only, and the process    *)
(* ends.                                                                   *)
WorkerError(i) ==
  /\ DatabaseMayFail
  /\ i \in IndexWorker
  /\ indexer[i].step \in {"idle", "complete", "failed", "requeued", "dropped"}
  /\ indexer' = [indexer EXCEPT ![i] = Ended]
  /\ UNCHANGED <<documentTable, versionRows, children, grants, indexJobs, measuring>>

(* The supervisor starts the process again.  One that was killed before a  *)
(* transaction leaves what an error of the transaction would.              *)
RestartWorker(i) ==
  /\ indexer[i].step = "dead"
  /\ indexer' = [indexer EXCEPT ![i] = NoTask]
  /\ UNCHANGED <<documentTable, versionRows, children, grants, indexJobs, measuring>>

(* reclaim_stale_ingestion_jobs; as in IngestionQueue when it is timely,   *)
(* the job of a worker that holds it no more.                              *)
ReclaimImport(v) ==
  /\ indexJobs[v] = "running"
  /\ \A i \in IndexWorker :
       TaskVersion(i) = v => indexer[i].step \in {"requeued", "dropped"}
  /\ \E outcome \in {"queued", "failed"} : indexJobs' = [indexJobs EXCEPT ![v] = outcome]
  /\ UNCHANGED <<documentTable, versionRows, children, grants, indexer, measuring>>

-----------------------------------------------------------------------------
(* What else adds rows: the ACL endpoint, and evaluation runs.             *)

GrantAccess(d) ==
  /\ DocumentExists(d)
  /\ grants' = grants \cup {d}
  /\ UNCHANGED <<documentTable, versionRows, children, indexJobs, indexer, measuring>>

BeginMeasurement(m, v) ==
  /\ measuring[m].step = "new"
  /\ VersionExists(v)
  /\ InsertChild("run", v)
  /\ measuring' = [measuring EXCEPT ![m] = [step |-> "running", version |-> v]]
  /\ UNCHANGED <<documentTable, versionRows, grants, indexJobs, indexer>>

(* complete_evaluation_run refuses a run that is gone.                     *)
EndMeasurement(m) ==
  /\ measuring[m].step = "running"
  /\ IF <<"run", measuring[m].version>> \in children
     THEN InsertChild("result", measuring[m].version)
     ELSE UNCHANGED children
  /\ measuring' = [measuring EXCEPT ![m] = [step |-> "ended", version |-> 0]]
  /\ UNCHANGED <<documentTable, versionRows, grants, indexJobs, indexer>>

-----------------------------------------------------------------------------
(* retention_purge: two transactions, of which a call makes one or both.   *)

SoftPurge ==
  /\ documents' = [d \in DocumentId |->
                     IF documents[d].old /\ documents[d].expired = "no"
                     THEN [documents[d] EXCEPT !.expired = "marked"]
                     ELSE documents[d]]
  /\ UNCHANGED <<lastDocument, lastVersion, versionRows, children, grants, indexJobs,
                 indexer, measuring>>

PurgeDue == {d \in DocumentId : documents[d].expired = "due"}
PurgedVersions == {v \in VersionId : versionRows[v].document \in PurgeDue}

PurgedTables_KeepUsage == ChildTable \ {"usage"}

(* _purge_expired_documents: what is deleted for the purged versions.      *)
PurgedTables == ChildTable

HardPurge_ChildrenFirst ==
  /\ PurgeDue # {}
  /\ children' = children \ (PurgedTables \X PurgedVersions)
  /\ UNCHANGED <<documentTable, versionRows, grants, indexJobs, indexer, measuring>>

HardPurge ==
  /\ PurgeDue # {}
  /\ documents' = [d \in DocumentId |-> IF d \in PurgeDue THEN NoDocument ELSE documents[d]]
  /\ versionRows' = [v \in VersionId |-> IF v \in PurgedVersions THEN NoVersionRow
                                                                 ELSE versionRows[v]]
  /\ children' = children \ (PurgedTables \X PurgedVersions)
  /\ grants' = grants \ PurgeDue
  /\ indexJobs' = [v \in VersionId |-> IF v \in PurgedVersions THEN "absent"
                                                               ELSE indexJobs[v]]
  /\ UNCHANGED <<lastDocument, lastVersion, indexer, measuring>>

Purge == SoftPurge \/ HardPurge

(* created_at passes the retention window; expired_at the grace period.    *)
DocumentAges(d) ==
  /\ DocumentExists(d)
  /\ \/ ~documents[d].old /\ documents' = [documents EXCEPT ![d].old = TRUE]
     \/ /\ documents[d].expired = "marked"
        /\ documents' = [documents EXCEPT ![d].expired = "due"]
  /\ UNCHANGED <<lastDocument, lastVersion, versionRows, children, grants, indexJobs,
                 indexer, measuring>>

-----------------------------------------------------------------------------
IndexerNext(i) == \/ \E key \in SourceKey : BeginDocumentImport(i, key)
                  \/ EnqueueImportJob(i)
                  \/ \E v \in VersionId : ClaimImport(i, v)
                  \/ MarkVersionProcessing(i)
                  \/ RecordEmbeddingUsages(i)
                  \/ PersistDocumentChunks(i)
                  \/ FinalizeVersion(i)
                  \/ CompleteIndexing(i)
                  \/ IndexingFails(i)
                  \/ FailIndexJob(i)
                  \/ RecordIndexFailure(i)
                  \/ WorkerError(i)
                  \/ RestartWorker(i)

RetentionNext ==
  \/ \E i \in Indexer : IndexerNext(i)
  \/ \E d \in DocumentId : GrantAccess(d) \/ DocumentAges(d)
  \/ \E m \in Measurement : \/ \E v \in VersionId : BeginMeasurement(m, v)
                             \/ EndMeasurement(m)
  \/ \E v \in VersionId : ReclaimImport(v)
  \/ Purge

RetentionSpec == RetentionInit /\ [][RetentionNext]_retentionVars

-----------------------------------------------------------------------------
(* Properties.                                                             *)

(* The database holds no row whose document or version is gone, whatever   *)
(* was writing when the purge came: the purge deletes the rows of every    *)
(* table, and no import, worker or evaluation that began before brings     *)
(* any of them back (_purge_expired_documents).                            *)
NoOrphans ==
  /\ \A v \in VersionId : VersionExists(v) => DocumentExists(versionRows[v].document)
  /\ \A c \in children : VersionExists(c[2])
  /\ \A d \in grants : DocumentExists(d)
  /\ \A v \in VersionId : indexJobs[v] # "absent" => VersionExists(v)

(* A served version has its chunks, though a purge may delete any version  *)
(* between the transactions that write them.                               *)
ServedHasChunks ==
  \A v \in VersionId : versionRows[v].status \in {"indexed", "superseded"} =>
    <<"chunk", v>> \in children

(* The comment in IngestionWorker._execute: the worker boundary must not   *)
(* kill the loop.                                                          *)
WorkerLoopSurvives == \A i \in Indexer : indexer[i].step # "dead"
=============================================================================
