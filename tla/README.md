# Verification of DocMind IT

TLA+ models of DocMind IT: of the document path (from an upload, through the
indexing workers, the reviewers and the evaluation gate, to what searches may
return, and to the purge), and of the query path (sign-in, quota, access
control, the answer pipeline, feedback). TLC runs check small instances, and
TLAPS proves theorems for every value of the constants. `PROJECT.json` lists
the runs, the theorems, the mutants that show each property can fail, and which
source lines each definition stands for.

## The system

The program is two web services and a worker over one database (PostgreSQL in
production, SQLite in development) and a directory of originals.

| Component | Source | State | Operations | Modelled |
|---|---|---|---|---|
| Document version store | `backend/database.py`, `backend/db_models.py` | rows of `document_versions` (status, submitter, `superseded_by_version_id`), review trail `document_version_reviews` | begin import, mark processing, finalise, fail, reset, reindex; review, publish, withdraw, roll back | `DocumentVersions` |
| Job queue | `backend/database.py` | rows of `ingestion_jobs` (status, attempts, owner, heartbeat, next attempt) | enqueue, claim, heartbeat, complete, fail, reclaim, retry, cancel | `IngestionQueue` |
| Worker loop | `worker/runner.py` | the job it holds and how far it is | reclaim, claim, execute, record a failure, die | `IngestionQueue`, `IndexingPipeline` |
| Import endpoint | `admin_app.py`, `document_sources.py` | the request in progress, stored originals | register, store, enqueue, compensate | `IndexingPipeline` |
| Indexing service (simple engine) | `ingestion/service.py` | chunks of a version | parse, embed, persist, finalise | `IndexingPipeline` |
| Governance and job endpoints | `admin_app.py` | — | review, publish, withdraw, roll back, retry, cancel | `IndexingPipeline` |
| Synchronous import, CLI | `ingestion/service.py`, `ingestion/cli.py` | — | import in the request | partly, `Retention` |
| Indexing graph (langgraph engine) | `worker/graph.py` | checkpoints, staged chunk file | prepare, embed batch, finalise, resume | `IndexingGraph` |
| Evaluation gate | `backend/evaluation.py`, `backend/database.py`, `admin_app.py` | gold cases, runs, results | measure, decide, override, publish, edit the gold set | `EvaluationGate` |
| Access control, organisation | `backend/database.py`, `backend/auth.py` | ACL, scope, label, users, groups, departments, memberships | set ACL, synchronise at login, administer departments, import, search | `AccessControl` |
| Retention | `backend/database.py`, `scripts/purge_expired.py` | `expired_at`, all rows of a document | soft mark, purge | `Retention` |
| Query quota | `backend/ratelimit.py` | daily counters | hit, change of day | `QueryQuota` |
| Query service, retrieval, model gateway | `app.py`, `assistant/service.py`, `backend/retrieval.py`, `models.py`, `model_gateway.py` | `queries`, `model_usage`, `query_citations` | retrieve, choose a route, call with retries, fall back, record | partly, `AnswerService` |
| Model configuration | `backend/model_runtime.py`, `backend/database.py` | one configuration row | read, change | partly, `AnswerService` |
| Feedback, knowledge gaps | `backend/database.py`, `app.py` | `query_feedback`, `knowledge_gaps` | submit, register, resolve, dismiss | `AnswerFeedback`, `AnswerService` |
| Authentication, sessions | `backend/auth.py`, `app.py`, `admin_app.py` | cookies, cached key set | start, callback, fetch keys, issue, expire, log out | partly, `Sessions` |
| Chunker | `ingestion/chunker.py` | — | cut windows, choose parents | `Chunking` |
| Artifact service | `backend/artifacts.py` | files | create under a free name | `ArtifactStore` |
| Parsers, metrics, pricing, logging, encryption, migrations, front end, scripts | the rest | — | — | not modelled |

How they interact. A request to the importing endpoint registers a version
(one transaction), stores the original (a file) and queues a job (another
transaction). A worker polls: it returns the jobs of dead workers to the queue,
claims one and executes it; execution is a series of transactions on the
version, ended by one on the job. Administrators review, publish, withdraw and
roll back versions, and retry and cancel jobs, at any time. Searches return the
chunks of every version whose status is `indexed` and whose document the caller
may read. In front of a publication the evaluation service measures the gold
set with such searches and may block it. The retention job deletes documents
with all their rows, whoever is working on them. A query passes sign-in and the
daily quota, searches, reads the model configuration, calls a provider, and
leaves a row, a ledger of its calls, citations or a knowledge gap, each in a
transaction of its own; its user may submit feedback on it.

What is hard. The version table and the job table are never written in one
transaction, so every pair of writes has a gap in which the process may die,
another worker may claim the job, a heartbeat may go stale or an administrator
may act. Some transactions look at neither owner nor status
(`fail_ingestion_job`, `fail_document_import`). Pointers, approvals and
attempts survive reopening, rolling back and retrying. The langgraph engine
writes three stores in turn and resumes from whichever it finds. Searches,
measurements and queries read their inputs in several transactions and act on
them in a later one; administrators, logins and the purge write in between. The
identity provider rotates keys and changes roles on its own schedule and its
redirects arrive late or twice. `PROJECT.json` lists these hazards at their
lines.

What makes each component correct:

- the version store shows readers at most one version of a document, replaces
  it in one step, keeps what it replaced, and publishes nothing nobody answers
  for;
- the queue gives a job to one worker at a time, loses none, settles each one;
- the pipeline keeps the two tables telling the same story, hands reviewers and
  readers only complete versions, never takes a published version away by
  accident, and brings every submission to an end;
- the langgraph engine serves a version with all its batches whatever crash it
  resumed from, and reports success for work it did;
- the gate lets nothing be published without a measurement of its own, and
  keeps the evidence;
- the purge leaves no row behind, and no half-deleted version in service;
- access control returns what the caller was granted, and only the audited
  endpoint widens an audience;
- a query's row, ledger and signals say what happened to it; the quota admits
  no more than it says and refuses no earlier; a session's roles and the keys
  trusted for it are recent; a user's feedback is one row;
- chunks cover their text;
- no artifact that was reported is overwritten by a later request.

## The modules

| Module | Models |
|---|---|
| `Publication` | abstract specification: the live version of each document and the retained ones |
| `DocumentVersions` | every transaction on versions and their review trail; implements `Publication` |
| `IngestionQueue` | every transaction on jobs and the worker loop around them |
| `IndexingPipeline` | importing requests, workers and administrators over both; implements `DocumentVersions` and `IngestionQueue` |
| `IndexingGraph` | the langgraph engine: nodes, checkpoints, staged file; its queue is `IngestionQueue` by `INSTANCE` |
| `EvaluationGate` | gold cases, measurements, the decision and the publication behind it |
| `Retention` | the purge, beside imports, workers and measurements |
| `AccessControl` | organisation, ACLs, imports and searches |
| `AnswerService` | a query from its row to its signals, and the configuration it reads |
| `AnswerFeedback` | concurrent submissions of one user's feedback |
| `QueryQuota` | the limiter, threads and midnight |
| `Sessions` | OIDC sign-in, key cache and session cookies |
| `Chunking` | the windows of a section, as a machine that cuts one at a time |
| `ArtifactStore` | requests for office files that look for a free name |
| `MCDocumentVersions`, `MCIndexingPipeline`, `MCAdministration`, `MCAnswering` | instances for TLC |
| `DocumentVersions_proofs`, `IngestionQueue_proofs`, `IndexingPipeline_proofs`, `Access_proofs` (access control and sign-in), `Answering_proofs` (answers, feedback, quota), `EvaluationGate_proofs`, `Retention_proofs`, `Administration_proofs` (langgraph engine, chunker, artifacts) | theorems |

`IndexingPipeline` uses the other two by `INSTANCE`: its actions call their
transactions (`V!Finalize`, `Q!Claim`), and what workers do is a refinement of
the queue's loop by the mapping of `phase` and `held`.

### `DocumentVersions`

An action is one transaction of `QueryDatabase`. Callers are left out: any
transaction may happen at any time, so what holds here holds for every
schedule of the callers. A version is its row; a row exists once its status is
not `absent`. The trail keeps the rows that something reads or that a property
speaks of: submissions (first and reopened alike, numbered by `submissions`),
approvals and publications, with their override flag. Comments, reasons,
titles, instants and the version number are left out. The access scope and
classification that the import writes belong to access control.

`AllowOverride` is `governance_override_allowed` for the acting principal.
`MaxReviews` bounds the rows of the trail.

### `IngestionQueue`

The first part of the module has one operator per transaction on
`ingestion_jobs`, the second the worker loop. Time is two facts about a row:
its heartbeat is older than the job timeout (`stale`), its `next_attempt_at` is
still to come (`delayed`). `inserted` is the autoincrement column, which
`claim_ingestion_job` orders by; priority is the same for every caller.

`Timely` is an assumption about the environment: a job ends, or its worker
writes a heartbeat, before the heartbeat is stale. The code does not ensure it
(see `queue_untimely`), and runs and theorems that need it say so.

`Audited` are the jobs (withdraw and evaluate) whose audit event follows the
completion inside `_execute`'s `try`. `Succeed` leaves such a worker in phase
`audit`, holding a job whose row is `succeeded`; from there `AuditWritten` ends
the execution, and `Fail` is the event that could not be written, which
`fail_ingestion_job` lets undo the success without looking at owner or status.
For import and reindex jobs the event is written outside the `try`: its error
ends the process (`Crash`) and leaves the row alone.

### `IndexingPipeline`

`step[w]` names the next transaction or external step of a worker, `work[w]`
its job; `request[i]` and `upload[i]` the same for a request. `sources` and
`chunked` say which versions have an original and chunks.

| Steps | Code |
|---|---|
| `Register`, `Store`, `EnqueueImport`, `Compensate` | `import_document` |
| `Poll`, `Start`, `NothingToDo` | `run_once` |
| `TakeOffline`, `Resolve` | the first part of `_execute`; parsing is a choice of `Resolve` |
| `MarkProcessing`, `PersistChunks`, `Finalize` | `process_version`; embedding is a choice of `MarkProcessing` |
| `CarryOutWithdrawal` | `_execute_withdraw` |
| `Refuse`, `StepFails` | the exception clauses of `_execute`: ended for good, or worth another attempt |
| `Complete` | the last heartbeat and the completion |
| `AuditWritten` | the audit event of a withdrawal, after its completion; if it fails, `RecordFailure` |
| `RecordFailure`, `SettleVersion` | the two transactions of `_record_failure` |
| `WorkerDies`, `RequestDies` | the process is killed, or leaves `run_forever` by an exception outside `_execute`'s handlers |

Parsing and embedding touch nothing that another actor sees, so each is merged
with the transaction before it; the gap before the next transaction remains.

### `IndexingGraph`

One version, with an import job and a reindex job. `thread[j]` is the last
checkpoint of thread `index-job-<j>`, `staging` whether the staged chunk file
exists, `batches` which batches have chunk rows.

| Steps | Code |
|---|---|
| `GraphPoll`, `GraphClaim`, `GraphTakeOffline`, `GraphComplete`, `GraphRecordFailure`, `GraphSettle`, `GraphWorkerDies` | `run_once`, `_execute`, `_record_failure` around the engine, on the queue's transactions |
| `LoadCheckpoint`, `Resume` | `IndexingGraphRunner.run`: resumes only while the staged file exists, else drops the thread |
| `Prepare`, `StagePayload` | the node `prepare`: mark; clear the chunks and write the file |
| `EmbedBatch` | the node `embed_batch` |
| `FinalizeGraph`, `Unlink` | the node `finalize`: the transaction; the file's deletion |
| `SaveCheckpoint` | the framework's write after each node, with the node `route` or the edge leads to |

A crash or failure may come between any two of these. `finished` (no code reads
it) remembers which jobs finalised since they were queued.

### `EvaluationGate`

`evaluation[q]` holds the locals of one call of `EvaluationService.run`, made
by the publication endpoint, by the measuring endpoint or by an evaluate job
(`AskToPublish`, `AskToMeasure`, `ExecuteEvaluate`). Then one action per
transaction: `ListCases`, `FindBaseline`, `InsertRun`, `CompleteRun` or
`FailRun` (or `LoseRun`), and `PublishGated` or `Deny`. What a search finds for
a case is a choice; `Decide` is `_decide`, over ten-thousandths.
`EditGoldenSet` and other requests come in between.

### `Retention`

A task of an importer or worker (`indexer[i]`) writes a row of its version per
step; `children` are the rows that refer to a version, one element per table and
version. `HardPurge` is `_purge_expired_documents`; foreign keys are enforced as
PostgreSQL does, so a write that refers to a purged row is an error, which
`FailIndexJob` and `RecordIndexFailure` handle as the two transactions of
`_record_failure`, or the import's own handler, do. References that the schema
sets to NULL (those of citations and of gaps) are left out.

A worker's process ends (`dead`) on any error outside `_execute`'s `try`:
in `FailIndexJob` when the purge has deleted the job's row, and, if
`DatabaseMayFail`, in `WorkerError`: while it reclaims or claims, in the
completion and the audit event behind it, and in any transaction of
`_record_failure`. `RestartWorker` is its supervisor. A process that is killed
there leaves the same tables. `ReclaimImport` is the reclaimer, in time as in
the queue under `Timely`: it takes the job of a worker that holds it no more. A
process killed inside `_execute` is the pipeline's matter (`WorkerDies`).

### `AccessControl`

`organisation` is the five tables; `access[d]` scope, label and ACL of a
document; `reader[r]` a session and the search in progress. A search is
`ResolveGroups`, `ResolveDepartments`, `HybridSearch`, the order of the
PostgreSQL searches; the portable (SQLite) search reads documents before it
resolves memberships. Guests and OIDC users are both possible in one behaviour;
a deployment offers one of the two. `belonged` (no code reads it) is what the
session's user belonged to at some moment of the search in progress.

Department keys have a case, which `LowerCase` takes away. What administrators
create keeps it (`CreateDepartment`, `AddUserToDepartment`); claims and ACL
entries are lower-cased where they enter (`LogIn`, `SetDocumentAcl`), and
`DepartmentsOf` lower-cases what a search resolves. `departments` and
`departmentMembers` hold the keys of the rows.

### `AnswerService`, `AnswerFeedback`, `QueryQuota`, `Sessions`

`ask[q].step` names the next transaction or provider call of a query:
`RecordQuery`, `EmbedQuestion`, `RecordQueryEmbedding`, `SearchKnowledge`,
`ReadStrategy`, `SelectModel`, `UpdateQueryRoute`, `CallModel` (once per
attempt), `RecordModelAttempts`, `RecordCitations`, `RegisterKnowledgeGap`.
Between `SearchKnowledge` and `ReadStrategy` comes `Rerank` if
`IT_RERANK_MODE=api` and the search found anything. Whether the evidence
suffices and what a provider answers are choices. `calls` counts what providers
saw, `ledger` the rows of `model_usage`, `reranks` the calls of a reranking
provider, for which the code writes no row.

`AnswerFeedback` splits `record_feedback` at its select; an update writes the
columns that differ from what was loaded, as the mapper does.

`QueryQuota` splits `hit` at the lock: `ReadClock`, `Hit`. `setBack` (no code
reads it) remembers that a thread set the limiter's day back.

`Sessions` counts time in ticks. `published` and `claimed` are the provider's
history; `callback[b]` is `complete_authorization` in a thread: `ReceiveCallback`
up to the redeemed code, `ReadKeySet`, `FetchKeySet`, `StoreKeySet`, and the
verdicts. The cached pair of expiry and keys is read at once.

### `Chunking`

`CutParent` and `CutChild` are one turn each of `_split_windows`'s loop; a
window is the pair of its bounds, since properties ask only which characters
lie in it.

### `ArtifactStore`

`ProbePath` looks at one name, as a turn of `_unique_path`'s loop does;
`OpenTemporary` makes the temporary file, `ReplaceTarget` renames it to the name
found, `RenderFails` leaves by one of `create`'s handlers. No lock joins these.
A name is the sequence of its parts, because a caller may ask for `a-2` while
others are given it for `a`. `answeredFirst` (no code reads it) remembers which
requests had their answer when another began.

## The runs

| Run | Instance | Result |
|---|---|---|
| `versions` | 1 document, 3 versions, 1 subject and the unattributed one, review mode with overrides, 6 review rows; symmetric in the versions | holds |
| `queue` | 3 workers, 2 jobs of which one is audited, 3 attempts, 2 requeues, in time, fair | holds |
| `pipeline_faults` | 1 version, 2 workers, 1 request at a time, import and reindex jobs, 1 attempt, 1 retry, review mode, every fault | holds |
| `pipeline_live` | 1 version, 2 workers, 2 requests, import and withdraw jobs, 2 attempts, direct mode, no crash, fair | holds |
| `queue_untimely` | 2 workers, 1 job, heartbeats may be late | `ExclusiveExecution` fails |
| `pipeline_crash` | as `pipeline_live` with 1 worker that may die | `PublicationStands` fails |
| `pipeline_retry` | 1 worker, 1 administrator's retry | `RetriedImportCanBeIndexed` fails |
| `pipeline_reopen` | 1 worker, 2 subjects, review mode | `ReopenedIsReviewedAgain` fails |
| `pipeline_orphan` | 1 worker, stores may fail | `QueuedHasJob` fails |
| `administration` | parts *gate*: 2 cases, 2 versions, 2 requests, 1 edit, gate `block` with overrides; *retention*: 1 source key, 2 documents, 2 versions, a synchronous and an asynchronous importer, a worker that any database error may end, a measurement; *graph*: 2 jobs, 1 worker, 2 batches, 2 attempts, 1 requeue; *chunking*: texts of up to 10 characters, of which up to 2 are stops or line ends, windows of 5 overlapping by 1, children of 4; *artifacts*: 3 requests for the names `a` and `a-2`, numbers to 2 | holds |
| `answering` | parts *access*: a subject beside guests, a group, departments `hr` and `HR`, a document, a session, ACLs of 1 entry, 2 replacements; *answer*: 2 queries, 1 retry, 1 change of configuration; *feedback*: 3 submissions; *quota*: 3 calls, 2 subjects, 2 days; *sessions*: 2 browsers, 2 keys, 4 ticks, 2 logins, 1 change | holds |
| `purge_kills_worker` | 1 version, 1 worker, a database that works | `WorkerLoopSurvives` fails |

`administration` and `answering` each check several modules that share no
state. A behaviour belongs to one `part`; the other parts' variables keep one
of their initial values, so the state graph is the union of the parts' graphs
and nothing is multiplied. They reach about 1.4 and 1.1 million distinct states.

### What holds

- `AtMostOneIndexed`: a document never has two live versions.
- `SupersededChainsEnd`: no set of superseded versions is closed under the
  pointers. It is not obvious: a version that is reopened keeps its old
  pointer, and it is only because a superseded version's pointer is rewritten
  each time it is replaced that no cycle forms.
- `PublicationIsAccountable`: with separation of duties, every version that is
  or was published has an approval by someone else than the submitter of the
  submission that was approved, or a row flagged as an override. It says
  nothing of *which* submission was approved; that stronger reading is
  `ReopenedIsReviewedAgain`, which fails.
- `ImplementsPublication`: readers see one version replaced by another in one
  step; what is replaced or withdrawn can be put back until it is submitted
  again, reindexed or marked failed.
- `ExclusiveExecution`: under `Timely`, for import and reindex jobs without
  exception, for withdraw and evaluate jobs as long as no job was requeued. If
  an administrator queues one of these again while its worker still writes the
  audit event of its success, and that write fails, the row is queued under the
  worker that executes it by then, and a third claim makes two executors.
- `SuccessIsUndoneByAdminOrHolder`: under `Timely` a job leaves `succeeded` only
  when an administrator queues it again or, if it is a withdraw or evaluate job,
  by the failure of a worker that holds it: its completer, whose audit event was
  not written, or, once something was requeued, an executor beside it. Neither
  the reclaimer nor a worker that has left the job undoes a success.
- `NoRowIsStuck`: a queued row always has an attempt left, a running row always
  has an owner and a heartbeat, so that the claim or the reclaimer sees it.
- `EveryJobSettles`: whatever crashes, jobs end.
- `ServedIsComplete`: staged and published versions have chunks and an
  original, under every fault.
- `VersionFollowsJob`: outside the two-transaction gaps the version's status is
  one that its import job's status explains. `Story` lists which.
- `PublicationStands`: without crashes no failure takes a published version
  from its readers. `SubmissionEnds`: without crashes every submission leaves
  `queued` and `processing`.
- `WithdrawalStands`: a withdrawn version becomes `indexed` by a rollback or
  `queued` by a submission and nothing else, although the job that withdrew it
  may lose its success, be run again, find the version withdrawn and end as
  failed.
- `ImplementsVersions`, `ImplementsQueue`: the pipeline makes no step on either
  table that the table's module does not have, so the theorems about the
  tables hold of the pipeline.

- `ServedVersionIsWhole`, `CheckpointTrailsChunks`, `SuccessMeansIndexed`:
  as long as one job of the version has run. The condition `OnlyOneJobRan` is
  necessary: threads belong to a job and file and chunks to the version, so an
  import and a reindex of one version may resume on one another's file.
- `PublishedThroughTheGate`, `PassedAgainstItsBaseline`, `MeasuredCasesAreKept`:
  with overlapping requests and a gold set that changes under them.
- `NoOrphans`, `ServedHasChunks`: wherever the purge strikes, and wherever an
  error ends a worker's process.
- `OrganisationIsConnected`, `AudienceChangesAreAudited`, `FoundWasGranted`: the
  last allows a search what was granted at some moment of it, which is the most
  that its three transactions can promise, and compares departments in lower
  case, which is what the code promises: an entry for `hr` admits the members of
  `HR`.
- `LedgerIsComplete`: each call of the embedding and the model provider has its
  row, but for queries whose process died; the call of a reranking provider has
  none. `AnswersAreAccounted`: but for such queries and signals whose write
  failed.
- `FeedbackIsOneSubmission`: one row always; its content is one submission's
  unless an update was based on a row that had changed since. That exception
  happens: the code takes no lock.
- `QuotaHolds`, `RefusedOnlyAtTheQuota`: the first but for a thread that read the
  clock before midnight and took the lock after one that read it later. The
  counters are then cleared; the module's `setBack` marks it.
- `KeyVerdictsAreSound`, `RolesAreRecent`.
- `EveryCharacterIsRetrievable`: the last conjunct is what holds of the parent:
  it shares text with its child. It need not contain it (see below).
- `ArtifactsAreKept`: a request overwrites at most what an overlapping one
  created. That does happen: nothing reserves a name between the probe and the
  rename.

### What fails

Each of the runs that find a violation shows a disagreement of the code with a
document or a comment of the repository; `PROJECT.json` quotes both.

1. `queue_untimely`: the heartbeat is written before and after
   `process_version`, not during it. A document that takes longer than
   `IT_INGESTION_JOB_TIMEOUT_SECONDS` to parse and embed is executed by two
   workers. `IT_INGESTION_HEARTBEAT_SECONDS` is validated and never used.
2. `pipeline_crash`: `fail_document_import` sets `failed` whatever the version
   is. If a worker dies after publishing and before completing its job, the
   job's second run finds the version published, counts that as a failure and
   takes it away from its readers.
3. `pipeline_retry`: `retry_ingestion_job` does not touch the version, which a
   failure left `failed`; the retried job is refused with
   `invalid_state_transition`. Submitting the content again does work.
4. `pipeline_reopen`: `publish_document_version` counts approvals of earlier
   submissions.
5. `pipeline_orphan`: a store that fails leaves the version `queued` without a
   job, and the same content is afterwards answered as a duplicate.
6. `purge_kills_worker`: a comment in `_execute` says that the worker boundary
   must not kill the loop, but recording the failure of a job whose row the
   purge deleted raises out of it, and `run_forever` ends. The run needs no
   error of the database for it; any such error in `_record_failure`, or behind
   `_execute`'s `try`, ends the process too.

Seen while modelling, without a run of their own:

- The audit event of a withdrawal or an evaluation can fail a job that is
  `succeeded` already (`worker/runner.py:302-310`, `342-350`); run again, a
  withdrawal ends as failed and an evaluation is measured twice.
- Departments that differ in case only are distinct rows and one department to
  searches; and no ACL can name a department whose key is not in lower case,
  because `set_document_acl` looks for the lower-cased key, unless there is a row
  of that too.
- `ApiReranker.rerank` calls a provider on every query that found something and
  leaves no row in `model_usage`, although the calls of the other two providers
  do.
- `chunk_document` promises that a child's parent window contains it. The code
  links by the child's start, and a child may end behind its parent.
- The langgraph engine stages chunks without `parent_content` and
  `is_title_block`, so what it indexes is answered with the small windows as
  context, unlike what the simple engine indexes.
- Dismissing a resolved knowledge gap keeps its `resolved_version_id`; resolving
  and dismissing overwrite each other.

### The bounds

With three versions two superseded ones could point at each other while a third
is live, and a third can be published over a rolled-back one; six review rows
allow three submissions with three publications, or one version submitted,
approved and published twice. Three workers and two jobs let a third worker
interfere with a pair that contends for a job while another job waits; three
attempts is the code's default, and two requeues let an administrator act on a
job that was already requeued. One job is audited and the other is not, so that
each meets the other's failures and requeues. In `pipeline_faults` one attempt
and one retry give every job two executions, which under late heartbeats may
overlap, and two job types give the version two concurrent jobs. `pipeline_live`
has the automatic second attempt, with its back-off, and two requests for the
same content. `MaxRetries` bounds administrators' retries and `MaxRequeues ==
MaxRetries + MaxReviews` all requeues; every requeue but a retry follows a
submission, of which the trail has at most `MaxReviews`, so the second bound
cuts nothing off. One version is enough for the pipeline runs: versions meet
only in `GoLive`, which `versions` checks under every schedule and
`ImplementsVersions` ties to the pipeline.

*Gate*: two requests overlap in every way, and the second may have the first as
its baseline; two cases make every ratio between 0 and 1 a half, which the
minima (4000) and the regression limit (500) put on both sides; one edit falls
between any two steps. *Retention*: one source key imported twice gives two
versions of one document, or, with the purge in between, two documents; the
three kinds of indexer and a measurement are each at any step when the purge
comes, and the worker dies and is restarted at each of its own. *Graph*: two
batches make a checkpoint in the middle; two attempts and one requeue resume a
thread up to three times. One worker is enough because the queue gives a job to
one worker at a time (`ExclusiveExecution`) and the two jobs' executions are
separated by the property's condition. *Chunking*: ten characters hold three
overlapping windows of five; blank windows, the fall-back of the parent and
children that straddle their parent's end all occur. Two stops or line ends
(`MaxBoundaries`) shorten each window but the last, which ends with the text.
*Artifacts*: two requests can take one name while the third comes after one of
their answers, or find both numbers taken.

*Access*: a user's session beside guests, whom an ACL may leave out; one entry
in an ACL because entries allow independently of each other; two replacements so
that a search may see an entry go and come; two departments of which one is the
other's lower case, so that rows and entries differ. *Answer*: queries meet only
in the configuration, for which two of them and one change suffice; one retry
gives an attempt in the middle. A search calls the reranking provider once or
not at all. *Feedback*: two submissions can race, the third follows or
interferes. *Quota*: with a quota of one, three calls exceed it, over two
subjects and one midnight. *Sessions*: four ticks exceed each of the lifetimes
(1, 1, 1 and, for an id_token, 2) and reach the sum that `RolesAreRecent` names,
so that roles of the first tick count as old at the last; two browsers fetch
keys side by side while one rotation or change of roles happens. The roles first
claimed are fixed, since the two are interchangeable.

Symmetry is used for versions and workers, for browsers and keys, and for
cases, versions and requests of the gate, in runs without liveness properties
only.

### Fairness

`queue`: a worker keeps polling (`run_forever`), a job it executes ends because
provider and database calls have timeouts, or its process dies and its
supervisor restarts it, and time passes. `pipeline_live`: in addition a request
in progress ends. The other modules state safety only. Fairness is weak
throughout; nothing assumes that a job succeeds, that an administrator acts or
that a request is made.

### Mutants

An operator `X_Y` in front of `X` is `X` with a plausible mistake, such as a
dropped guard, a missing reset or swapped branches. `PROJECT.json` names for
each property of each run the mutant that violates it.

## The proofs

For every set of documents, versions, subjects, jobs, workers, queries and so on
and every setting, from the named assumptions on the constants of each module
(`VersionAssumption`, `QueueAssumption`, `GateAssumption` and so on; TLC
evaluates them in the runs). Two were added for the proofs. `TablesAssumption`
repeats, in the pipeline's constants, what the modules of the two tables assume
of theirs; `GraphAssumption` says that the langgraph engine has at least one
attempt and one batch and that its null values are no jobs or workers.

| Theorem | Establishes |
|---|---|
| `DocumentVersions_proofs!TypeCorrect` | `TypeOK` |
| `DocumentVersions_proofs!OneIndexed` | `AtMostOneIndexed`, which is inductive with `TypeOK` |
| `DocumentVersions_proofs!Accountable` | `PublicationIsAccountable` |
| `DocumentVersions_proofs!RefinesPublication` | `ImplementsPublication` |
| `IngestionQueue_proofs!TypeCorrect` | `TypeOK` |
| `IngestionQueue_proofs!NeverStuck` | `NoRowIsStuck`, inductive with `TypeOK` |
| `IngestionQueue_proofs!Exclusive` | `Timely => ExclusiveExecution` |
| `IngestionQueue_proofs!SuccessIsUndoneOnlyByHolders` | `SuccessIsUndoneByAdminOrHolder` under `Timely` |
| `DocumentVersions_proofs!ChainsEnd` | `SupersededChainsEnd`, inductive with `TypeOK` |
| `IndexingPipeline_proofs!RefinesVersions` | `ImplementsVersions` |
| `IndexingPipeline_proofs!RefinesQueue` | `ImplementsQueue` |
| `IndexingPipeline_proofs!ServedComplete` | `ServedIsComplete` |
| `IndexingPipeline_proofs!PipelineTypeCorrect` | `TypeOK` |
| `IndexingPipeline_proofs!StoriesAgree` | `VersionFollowsJob`, if nothing dies, is late or loses a file |
| `IndexingPipeline_proofs!PublicationsStand` | `PublicationStands`, under the same hypotheses |
| `IndexingPipeline_proofs!WithdrawalsStand` | `WithdrawalStands`, under the same hypotheses |
| `IndexingPipeline_proofs!PipelineKeepsTables` | the invariants of both tables, of the pipeline |
| `Access_proofs!AccessTypesHold` | `AccessTypeOK` |
| `Access_proofs!OrganisationStaysConnected` | `OrganisationIsConnected` |
| `Access_proofs!AudienceIsAudited` | `AudienceChangesAreAudited` |
| `Access_proofs!FoundIsGranted` | `FoundWasGranted` |
| `Access_proofs!SignInTypeCorrect` | `SessionsTypeOK` |
| `Access_proofs!SessionRoles` | `RolesAreRecent` |
| `Access_proofs!KeyVerdicts` | `KeyVerdictsAreSound` |
| `Answering_proofs!AnswerTypesHold` | `AnswerTypeOK` |
| `Answering_proofs!LedgerCompletes` | `LedgerIsComplete` |
| `Answering_proofs!AnswersStayAccounted` | `AnswersAreAccounted` |
| `Answering_proofs!FeedbackTypesHold` | `FeedbackTypeOK` |
| `Answering_proofs!FeedbackIsWhole` | `FeedbackIsOneSubmission` |
| `Answering_proofs!QuotaIsKept` | `QuotaHolds` |
| `Answering_proofs!RefusalIsEarned` | `RefusedOnlyAtTheQuota` |
| `Answering_proofs!AnsweringImplementsParts` | the module of the run implements each of its parts |
| `Answering_proofs!AnsweringTypesHold` | `AnsweringTypeOK` |
| `EvaluationGate_proofs!GateTypesHold` | `GateTypeOK` |
| `EvaluationGate_proofs!PassesAreComparative` | `PassedAgainstItsBaseline` |
| `EvaluationGate_proofs!EvidenceIsKept` | `MeasuredCasesAreKept` |
| `EvaluationGate_proofs!GateIsPassed` | `PublishedThroughTheGate` |
| `Retention_proofs!RetentionTypesHold` | `RetentionTypeOK` |
| `Retention_proofs!NoOrphansRemain` | `NoOrphans` |
| `Retention_proofs!ServedKeepsChunks` | `ServedHasChunks` |
| `Administration_proofs!GraphDrivesQueue` | the langgraph engine implements `IngestionQueue` |
| `Administration_proofs!GraphKeepsQueue` | `NoRowIsStuck` and `ExclusiveExecution`, of that engine |
| `Administration_proofs!GraphTypesHold` | `GraphTypeOK` |
| `Administration_proofs!ServedIsWhole` | `ServedVersionIsWhole` |
| `Administration_proofs!ResumptionSkipsNothing` | `CheckpointTrailsChunks` |
| `Administration_proofs!SuccessIsEarned` | `SuccessMeansIndexed` |
| `Administration_proofs!ChunkingTypesHold` | `ChunkingTypeOK` |
| `Administration_proofs!NothingIsLost` | `EveryCharacterIsRetrievable` |
| `Administration_proofs!ArtifactTypesHold` | `ArtifactTypeOK` |
| `Administration_proofs!ArtifactsStay` | `ArtifactsAreKept` |
| `Administration_proofs!AdminImplementsParts` | the module of the run implements each of its parts |
| `Administration_proofs!AdminTypesHold` | `AdminTypeOK` |

`Accountable` needs a strengthening: the row of each submission of a version
is in the trail with the version's current submitter
(`SubmissionRecorded`), each approval row is flagged or was made by someone
else than that submission's submitter (`ApprovalsAnsweredFor`), and published
versions are decided. The first is what a guard that reads the submitter column
relies on; the trail only grows, so decisions stay.

`ChainsEnd` looks at what a publication adds: a set of superseded versions that
contains one of those just replaced has an element that points to the version
now live, and one that contains none was a set of superseded versions before.

`Exclusive` needs that a worker which executes a job owns its row, if the job is
not audited or nothing was requeued yet (`ExecutorOwns`): rows have one owner, so
such jobs have one executor. `Timely` enters where the heartbeat expires;
everything else that writes a row either is its owner's or requires that the
row is not running, but for the failure of an audit event. For that one,
`AuditorIsAlone` says that before the first requeue nobody else holds the job and
its row has succeeded. Together they are `HolderOwns`, which
also gives `SuccessIsUndoneOnlyByHolders`: whoever fails a row that has succeeded
is writing its audit event, or executes an audited job after a requeue.

`RefinesPublication` maps `live` and `retained` to the sets of versions with
the corresponding statuses; it rests on `AtMostOneIndexed`, without which a
publication could replace two versions.

The pipeline's theorems rest on `CInv`: control points are named ones, a worker
past its claim has a job (`Working`) and a request in progress has a version
(`Requesting`), so every transaction they ask for is one on a row. With it
`RefinesVersions` and `RefinesQueue` go action by action. To the queue the
transactions of one execution are all one stay in `busy` (`WithinJob`), and
settling a version after `RecordFailure` is no step at all (`AfterJob`). With
the two refinements the theorems about the tables are theorems about the
pipeline: the modules of theorems are instantiated with the pipeline's
constants and mapping (`VT`, `QT`), and `PipelineKeepsTables` combines what they
give with the refinements. `PipelineTypeCorrect` takes the rows' types from
there too.

`StoriesAgree`, `PublicationsStand` and `WithdrawalsStand` assume `Undisturbed`:
workers neither die nor are late, the store keeps what it is given,
administrators retry cancelled jobs only, and nobody reindexes. Each of these
hypotheses is needed: `queue_untimely`, `pipeline_crash`, `pipeline_orphan` and
`pipeline_retry` show what happens without one, and a reindex job writes the
version under its import job's story. `pipeline_live` is an instance of it. The
invariant (`FInv`) says that a running row is being executed
(`RunningIsExecuted`), that between its two transactions a worker or request is
the only one to deal with the version (`SettlingIsAlone`, `RequestIsAlone`), and
the story of each version that is not in such a gap (`StoriesHold`). That two
workers never execute one job comes from the queue, through the refinement
(`Owned`).

`ServedComplete` needs two facts. Every transaction but `Finalize` makes
served versions of served ones only (`OthersServeNothingNew`). And a worker that
has come to `mark` has found the original, one that has come to `finalize` has
persisted the chunks (`WorkIsBacked`), which stays true whatever other workers,
requests and administrators do, because originals and chunks only grow. Neither
uses `Timely` or the ownership of the job, so it holds with two workers on one
job.

Access control: with `AccessTypeOK` goes only that a session about to be
synchronised names a subject, not a guest (`SyncHasSubject`); under it
`OrganisationIsConnected` is inductive. `FoundIsGranted` needs
`SearchRemembers`: a session in the middle of a search has in `belonged` what it
belongs to now, the groups it has resolved, and for each department it has
resolved, which is in lower case, a membership in one of that lower case.
Administrators' removals keep it because `belonged` forgets nothing during a
search, additions because they are remembered. Of `LowerCase` only its type and
that it is idempotent are assumed.

Sign-in: each hand-over carries a bound on the age of what is handed over. A
redirect answers a login that had begun (`ResponseAnswersLogin`), an id_token's
roles are no older than the sign-in (`TokenRolesAreRecent`), a session's no older
than the id_token's (`SessionRolesAreRecent`): the sum is `RolesAreRecent`. For
keys the cached set is no older than its expiry says (`CachedKeysAreRecent`), the
set a callback checks against no older than the cache's lifetime before its
reading of the clock, and a set fetched because the key was missing was published
after the id_token was minted (`CheckedKeysAreRecent`), which is why a refusal
is justified.

Answers: `Ledgered` says for each step of a query how many of its calls are on
the ledger yet (none of the attempts before `RecordModelAttempts`, all after, and
that of a reranking provider never);
`Signalled` which of row, citations and gap are written at each step, and that
citations imply sufficient evidence. Queries meet only in the configuration, so
a step of one leaves what is said of the others (`SInvStep`).

Feedback: there is a row once somebody submitted (`OneRow`), whoever has loaded a
row's content may only update it (`SeenIsThere`), and unless an update was stale
the row's content is that of one accepted submission (`GivenTogether`), because an
update of what was loaded writes the whole content of its submission
(`UpdateOfSeen`).

Quota: `Counted` says that, unless the day was set back, what was admitted on
the limiter's day is what it counts and nothing is admitted for a later day;
a refusal needs its half that holds regardless, that no count exceeds what was
admitted on that day.

Gate: run numbers are `1..n` (`Numbered`), a request's step says what its run is
(`OwnRun`), no two requests have the same run (`Separate`), and a recorded
publication is that of a request that published, which writes no run any more
(`Recorded`); hence the run that decided cannot change behind the publication.
That cases with results are kept rests on the results' foreign key and on the
deletion's check together. For `PassesAreComparative`, `BInv` follows the
baseline from its reading to the row (`BaselineFits`): runs that succeeded are
never written again (`HistoryKept`), so what was compared still stands when the
run is completed. The ratios are between 0 and 10000, and citations no more than
retrievals, because the cases that count are nested sets (`NestedRatios`, from
the monotony of the rounded quotient, `RatioGrows`).

Retention: `OwnTask` says what an unfinished task has left behind unless its
version was purged since (in `finalize`, the chunks) and
that a task's version has a number already given out, so that an import's new
row is nobody's. Steps of tasks keep `RowsKept`, `ChildrenKept` and `JobsKept`;
`HardPurgeStep` shows that the deleted rows of all tables match.

The langgraph engine: `GraphDrivesQueue` maps its control points to the queue's
loop, in which no job is audited, so that the queue's theorems (instance `GT`)
give it the ownership of the row it executes (`GraphOwned`) and hence of the
thread. `StoreInv` then says, for each job, where the cursor may be at each node
(`CursorFits`), and, as long as one job of the version has run, that the batches
below it are persisted (`ThreadTrails`), that the staged file is there while the
engine is between nodes (`StepAgrees`), and what the other jobs' threads look
like meanwhile (`Alone`).

The chunker: `ChunkInv` says that every character before the cursor that is not
blank lies in a window already cut (`CoveredBy`), that windows advance and that
each child shares text with its parent. The arithmetic is that of `NextStart`
and `WindowEnd`: the next window begins before this one's end and after its start.
`CHOOSE`s of a first or last element are justified by the existence of
minima of sets of naturals (`LeastNatural`), which the library's theorem on
well-founded orders gives without induction over an operator. That the loop
ends is not claimed.

Artifacts: a file belongs to a request that was answered (`FilesAreAnswered`), and
a request about to write has found its name free of everything that was answered
before it began (`NameWasFree`); a rename cannot make another's name free, as no
request removes a file.

The modules of the runs `administration` and `answering` put parts together
that share no variable; `AdminImplementsParts` and `AnsweringImplementsParts` show
that their behaviours are behaviours of every part, so that a theorem about a part
is one about the module that TLC checks.

Only model-checked are `EveryJobSettles` and `SubmissionEnds`: liveness under
fairness is out of the prover's reach, like `ENABLED`. Every other property of a
passing run is stated by a theorem above, for `VersionFollowsJob` and
`PublicationStands` and `WithdrawalStands` under hypotheses of which the run is
an instance. The properties of the six runs that expect a violation are false.

## What the models leave out

Abstractions:

- Transactions are atomic, but for those of feedback. PostgreSQL runs them under
  READ COMMITTED, where two of them that read and then write the same rows may
  interleave (two publications; a cancellation and a claim; two imports that
  raise a label). The claim itself is one statement with `SKIP LOCKED`; a worker
  that loses the race polls again.
- Rows of the version and job tables are deleted in `Retention` only, which has
  its own, coarser picture of an indexing task; so it does not appear in
  `IndexingPipeline`, where a publication also goes through whenever the
  repository accepts it, which includes every one that the gate lets through.
- Check constraints, the audit log (but for ACL replacements), metrics and the
  content of documents.
- The trigger of a measurement is a label that nothing reads. An evaluate job's
  own row is the queue's matter.
- A tie in the rounding of a ratio is rounded up; it takes at least 32 cases.

Not modelled:

- parsers, vector arithmetic, text ranking, the order rerankers choose, pricing,
  metrics, encryption: numeric or library code, each a sequential function of its
  arguments (the reranker that calls a provider is not; its call is modelled);
- the rendering of artifacts, whose properties are about layout, and their
  listing, which also shows temporary files;
- migrations and operational scripts: they run beside no other process;
- the front end: its requests are the administrators' actions;
- local accounts, cookie attributes, and the cryptography of tokens;
- credentials of model providers, which are written in a transaction after the
  configuration: they decide only what a provider answers, which is a choice;
- the life of originals in the synchronous mode.

## Plan

1. The repository's read-then-write transactions split into their statements
   (READ COMMITTED), for versions and for jobs; which of the properties above
   survive.
2. What a crash at the last attempt leaves behind: a weaker promise than
   `SubmissionEnds`, under crashes.
3. `IndexingGraph` as a refinement of the pipeline's steps from `MarkProcessing`
   to `Finalize`.
4. Proofs: what survives of `VersionFollowsJob` when workers die, and the
   pipeline as an implementation of `Publication` in one theorem.
