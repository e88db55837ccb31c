-------------------------- MODULE DocumentVersions --------------------------
(***************************************************************************)
(* The life of a document version: the transactions of src/backend/        *)
(* database.py that write document_versions and its review trail           *)
(* (document_version_reviews).                                             *)
(*                                                                         *)
(* Every action is one database transaction.  The module says nothing of   *)
(* who calls it or when: administrators, the importing endpoint and any    *)
(* number of workers may call any transaction at any time, so whatever     *)
(* holds here holds under every schedule of the callers.  IndexingPipeline *)
(* adds the callers.                                                       *)
(*                                                                         *)
(* A version is identified by its row, of which uq_document_versions_hash  *)
(* allows one for each document and content: submitting content a document *)
(* already has finds that row again.                                       *)
(***************************************************************************)
EXTENDS Naturals, FiniteSets

CONSTANTS Document,           \* rows of documents
          Version,            \* the rows document_versions may come to hold
          DocumentOf,         \* document_id of each of those rows
          Subject,            \* subjects that submit, review and publish
          NoOne,              \* the empty subject (an unattributed import)
          NoVersion,          \* NULL in superseded_by_version_id
          GovernanceMode,     \* IT_GOVERNANCE_MODE
          RequireSeparation,  \* IT_REQUIRE_SEPARATION_OF_DUTIES
          AllowOverride,      \* governance_override_allowed(settings)
          MaxReviews          \* bound: rows the review trail may hold

ASSUME VersionAssumption == /\ DocumentOf \in [Version -> Document]
                            /\ NoVersion \notin Version
                            /\ NoOne \notin Subject
ASSUME GovernanceAssumption == /\ GovernanceMode \in {"direct", "review"}
                               /\ RequireSeparation \in BOOLEAN
                               /\ AllowOverride \in BOOLEAN
                               /\ MaxReviews \in Nat

VARIABLES status,        \* status of each row, "absent" before its insert
          submitter,     \* submitted_by_subject_id
          supersededBy,  \* superseded_by_version_id
          submissions,   \* how often the row was submitted (ordinal of its
                         \* last submit or reopen review row)
          reviews        \* the review rows something reads

vars == <<status, submitter, supersededBy, submissions, reviews>>

Status == {"queued", "processing", "staged", "indexed", "superseded",
           "rejected", "withdrawn", "failed"}
InFlight == {"queued", "processing", "staged"}
Indexable == {"queued", "processing"}
Retained == {"superseded", "withdrawn"}
Published == {"indexed"} \cup Retained

Review == [version : Version,
           action : {"submit", "approve", "publish"},
           actor : Subject \cup {NoOne},
           override : BOOLEAN,
           submission : Nat \ {0}]

TypeOK == /\ status \in [Version -> Status \cup {"absent"}]
          /\ submitter \in [Version -> Subject \cup {NoOne}]
          /\ supersededBy \in [Version -> Version \cup {NoVersion}]
          /\ submissions \in [Version -> Nat]
          /\ reviews \in SUBSET Review

Init == /\ status = [v \in Version |-> "absent"]
        /\ submitter = [v \in Version |-> NoOne]
        /\ supersededBy = [v \in Version |-> NoVersion]
        /\ submissions = [v \in Version |-> 0]
        /\ reviews = {}

-----------------------------------------------------------------------------
(* Helpers.  An operator X_Y before an operator X is X with a plausible    *)
(* mistake in it; no action uses it.  PROJECT.json names the property that *)
(* each of them breaks.                                                    *)

Siblings(v) == {w \in Version \ {v} : DocumentOf[w] = DocumentOf[v]}

(* The other published versions of v's document, which publishing v        *)
(* replaces.                                                               *)
Replaced(v) == {w \in Siblings(v) : status[w] = "indexed"}

(* _new_review; submit and reopen rows are both "submit" rows here.        *)
Log(v, action, actor, override, submission) ==
  /\ Cardinality(reviews) < MaxReviews
  /\ reviews' = reviews \cup {[version |-> v, action |-> action,
                               actor |-> actor, override |-> override,
                               submission |-> submission]}

Approvals(v) == {r \in reviews : r.version = v /\ r.action = "approve"}

SelfReview(v, s) == RequireSeparation /\ submitter[v] = s

SetStatus(v, new) == status' = [status EXCEPT ![v] = new]

GoLive_ReplacedGoesToReview(v) ==
  status' = [w \in Version |-> IF w = v THEN "indexed"
                                  ELSE IF w \in Replaced(v) THEN "staged"
                                  ELSE status[w]]

(* v becomes the published version and supersedes the one it replaces.     *)
GoLive(v) ==
  status' = [w \in Version |-> IF w = v THEN "indexed"
                                  ELSE IF w \in Replaced(v) THEN "superseded"
                                  ELSE status[w]]

PointTo_FirstPointerWins(v, own) ==
  supersededBy' = [w \in Version |->
                     IF w = v THEN own
                     ELSE IF w \in Replaced(v) /\ supersededBy[w] = NoVersion THEN v
                     ELSE supersededBy[w]]

PointTo(v, own) ==
  supersededBy' = [w \in Version |-> IF w = v THEN own
                                        ELSE IF w \in Replaced(v) THEN v
                                        ELSE supersededBy[w]]

-----------------------------------------------------------------------------
(* Importing and indexing.                                                 *)

(* begin_document_import of content its document does not have yet, or has *)
(* in a row that is neither published nor in flight: the row is reopened.  *)
BeginImport(v, s) ==
  /\ status[v] \notin {"indexed"} \cup InFlight
  /\ SetStatus(v, "queued")
  /\ submitter' = [submitter EXCEPT ![v] = s]
  /\ submissions' = [submissions EXCEPT ![v] = @ + 1]
  /\ Log(v, "submit", s, FALSE, submissions[v] + 1)
  /\ UNCHANGED supersededBy

MarkProcessing(v) ==
  /\ status[v] \in Indexable
  /\ SetStatus(v, "processing")
  /\ UNCHANGED <<submitter, supersededBy, submissions, reviews>>

(* finalize_document_version: in direct mode the version is published, in  *)
(* review mode it waits for a reviewer.                                    *)
Finalize(v) ==
  /\ status[v] \in Indexable
  /\ IF GovernanceMode = "direct"
     THEN /\ GoLive(v)
          /\ PointTo(v, supersededBy[v])
          /\ Log(v, "publish", NoOne, FALSE, submissions[v])
     ELSE /\ SetStatus(v, "staged")
          /\ UNCHANGED <<supersededBy, reviews>>
  /\ UNCHANGED <<submitter, submissions>>

(* fail_document_import looks at nothing but the row's existence.          *)
FailImport(v) ==
  /\ status[v] # "absent"
  /\ SetStatus(v, "failed")
  /\ UNCHANGED <<submitter, supersededBy, submissions, reviews>>

ResetForRetry_UnknownStatus(v) ==
  /\ status[v] \in {"processing", "failed"}
  /\ SetStatus(v, "retrying")
  /\ UNCHANGED <<submitter, supersededBy, submissions, reviews>>

ResetForRetry(v) ==
  /\ status[v] \in {"processing", "failed"}
  /\ SetStatus(v, "queued")
  /\ UNCHANGED <<submitter, supersededBy, submissions, reviews>>

(* reindex_document_version also takes a published version offline.        *)
Reindex(v) ==
  /\ status[v] \notin {"absent", "rejected", "withdrawn"}
  /\ SetStatus(v, "queued")
  /\ UNCHANGED <<submitter, supersededBy, submissions, reviews>>

-----------------------------------------------------------------------------
(* Governance.                                                             *)

(* review_document_version: approving authorises a later publication and   *)
(* leaves the version staged, rejecting it ends its review.                *)
MayReview(v, s) ==
  /\ status[v] = "staged"
  /\ SelfReview(v, s) => AllowOverride

Approve_OverrideUnrecorded(v, s) ==
  /\ MayReview(v, s)
  /\ Log(v, "approve", s, FALSE, submissions[v])
  /\ UNCHANGED <<status, submitter, supersededBy, submissions>>

Approve(v, s) ==
  /\ MayReview(v, s)
  /\ Log(v, "approve", s, SelfReview(v, s), submissions[v])
  /\ UNCHANGED <<status, submitter, supersededBy, submissions>>

Reject(v, s) ==
  /\ MayReview(v, s)
  /\ SetStatus(v, "rejected")
  /\ UNCHANGED <<submitter, supersededBy, submissions, reviews>>

(* publish_document_version: any approval the version ever had will do.    *)
Publish(v, s) ==
  /\ status[v] = "staged"
  /\ Approvals(v) = {} => AllowOverride
  /\ GoLive(v)
  /\ PointTo(v, supersededBy[v])
  /\ Log(v, "publish", s, Approvals(v) = {}, submissions[v])
  /\ UNCHANGED <<submitter, submissions>>

Withdraw(v) ==
  /\ status[v] = "indexed"
  /\ SetStatus(v, "withdrawn")
  /\ UNCHANGED <<submitter, supersededBy, submissions, reviews>>

Rollback_LeavesOthersLive(v) ==
  /\ status[v] \in Retained
  /\ SetStatus(v, "indexed")
  /\ PointTo(v, NoVersion)
  /\ UNCHANGED <<submitter, submissions, reviews>>

(* rollback_document_version puts a retained version back as it is.        *)
Rollback(v) ==
  /\ status[v] \in Retained
  /\ GoLive(v)
  /\ PointTo(v, NoVersion)
  /\ UNCHANGED <<submitter, submissions, reviews>>

Index(v) == \/ MarkProcessing(v)
            \/ Finalize(v)
            \/ FailImport(v)
            \/ ResetForRetry(v)
            \/ Reindex(v)

Govern(v) == \/ \E s \in Subject : Approve(v, s) \/ Reject(v, s) \/ Publish(v, s)
             \/ Withdraw(v)
             \/ Rollback(v)

Next == \E v \in Version : \/ \E s \in Subject \cup {NoOne} : BeginImport(v, s)
                           \/ Index(v)
                           \/ Govern(v)

Spec == Init /\ [][Next]_vars

-----------------------------------------------------------------------------
(* Properties.                                                             *)

(* Searches join the chunks of every version whose status is "indexed":    *)
(* whatever importers, workers and administrators do in whatever order, a  *)
(* document never has two of them (publish_document_version,               *)
(* rollback_document_version and finalize_document_version supersede).     *)
AtMostOneIndexed ==
  \A v, w \in Version :
    /\ DocumentOf[v] = DocumentOf[w]
    /\ status[v] = "indexed"
    /\ status[w] = "indexed"
    => v = w

(* The superseded_by pointers of superseded versions lead, however often   *)
(* versions are rolled back, reopened and published again, out of the      *)
(* superseded ones and stay within the document: no set of superseded      *)
(* versions is closed under them (no cycle, no version superseded by       *)
(* nothing).                                                               *)
Superseded == {v \in Version : status[v] = "superseded"}

SupersededChainsEnd ==
  /\ \A v \in Superseded : supersededBy[v] \in Siblings(v)
  /\ \A S \in SUBSET Superseded :
       S # {} => \E v \in S : supersededBy[v] \notin S

(* In review mode with separation of duties, every version that is or was  *)
(* published was approved by someone else than the one who made that       *)
(* submission, or the trail carries a row flagged as an override: no order *)
(* of submissions, failures, retries, reviews and rollbacks publishes      *)
(* content that nobody answers for.                                        *)
IndependentApproval(r) ==
  /\ r.action = "approve"
  /\ \E s \in reviews : /\ s.action = "submit"
                        /\ s.version = r.version
                        /\ s.submission = r.submission
                        /\ s.actor # r.actor

Decided(v) == \E r \in reviews : /\ r.version = v
                                 /\ r.override \/ IndependentApproval(r)

PublicationIsAccountable ==
  (GovernanceMode = "review" /\ RequireSeparation) =>
    \A v \in Version : status[v] \in Published => Decided(v)

(* What begin_document_import's comment says of a reopened version: it     *)
(* must pass review again, so a version that is live without an override   *)
(* was approved since its last submission.                                 *)
ReopenedIsReviewedAgain ==
  (GovernanceMode = "review" /\ ~AllowOverride) =>
    \A v \in Version :
      status[v] = "indexed" =>
        \E r \in Approvals(v) : r.submission = submissions[v]

(* The store implements Publication: readers see versions replaced in one  *)
(* step, and no published version is lost when another takes its place.    *)
LiveVersions == [d \in Document |->
                   {v \in Version : DocumentOf[v] = d /\ status[v] = "indexed"}]
RetainedVersions == [d \in Document |->
                       {v \in Version : DocumentOf[v] = d /\ status[v] \in Retained}]

P == INSTANCE Publication WITH live <- LiveVersions, retained <- RetainedVersions

ImplementsPublication == P!Spec
=============================================================================
