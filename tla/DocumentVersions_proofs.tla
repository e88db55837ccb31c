----------------------- MODULE DocumentVersions_proofs -----------------------
(***************************************************************************)
(* Theorems of DocumentVersions, for any documents, versions and subjects, *)
(* any governance settings and any bound on the review trail.              *)
(***************************************************************************)
EXTENDS DocumentVersions, TLAPS

-----------------------------------------------------------------------------
(* Type correctness.                                                       *)

(* What the helpers assign keeps its type.                                 *)
LEMMA LogType ==
  ASSUME TypeOK,
         NEW v \in Version, NEW action \in {"submit", "approve", "publish"},
         NEW actor \in Subject \cup {NoOne}, NEW override \in BOOLEAN,
         NEW n \in Nat \ {0},
         Log(v, action, actor, override, n)
  PROVE  reviews' \in SUBSET Review
BY DEF TypeOK, Log, Review

LEMMA GoLiveType ==
  ASSUME TypeOK, NEW v \in Version, GoLive(v)
  PROVE  status' \in [Version -> Status \cup {"absent"}]
BY DEF TypeOK, GoLive, Status

LEMMA PointToType ==
  ASSUME TypeOK, NEW v \in Version, NEW own \in Version \cup {NoVersion},
         PointTo(v, own)
  PROVE  supersededBy' \in [Version -> Version \cup {NoVersion}]
BY DEF TypeOK, PointTo

(* A version that exists was submitted at least once, so the ordinal a     *)
(* review row carries is a positive number.                                *)
SubmittedOnce == \A v \in Version : status[v] # "absent" => submissions[v] # 0

TInv == TypeOK /\ SubmittedOnce

LEMMA InitTInv == Init => TInv
BY VersionAssumption DEF Init, TInv, TypeOK, SubmittedOnce

LEMMA NextTInv == TInv /\ [Next]_vars => TInv'
<1> SUFFICES ASSUME TypeOK, SubmittedOnce, [Next]_vars PROVE TInv'
  BY DEF TInv
<1> USE DEF TInv
<1>1. ASSUME NEW v \in Version, NEW s \in Subject \cup {NoOne}, BeginImport(v, s)
      PROVE  TInv'
  <2>1. submissions[v] + 1 \in Nat \ {0}
    BY DEF TypeOK
  <2>2. reviews' \in SUBSET Review
    BY <1>1, <2>1, LogType DEF BeginImport
  <2>3. TypeOK'
    BY <1>1, <2>1, <2>2 DEF BeginImport, SetStatus, TypeOK, Status
  <2>4. SubmittedOnce'
    BY <1>1, <2>1 DEF BeginImport, SetStatus, TypeOK, SubmittedOnce
  <2> QED BY <2>3, <2>4
<1>2. ASSUME NEW v \in Version, MarkProcessing(v)
      PROVE  TInv'
  BY <1>2 DEF MarkProcessing, SetStatus, Indexable, TypeOK, SubmittedOnce, Status
<1>3. ASSUME NEW v \in Version, Finalize(v)
      PROVE  TInv'
  <2>1. status[v] # "absent" /\ submissions[v] \in Nat \ {0}
    BY <1>3 DEF Finalize, Indexable, TypeOK, SubmittedOnce
  <2>2. CASE GovernanceMode = "direct"
    <3>1. GoLive(v) /\ PointTo(v, supersededBy[v])
          /\ Log(v, "publish", NoOne, FALSE, submissions[v])
      BY <1>3, <2>2 DEF Finalize
    <3>2. reviews' \in SUBSET Review
      BY <2>1, <3>1, LogType
    <3>3. supersededBy' \in [Version -> Version \cup {NoVersion}]
      BY <3>1, PointToType DEF TypeOK
    <3>4. TypeOK'
      BY <1>3, <3>1, <3>2, <3>3, GoLiveType DEF Finalize, TypeOK
    <3>5. SubmittedOnce'
      BY <1>3, <2>1, <3>1 DEF Finalize, GoLive, Replaced, Siblings, SubmittedOnce, TypeOK
    <3> QED BY <3>4, <3>5
  <2>3. CASE GovernanceMode # "direct"
    BY <1>3, <2>1, <2>3
    DEF Finalize, SetStatus, TypeOK, SubmittedOnce, Status
  <2> QED BY <2>2, <2>3
<1>4. ASSUME NEW v \in Version, FailImport(v)
      PROVE  TInv'
  BY <1>4 DEF FailImport, SetStatus, TypeOK, SubmittedOnce, Status
<1>5. ASSUME NEW v \in Version, ResetForRetry(v)
      PROVE  TInv'
  BY <1>5 DEF ResetForRetry, SetStatus, TypeOK, SubmittedOnce, Status
<1>6. ASSUME NEW v \in Version, Reindex(v)
      PROVE  TInv'
  BY <1>6 DEF Reindex, SetStatus, TypeOK, SubmittedOnce, Status
<1>7. ASSUME NEW v \in Version, NEW s \in Subject, Approve(v, s)
      PROVE  TInv'
  <2>1. submissions[v] \in Nat \ {0}
    BY <1>7 DEF Approve, MayReview, TypeOK, SubmittedOnce
  <2>2. SelfReview(v, s) \in BOOLEAN
    BY GovernanceAssumption DEF SelfReview
  <2>3. reviews' \in SUBSET Review
    BY <1>7, <2>1, <2>2, LogType DEF Approve
  <2> QED BY <1>7, <2>3 DEF Approve, TypeOK, SubmittedOnce
<1>8. ASSUME NEW v \in Version, NEW s \in Subject, Reject(v, s)
      PROVE  TInv'
  BY <1>8 DEF Reject, MayReview, SetStatus, TypeOK, SubmittedOnce, Status
<1>9. ASSUME NEW v \in Version, NEW s \in Subject, Publish(v, s)
      PROVE  TInv'
  <2>1. status[v] # "absent" /\ submissions[v] \in Nat \ {0}
    BY <1>9 DEF Publish, TypeOK, SubmittedOnce
  <2>2. (Approvals(v) = {}) \in BOOLEAN
    OBVIOUS
  <2>3. GoLive(v) /\ PointTo(v, supersededBy[v])
        /\ Log(v, "publish", s, Approvals(v) = {}, submissions[v])
    BY <1>9 DEF Publish
  <2>4. reviews' \in SUBSET Review
    BY <2>1, <2>2, <2>3, LogType
  <2>5. supersededBy' \in [Version -> Version \cup {NoVersion}]
    BY <2>3, PointToType DEF TypeOK
  <2>6. TypeOK'
    BY <1>9, <2>3, <2>4, <2>5, GoLiveType DEF Publish, TypeOK
  <2>7. SubmittedOnce'
    BY <1>9, <2>1, <2>3 DEF Publish, GoLive, Replaced, Siblings, SubmittedOnce, TypeOK
  <2> QED BY <2>6, <2>7
<1>10. ASSUME NEW v \in Version, Withdraw(v)
       PROVE  TInv'
  BY <1>10 DEF Withdraw, SetStatus, TypeOK, SubmittedOnce, Status
<1>11. ASSUME NEW v \in Version, Rollback(v)
       PROVE  TInv'
  <2>1. GoLive(v) /\ PointTo(v, NoVersion)
    BY <1>11 DEF Rollback
  <2>2. TypeOK'
    BY <1>11, <2>1, GoLiveType, PointToType DEF Rollback, TypeOK
  <2>3. SubmittedOnce'
    BY <1>11, <2>1
    DEF Rollback, Retained, GoLive, Replaced, Siblings, SubmittedOnce, TypeOK
  <2> QED BY <2>2, <2>3
<1>12. CASE UNCHANGED vars
  BY <1>12 DEF vars, TypeOK, SubmittedOnce
<1> QED
  BY <1>1, <1>2, <1>3, <1>4, <1>5, <1>6, <1>7, <1>8, <1>9, <1>10, <1>11, <1>12
  DEF Next, Index, Govern

LEMMA TInvariant == Spec => []TInv
BY InitTInv, NextTInv, PTL DEF Spec

(* Every row of document_versions and of its review trail keeps its type   *)
(* under every schedule of the repository's transactions.                  *)
THEOREM TypeCorrect == Spec => []TypeOK
<1>1. TInv => TypeOK
  BY DEF TInv
<1> QED BY <1>1, TInvariant, PTL

-----------------------------------------------------------------------------
(* One published version.                                                  *)

(* Publishing supersedes every other published version of the document and *)
(* touches no other document.                                              *)
LEMMA GoLiveKeepsOneIndexed ==
  ASSUME TypeOK, AtMostOneIndexed, NEW v \in Version, GoLive(v)
  PROVE  AtMostOneIndexed'
BY VersionAssumption DEF TypeOK, AtMostOneIndexed, GoLive, Replaced, Siblings

(* Any other transaction sets one version to a status that is not indexed. *)
LEMMA SetStatusKeepsOneIndexed ==
  ASSUME TypeOK, AtMostOneIndexed, NEW v \in Version, NEW new, new # "indexed",
         SetStatus(v, new)
  PROVE  AtMostOneIndexed'
BY DEF TypeOK, AtMostOneIndexed, SetStatus

LEMMA NextAtMostOneIndexed ==
  TypeOK /\ AtMostOneIndexed /\ [Next]_vars => AtMostOneIndexed'
<1> SUFFICES ASSUME TypeOK, AtMostOneIndexed, [Next]_vars PROVE AtMostOneIndexed'
  OBVIOUS
<1>1. ASSUME NEW v \in Version, NEW s \in Subject \cup {NoOne}, BeginImport(v, s)
      PROVE  AtMostOneIndexed'
  BY <1>1, SetStatusKeepsOneIndexed DEF BeginImport
<1>2. ASSUME NEW v \in Version, Index(v)
      PROVE  AtMostOneIndexed'
  <2>1. CASE MarkProcessing(v)
    BY <2>1, SetStatusKeepsOneIndexed DEF MarkProcessing
  <2>2. CASE Finalize(v)
    BY <2>2, GoLiveKeepsOneIndexed, SetStatusKeepsOneIndexed DEF Finalize
  <2>3. CASE FailImport(v)
    BY <2>3, SetStatusKeepsOneIndexed DEF FailImport
  <2>4. CASE ResetForRetry(v)
    BY <2>4, SetStatusKeepsOneIndexed DEF ResetForRetry
  <2>5. CASE Reindex(v)
    BY <2>5, SetStatusKeepsOneIndexed DEF Reindex
  <2> QED BY <1>2, <2>1, <2>2, <2>3, <2>4, <2>5 DEF Index
<1>3. ASSUME NEW v \in Version, Govern(v)
      PROVE  AtMostOneIndexed'
  <2>1. ASSUME NEW s \in Subject, Approve(v, s)
        PROVE  AtMostOneIndexed'
    BY <2>1 DEF Approve, AtMostOneIndexed
  <2>2. ASSUME NEW s \in Subject, Reject(v, s)
        PROVE  AtMostOneIndexed'
    BY <2>2, SetStatusKeepsOneIndexed DEF Reject
  <2>3. ASSUME NEW s \in Subject, Publish(v, s)
        PROVE  AtMostOneIndexed'
    BY <2>3, GoLiveKeepsOneIndexed DEF Publish
  <2>4. CASE Withdraw(v)
    BY <2>4, SetStatusKeepsOneIndexed DEF Withdraw
  <2>5. CASE Rollback(v)
    BY <2>5, GoLiveKeepsOneIndexed DEF Rollback
  <2> QED BY <1>3, <2>1, <2>2, <2>3, <2>4, <2>5 DEF Govern
<1>4. CASE UNCHANGED vars
  BY <1>4 DEF vars, AtMostOneIndexed
<1> QED BY <1>1, <1>2, <1>3, <1>4 DEF Next

(* No interleaving of importers, workers and administrators ever leaves a  *)
(* document with two versions that searches return.                        *)
THEOREM OneIndexed == Spec => []AtMostOneIndexed
<1>1. Init => AtMostOneIndexed
  BY DEF Init, AtMostOneIndexed
<1> QED BY <1>1, NextAtMostOneIndexed, TypeCorrect, PTL DEF Spec

-----------------------------------------------------------------------------
(* Accountability of what is published.                                    *)

(* The invariant is not inductive by itself: publishing relies on approvals*)
(* recorded earlier, and an approval is independent of the submission it   *)
(* was given for.  The trail therefore holds the row of every version's    *)
(* last submission, and each approval in it is answered for.               *)
SubmissionRecorded ==
  \A v \in Version : status[v] # "absent" =>
    \E r \in reviews : /\ r.action = "submit"
                       /\ r.version = v
                       /\ r.submission = submissions[v]
                       /\ r.actor = submitter[v]

ApprovalsAnsweredFor ==
  \A r \in reviews : r.action = "approve" => r.override \/ IndependentApproval(r)

PublishedDecided == \A v \in Version : status[v] \in Published => Decided(v)

AInv == SubmissionRecorded /\ ApprovalsAnsweredFor /\ PublishedDecided

(* The trail only grows, so what it shows stays shown.                     *)
LEMMA DecidedStays ==
  ASSUME reviews \subseteq reviews', NEW v \in Version, Decided(v)
  PROVE  Decided(v)'
BY DEF Decided, IndependentApproval

LEMMA ApprovalsStayAnsweredFor ==
  ASSUME reviews \subseteq reviews', ApprovalsAnsweredFor,
         \A r \in reviews' \ reviews : r.action # "approve"
  PROVE  ApprovalsAnsweredFor'
BY DEF ApprovalsAnsweredFor, IndependentApproval

LEMMA LogGrows ==
  ASSUME NEW v \in Version, NEW action \in {"submit", "approve", "publish"},
         NEW actor \in Subject \cup {NoOne}, NEW override \in BOOLEAN, NEW n \in Nat,
         Log(v, action, actor, override, n)
  PROVE  /\ reviews \subseteq reviews'
         /\ \E r \in reviews' : /\ r.version = v
                                /\ r.action = action
                                /\ r.actor = actor
                                /\ r.submission = n
                                /\ override => r.override
         /\ action # "approve" => \A r \in reviews' \ reviews : r.action # "approve"
<1> DEFINE row == [version |-> v, action |-> action, actor |-> actor,
                   override |-> override, submission |-> n]
<1>1. reviews' = reviews \cup {row}
  BY DEF Log
<1>2. /\ row.version = v
      /\ row.action = action
      /\ row.actor = actor
      /\ row.submission = n
      /\ override => row.override
  OBVIOUS
<1> HIDE DEF row
<1> QED BY <1>1, <1>2

(* A transaction that adds no review row and publishes nothing.            *)
LEMMA QuietStep ==
  ASSUME TypeOK, AInv, NEW v \in Version, NEW new,
         status[v] # "absent", new \notin Published \/ status[v] \in Published,
         SetStatus(v, new), UNCHANGED <<submitter, submissions, reviews>>
  PROVE  AInv'
BY DEF TypeOK, AInv, SetStatus, SubmissionRecorded, ApprovalsAnsweredFor,
       PublishedDecided, Published, Decided, IndependentApproval

(* Publishing, once the version that goes live is answered for.            *)
LEMMA GoLiveStep ==
  ASSUME TypeOK, AInv, NEW v \in Version, GoLive(v), status[v] # "absent",
         Decided(v)', reviews \subseteq reviews', ApprovalsAnsweredFor',
         UNCHANGED <<submitter, submissions>>
  PROVE  AInv'
<1>1. SubmissionRecorded'
  BY DEF TypeOK, AInv, GoLive, Replaced, Siblings, SubmissionRecorded
<1>2. ASSUME NEW w \in Version, status'[w] \in Published
      PROVE  Decided(w)'
  <2>1. w = v \/ status[w] \in Published
    BY <1>2 DEF TypeOK, GoLive, Replaced, Published, Retained
  <2> QED BY <2>1, DecidedStays DEF AInv, PublishedDecided
<1> QED BY <1>1, <1>2 DEF AInv, PublishedDecided

LEMMA NextAInv ==
  ASSUME GovernanceMode = "review", RequireSeparation,
         TypeOK, AInv, [Next]_vars
  PROVE  AInv'
<1>1. ASSUME NEW v \in Version, NEW s \in Subject \cup {NoOne}, BeginImport(v, s)
      PROVE  AInv'
  <2>1. /\ reviews \subseteq reviews'
        /\ \E r \in reviews' : /\ r.action = "submit"
                               /\ r.version = v
                               /\ r.submission = submissions[v] + 1
                               /\ r.actor = s
        /\ \A r \in reviews' \ reviews : r.action # "approve"
    <3>1. Log(v, "submit", s, FALSE, submissions[v] + 1)
      BY <1>1 DEF BeginImport
    <3>2. \E r \in reviews' : /\ r.version = v
                             /\ r.action = "submit"
                             /\ r.actor = s
                             /\ r.submission = submissions[v] + 1
      <4> DEFINE row == [version |-> v, action |-> "submit", actor |-> s,
                         override |-> FALSE, submission |-> submissions[v] + 1]
      <4>1. row \in reviews'
        BY <3>1 DEF Log
      <4>2. /\ row.version = v
            /\ row.action = "submit"
            /\ row.actor = s
            /\ row.submission = submissions[v] + 1
        OBVIOUS
      <4> HIDE DEF row
      <4> QED BY <4>1, <4>2
    <3>3. /\ reviews \subseteq reviews'
          /\ \A r \in reviews' \ reviews : r.action # "approve"
      BY <3>1 DEF Log
    <3> QED BY <3>2, <3>3
  <2>2. SubmissionRecorded'
    BY <1>1, <2>1 DEF BeginImport, SetStatus, TypeOK, AInv, SubmissionRecorded
  <2>3. ApprovalsAnsweredFor'
    BY <2>1, ApprovalsStayAnsweredFor DEF AInv
  <2>4. PublishedDecided'
    BY <1>1, <2>1, DecidedStays
    DEF BeginImport, SetStatus, TypeOK, AInv, PublishedDecided, Published, Retained
  <2> QED BY <2>2, <2>3, <2>4 DEF AInv
<1>2. ASSUME NEW v \in Version, Index(v)
      PROVE  AInv'
  <2>1. CASE MarkProcessing(v)
    BY <2>1, QuietStep DEF MarkProcessing, Indexable, Published, Retained
  <2>2. CASE Finalize(v)
    BY <2>2, QuietStep DEF Finalize, Indexable, Published, Retained
  <2>3. CASE FailImport(v)
    BY <2>3, QuietStep DEF FailImport, Published, Retained
  <2>4. CASE ResetForRetry(v)
    BY <2>4, QuietStep DEF ResetForRetry, Published, Retained
  <2>5. CASE Reindex(v)
    BY <2>5, QuietStep DEF Reindex, Published, Retained
  <2> QED BY <1>2, <2>1, <2>2, <2>3, <2>4, <2>5 DEF Index
<1>3. ASSUME NEW v \in Version, NEW s \in Subject, Approve(v, s)
      PROVE  AInv'
  <2>1. PICK r \in reviews : /\ r.action = "submit"
                             /\ r.version = v
                             /\ r.submission = submissions[v]
                             /\ r.actor = submitter[v]
    BY <1>3 DEF Approve, MayReview, AInv, SubmissionRecorded
  <2>2. reviews \subseteq reviews'
    BY <1>3 DEF Approve, Log
  <2>3. ASSUME NEW q \in reviews' \ reviews
        PROVE  q.override \/ IndependentApproval(q)'
    <3>1. q = [version |-> v, action |-> "approve", actor |-> s,
               override |-> SelfReview(v, s), submission |-> submissions[v]]
      BY <1>3, <2>3 DEF Approve, Log
    <3>2. CASE submitter[v] = s
      BY <3>1, <3>2 DEF SelfReview
    <3>3. CASE submitter[v] # s
      BY <2>1, <2>2, <3>1, <3>3 DEF IndependentApproval
    <3> QED BY <3>2, <3>3
  <2>4. ApprovalsAnsweredFor'
    BY <2>2, <2>3 DEF AInv, ApprovalsAnsweredFor, IndependentApproval
  <2>5. SubmissionRecorded' /\ PublishedDecided'
    BY <1>3, <2>2, DecidedStays DEF Approve, AInv, SubmissionRecorded, PublishedDecided
  <2> QED BY <2>4, <2>5 DEF AInv
<1>4. ASSUME NEW v \in Version, NEW s \in Subject, Reject(v, s)
      PROVE  AInv'
  BY <1>4, QuietStep DEF Reject, MayReview, Published, Retained
<1>5. ASSUME NEW v \in Version, NEW s \in Subject, Publish(v, s)
      PROVE  AInv'
  <2>1. Log(v, "publish", s, Approvals(v) = {}, submissions[v])
    BY <1>5 DEF Publish
  <2>2. /\ reviews \subseteq reviews'
        /\ \A r \in reviews' \ reviews : r.action # "approve"
    BY <2>1 DEF Log
  <2>3. Decided(v)'
    <3>1. CASE Approvals(v) = {}
      <4>1. \E r \in reviews' : r.version = v /\ r.override
        BY <2>1, <3>1, LogGrows, ZenonT(60) DEF TypeOK
      <4> QED BY <4>1 DEF Decided
    <3>2. CASE Approvals(v) # {}
      <4>1. Decided(v)
        BY <3>2 DEF Approvals, AInv, ApprovalsAnsweredFor, Decided
      <4> QED BY <2>2, <4>1, DecidedStays
    <3> QED BY <3>1, <3>2
  <2>4. ApprovalsAnsweredFor'
    BY <2>2, ApprovalsStayAnsweredFor DEF AInv
  <2> QED BY <1>5, <2>2, <2>3, <2>4, GoLiveStep DEF Publish
<1>6. ASSUME NEW v \in Version, Withdraw(v)
      PROVE  AInv'
  BY <1>6, QuietStep DEF Withdraw, Published, Retained
<1>7. ASSUME NEW v \in Version, Rollback(v)
      PROVE  AInv'
  <2>1. /\ reviews' = reviews
        /\ status[v] \in Published
    BY <1>7 DEF Rollback, Published
  <2>2. Decided(v)' /\ ApprovalsAnsweredFor'
    BY <2>1, DecidedStays, ApprovalsStayAnsweredFor DEF AInv, PublishedDecided
  <2> QED BY <1>7, <2>1, <2>2, GoLiveStep DEF Rollback, Retained
<1>8. CASE UNCHANGED vars
  BY <1>8 DEF vars, AInv, SubmissionRecorded, ApprovalsAnsweredFor,
              PublishedDecided, Decided, IndependentApproval
<1> QED
  BY <1>1, <1>2, <1>3, <1>4, <1>5, <1>6, <1>7, <1>8 DEF Next, Govern

(* In review mode with separation of duties nothing is ever published that *)
(* nobody but its submitter approved, unless the trail shows an override:  *)
(* whatever was reopened, failed, retried, reindexed or rolled back before.*)
THEOREM Accountable == Spec => []PublicationIsAccountable
<1> DEFINE I == (GovernanceMode = "review" /\ RequireSeparation) => AInv
<1>1. Init => I
  BY DEF Init, AInv, SubmissionRecorded, ApprovalsAnsweredFor, PublishedDecided,
         Published, Retained
<1>2. TypeOK /\ I /\ [Next]_vars => I'
  BY NextAInv
<1>3. I => PublicationIsAccountable
  BY DEF AInv, PublishedDecided, PublicationIsAccountable
<1> HIDE DEF I
<1> QED BY <1>1, <1>2, <1>3, TypeCorrect, PTL DEF Spec

-----------------------------------------------------------------------------
(* The store implements Publication.                                       *)

(* Publishing shows readers the new version in place of the old one and    *)
(* retains the old one, in one step.                                       *)
LEMMA GoLiveServes ==
  ASSUME TypeOK, NEW v \in Version, status[v] # "indexed", GoLive(v)
  PROVE  P!Serve(v)
<1> DEFINE d == DocumentOf[v]
<1>1. d \in Document
  BY VersionAssumption
<1>2. \A w \in Version :
        /\ status'[w] = "indexed" <=>
             w = v \/ (status[w] = "indexed" /\ DocumentOf[w] # d)
        /\ status'[w] \in Retained <=>
             /\ w # v
             /\ status[w] \in Retained \/ (status[w] = "indexed" /\ DocumentOf[w] = d)
  BY DEF TypeOK, GoLive, Replaced, Siblings, Retained
<1>3. LiveVersions' = [LiveVersions EXCEPT ![d] = {v}]
  <2>1. \A e \in Document :
          LiveVersions'[e] = IF e = d THEN {v} ELSE LiveVersions[e]
    BY <1>2 DEF LiveVersions
  <2> QED BY <2>1, <1>1 DEF LiveVersions
<1>4. RetainedVersions' =
        [RetainedVersions EXCEPT ![d] = (@ \cup LiveVersions[d]) \ {v}]
  <2>1. \A e \in Document :
          RetainedVersions'[e] =
            IF e = d THEN (RetainedVersions[d] \cup LiveVersions[d]) \ {v}
                     ELSE RetainedVersions[e]
    BY <1>2 DEF LiveVersions, RetainedVersions
  <2> QED BY <2>1, <1>1 DEF RetainedVersions
<1>5. v \notin LiveVersions[d]
  BY <1>1 DEF LiveVersions
<1> QED BY <1>3, <1>4, <1>5 DEF P!Serve

(* Taking a version out of its status shows nothing new.                   *)
LEMMA SetStatusReprocesses ==
  ASSUME TypeOK, NEW v \in Version, NEW new, new \notin Published,
         SetStatus(v, new)
  PROVE  P!Reprocess(v) \/ UNCHANGED P!vars
<1> DEFINE d == DocumentOf[v]
<1>0. d \in Document
  BY VersionAssumption
<1>1. /\ LiveVersions' = [LiveVersions EXCEPT ![d] = @ \ {v}]
      /\ RetainedVersions' = [RetainedVersions EXCEPT ![d] = @ \ {v}]
  <2>1. \A w \in Version :
          /\ status'[w] = "indexed" <=> w # v /\ status[w] = "indexed"
          /\ status'[w] \in Retained <=> w # v /\ status[w] \in Retained
    BY DEF TypeOK, SetStatus, Published, Retained
  <2>2. \A e \in Document :
          /\ LiveVersions'[e] =
               IF e = d THEN LiveVersions[d] \ {v} ELSE LiveVersions[e]
          /\ RetainedVersions'[e] =
               IF e = d THEN RetainedVersions[d] \ {v} ELSE RetainedVersions[e]
    BY <2>1 DEF LiveVersions, RetainedVersions
  <2>3. LiveVersions' = [LiveVersions EXCEPT ![d] = @ \ {v}]
    BY <2>2, <1>0, ZenonT(60) DEF LiveVersions
  <2>4. RetainedVersions' = [RetainedVersions EXCEPT ![d] = @ \ {v}]
    <3>1. \A e \in Document : RetainedVersions'[e] =
             IF e = d THEN RetainedVersions[d] \ {v} ELSE RetainedVersions[e]
      BY <2>2
    <3> QED BY <1>0, <3>1 DEF RetainedVersions
  <2> QED BY <2>3, <2>4
<1>2. CASE v \in LiveVersions[d] \cup RetainedVersions[d]
  BY <1>1, <1>2 DEF P!Reprocess
<1>3. CASE v \notin LiveVersions[d] \cup RetainedVersions[d]
  BY <1>0, <1>1, <1>3 DEF P!vars, LiveVersions, RetainedVersions
<1> QED BY <1>2, <1>3

LEMMA StepImplementsPublication ==
  TypeOK /\ [Next]_vars => [P!Next]_(P!vars)
<1> SUFFICES ASSUME TypeOK, [Next]_vars PROVE [P!Next]_(P!vars)
  OBVIOUS
<1> USE DEF P!Next
<1>1. ASSUME NEW v \in Version, NEW s \in Subject \cup {NoOne}, BeginImport(v, s)
      PROVE  [P!Next]_(P!vars)
  BY <1>1, SetStatusReprocesses DEF BeginImport, Published, Retained
<1>2. ASSUME NEW v \in Version, Index(v)
      PROVE  [P!Next]_(P!vars)
  <2>1. CASE MarkProcessing(v)
    BY <2>1, SetStatusReprocesses DEF MarkProcessing, Published, Retained
  <2>2. CASE Finalize(v)
    BY <2>2, GoLiveServes, SetStatusReprocesses
    DEF Finalize, Indexable, Published, Retained
  <2>3. CASE FailImport(v)
    BY <2>3, SetStatusReprocesses DEF FailImport, Published, Retained
  <2>4. CASE ResetForRetry(v)
    BY <2>4, SetStatusReprocesses DEF ResetForRetry, Published, Retained
  <2>5. CASE Reindex(v)
    BY <2>5, SetStatusReprocesses DEF Reindex, Published, Retained
  <2> QED BY <1>2, <2>1, <2>2, <2>3, <2>4, <2>5 DEF Index
<1>3. ASSUME NEW v \in Version, Govern(v)
      PROVE  [P!Next]_(P!vars)
  <2>1. ASSUME NEW s \in Subject, Approve(v, s)
        PROVE  [P!Next]_(P!vars)
    BY <2>1 DEF Approve, P!vars, LiveVersions, RetainedVersions
  <2>2. ASSUME NEW s \in Subject, Reject(v, s)
        PROVE  [P!Next]_(P!vars)
    BY <2>2, SetStatusReprocesses DEF Reject, Published, Retained
  <2>3. ASSUME NEW s \in Subject, Publish(v, s)
        PROVE  [P!Next]_(P!vars)
    BY <2>3, GoLiveServes DEF Publish
  <2>4. CASE Withdraw(v)
    <3> DEFINE d == DocumentOf[v]
    <3>1. d \in Document
      BY VersionAssumption
    <3>2. \A w \in Version :
            /\ status'[w] = "indexed" <=> w # v /\ status[w] = "indexed"
            /\ status'[w] \in Retained <=> w = v \/ status[w] \in Retained
      BY <2>4 DEF Withdraw, TypeOK, SetStatus, Retained
    <3>3. \A e \in Document :
            /\ LiveVersions'[e] =
                 IF e = d THEN LiveVersions[d] \ {v} ELSE LiveVersions[e]
            /\ RetainedVersions'[e] =
                 IF e = d THEN RetainedVersions[d] \cup {v} ELSE RetainedVersions[e]
      BY <3>2 DEF LiveVersions, RetainedVersions
    <3>4. LiveVersions' = [LiveVersions EXCEPT ![d] = @ \ {v}]
      BY <3>1, <3>3, ZenonT(60) DEF LiveVersions
    <3>5. RetainedVersions' = [RetainedVersions EXCEPT ![d] = @ \cup {v}]
      <4>1. \A e \in Document : RetainedVersions'[e] =
               IF e = d THEN RetainedVersions[d] \cup {v} ELSE RetainedVersions[e]
        BY <3>3
      <4> QED BY <3>1, <4>1 DEF RetainedVersions
    <3>6. v \in LiveVersions[d]
      BY <2>4, <3>1 DEF Withdraw, LiveVersions
    <3> QED BY <3>4, <3>5, <3>6 DEF P!TakeDown
  <2>5. CASE Rollback(v)
    BY <2>5, GoLiveServes DEF Rollback, Retained
  <2> QED BY <1>3, <2>1, <2>2, <2>3, <2>4, <2>5 DEF Govern
<1>4. CASE UNCHANGED vars
  BY <1>4 DEF vars, P!vars, LiveVersions, RetainedVersions
<1> QED BY <1>1, <1>2, <1>3, <1>4 DEF Next

(* For every document, publishing, withdrawing, rolling back and           *)
(* reprocessing implement the promise of Publication: a reader sees one    *)
(* version replaced by another in a single step, and the one it replaces   *)
(* can be put back.                                                        *)
THEOREM RefinesPublication == Spec => ImplementsPublication
<1>1. Init => P!Init
  BY DEF Init, P!Init, LiveVersions, RetainedVersions, Retained
<1> QED
  BY <1>1, StepImplementsPublication, TypeCorrect, PTL
  DEF Spec, ImplementsPublication, P!Spec
-----------------------------------------------------------------------------
(* The chains of superseded versions end.                                  *)

(* A version that stays superseded keeps its pointer, one that becomes     *)
(* superseded points to the version that replaces it, which is live now.   *)
LEMMA GoLiveKeepsChains ==
  ASSUME TypeOK, SupersededChainsEnd, NEW v \in Version,
         NEW own \in Version \cup {NoVersion}, GoLive(v), PointTo(v, own)
  PROVE  SupersededChainsEnd'
<1>1. Superseded' = (Superseded \ {v}) \cup Replaced(v)
  BY DEF TypeOK, GoLive, Superseded, Replaced, Siblings
<1>2. \A w \in Replaced(v) : supersededBy'[w] = v /\ v \in Siblings(w)
  BY DEF TypeOK, PointTo, Replaced, Siblings
<1>3. \A w \in Superseded \ {v} : w \notin Replaced(v) /\ supersededBy'[w] = supersededBy[w]
  BY DEF TypeOK, PointTo, Replaced, Superseded
<1>4. \A w \in Superseded' : supersededBy'[w] \in Siblings(w)
  BY <1>1, <1>2, <1>3 DEF SupersededChainsEnd
<1>5. ASSUME NEW S \in SUBSET (Superseded'), S # {}
      PROVE  \E w \in S : supersededBy'[w] \notin S
  <2>1. CASE \E w \in S : w \in Replaced(v)
    <3>1. v \notin S
      BY <1>1 DEF Replaced, Siblings
    <3> QED BY <2>1, <3>1, <1>2
  <2>2. CASE \A w \in S : w \notin Replaced(v)
    <3>1. S \in SUBSET Superseded /\ v \notin S
      BY <1>1, <2>2
    <3>2. PICK w \in S : supersededBy[w] \notin S
      BY <1>5, <3>1 DEF SupersededChainsEnd
    <3> QED BY <1>3, <3>1, <3>2
  <2> QED BY <2>1, <2>2
<1> QED BY <1>4, <1>5 DEF SupersededChainsEnd, Siblings

(* Whatever else changes a version leaves no new superseded one.           *)
LEMMA SetStatusKeepsChains ==
  ASSUME TypeOK, SupersededChainsEnd, NEW v \in Version, NEW new, new # "superseded",
         SetStatus(v, new), UNCHANGED supersededBy
  PROVE  SupersededChainsEnd'
<1>1. Superseded' \subseteq Superseded
  BY DEF TypeOK, SetStatus, Superseded
<1>2. \A S \in SUBSET (Superseded') : S \in SUBSET Superseded
  BY <1>1
<1> QED BY <1>1, <1>2 DEF SupersededChainsEnd, Siblings

LEMMA NextSupersededChainsEnd ==
  TypeOK /\ SupersededChainsEnd /\ [Next]_vars => SupersededChainsEnd'
<1> SUFFICES ASSUME TypeOK, SupersededChainsEnd, [Next]_vars PROVE SupersededChainsEnd'
  OBVIOUS
<1>u. ASSUME UNCHANGED <<status, supersededBy>>
      PROVE  SupersededChainsEnd'
  BY <1>u DEF SupersededChainsEnd, Superseded, Siblings
<1>1. ASSUME NEW v \in Version, NEW s \in Subject \cup {NoOne}, BeginImport(v, s)
      PROVE  SupersededChainsEnd'
  BY <1>1, SetStatusKeepsChains DEF BeginImport
<1>2. ASSUME NEW v \in Version, Index(v)
      PROVE  SupersededChainsEnd'
  <2>1. CASE MarkProcessing(v)
    BY <2>1, SetStatusKeepsChains DEF MarkProcessing
  <2>2. CASE Finalize(v)
    <3>1. supersededBy[v] \in Version \cup {NoVersion}
      BY DEF TypeOK
    <3> QED BY <2>2, <3>1, GoLiveKeepsChains, SetStatusKeepsChains DEF Finalize
  <2>3. CASE FailImport(v)
    BY <2>3, SetStatusKeepsChains DEF FailImport
  <2>4. CASE ResetForRetry(v)
    BY <2>4, SetStatusKeepsChains DEF ResetForRetry
  <2>5. CASE Reindex(v)
    BY <2>5, SetStatusKeepsChains DEF Reindex
  <2> QED BY <1>2, <2>1, <2>2, <2>3, <2>4, <2>5 DEF Index
<1>3. ASSUME NEW v \in Version, Govern(v)
      PROVE  SupersededChainsEnd'
  <2>1. ASSUME NEW s \in Subject, Approve(v, s)
        PROVE  SupersededChainsEnd'
    BY <1>u, <2>1 DEF Approve
  <2>2. ASSUME NEW s \in Subject, Reject(v, s)
        PROVE  SupersededChainsEnd'
    BY <2>2, SetStatusKeepsChains DEF Reject
  <2>3. ASSUME NEW s \in Subject, Publish(v, s)
        PROVE  SupersededChainsEnd'
    <3>1. supersededBy[v] \in Version \cup {NoVersion}
      BY DEF TypeOK
    <3> QED BY <2>3, <3>1, GoLiveKeepsChains DEF Publish
  <2>4. CASE Withdraw(v)
    BY <2>4, SetStatusKeepsChains DEF Withdraw
  <2>5. CASE Rollback(v)
    BY <2>5, GoLiveKeepsChains DEF Rollback
  <2> QED BY <1>3, <2>1, <2>2, <2>3, <2>4, <2>5 DEF Govern
<1>4. CASE UNCHANGED vars
  BY <1>4, <1>u DEF vars
<1> QED BY <1>1, <1>2, <1>3, <1>4 DEF Next

(* The pointers of superseded versions lead out of the superseded ones,    *)
(* within the document and without a cycle, for any number of versions and *)
(* any order of publications, rollbacks and new submissions.               *)
THEOREM ChainsEnd == Spec => []SupersededChainsEnd
<1>1. Init => SupersededChainsEnd
  <2>1. Init => Superseded = {}
    BY DEF Init, Superseded
  <2> QED BY <2>1 DEF SupersededChainsEnd
<1> QED BY <1>1, NextSupersededChainsEnd, TypeCorrect, PTL DEF Spec
=============================================================================
