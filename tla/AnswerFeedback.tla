--------------------------- MODULE AnswerFeedback ---------------------------
(***************************************************************************)
(* The feedback one user gives on one answer: record_feedback of           *)
(* src/backend/database.py, called by the feedback endpoint of src/app.py. *)
(*                                                                         *)
(* A submission selects the row and then inserts or updates it, without a  *)
(* lock; the same user may submit again meanwhile.  The mapper writes only *)
(* the columns whose value differs from the one it has loaded.             *)
(***************************************************************************)
EXTENDS FiniteSets, Naturals

CONSTANTS Submission,  \* calls of the endpoint for that answer
          Comment      \* comments they may carry

Rating == {"positive", "negative"}

VARIABLES feedbackRows,  \* the rows of query_feedback for that user and answer
          submission,    \* submission[s]: the locals of call s
          staleUpdate    \* whether a submission ever updated a row that had
                         \* changed since it was selected (no code reads it)

feedbackVars == <<feedbackRows, submission, staleUpdate>>

Content == [rating : Rating, comment : Comment]
Unseen == [rating |-> "none", comment |-> "none"]

FeedbackTypeOK ==
  /\ feedbackRows \subseteq [id : Submission, content : Content]
  /\ \A s \in Submission :
       /\ submission[s].step \in {"idle", "selected", "accepted", "failed"}
       /\ submission[s].given \in Content
       /\ submission[s].loaded \in Content \cup {Unseen}
  /\ staleUpdate \in BOOLEAN

FeedbackInit ==
  /\ feedbackRows = {}
  /\ \E given \in [Submission -> Content] :
       submission = [s \in Submission |->
                       [step |-> "idle", given |-> given[s], loaded |-> Unseen]]
  /\ staleUpdate = FALSE

-----------------------------------------------------------------------------
SubmissionGoes(s, step) == submission' = [submission EXCEPT ![s].step = step]

(* The row, if there is one, is selected.                                  *)
SelectFeedback(s) ==
  /\ submission[s].step = "idle"
  /\ \E seen \in {row.content : row \in feedbackRows} \cup
                 (IF feedbackRows = {} THEN {Unseen} ELSE {}) :
       submission' = [submission EXCEPT ![s].step = "selected", ![s].loaded = seen]
  /\ UNCHANGED <<feedbackRows, staleUpdate>>

(* An operator X_Y before an operator X is X with a plausible mistake in   *)
(* it; no action uses it.                                                  *)
MayInsert_Unconstrained(s) == submission[s].loaded = Unseen

(* uq_query_feedback_query_actor.                                          *)
MayInsert(s) == submission[s].loaded = Unseen /\ feedbackRows = {}

InsertFeedback(s) ==
  /\ submission[s].step = "selected"
  /\ MayInsert(s)
  /\ feedbackRows' = feedbackRows \cup {[id |-> s, content |-> submission[s].given]}
  /\ SubmissionGoes(s, "accepted")
  /\ UNCHANGED staleUpdate

(* What an UPDATE of the columns that differ from the loaded ones leaves.  *)
Updated(s, content) == LET given == submission[s].given
                           loaded == submission[s].loaded
                       IN
  [rating |-> IF given.rating = loaded.rating THEN content.rating ELSE given.rating,
   comment |-> IF given.comment = loaded.comment THEN content.comment ELSE given.comment]

UpdateFeedback(s) ==
  /\ submission[s].step = "selected"
  /\ submission[s].loaded # Unseen
  /\ feedbackRows' = {[row EXCEPT !.content = Updated(s, @)] : row \in feedbackRows}
  /\ staleUpdate' = \/ staleUpdate
                    \/ \E row \in feedbackRows : row.content # submission[s].loaded
  /\ SubmissionGoes(s, "accepted")

(* The constraint refuses a second row; or the transaction is lost.        *)
FeedbackFails(s) ==
  /\ submission[s].step = "selected"
  /\ SubmissionGoes(s, "failed")
  /\ UNCHANGED <<feedbackRows, staleUpdate>>

FeedbackNext == \E s \in Submission : \/ SelectFeedback(s)
                                      \/ InsertFeedback(s)
                                      \/ UpdateFeedback(s)
                                      \/ FeedbackFails(s)

FeedbackSpec == FeedbackInit /\ [][FeedbackNext]_feedbackVars

-----------------------------------------------------------------------------
(* Properties.                                                             *)

Accepted == {s \in Submission : submission[s].step = "accepted"}

(* However the submissions of a user overlap, there is one row as soon as  *)
(* one of them was accepted, and its rating and its comment were given     *)
(* together by an accepted one - unless one updated a row that had changed *)
(* under it, which mixes two of them (record_feedback promises an          *)
(* idempotent upsert of one row for each query and actor).                 *)
FeedbackIsOneSubmission ==
  /\ Cardinality(feedbackRows) = IF Accepted = {} THEN 0 ELSE 1
  /\ ~staleUpdate => \A row \in feedbackRows : \E s \in Accepted :
                       row.content = submission[s].given
=============================================================================
