---------------------------- MODULE MCAnswering ----------------------------
(* The parts of the query side that share no state in one run: access      *)
(* control, the answer pipeline, feedback, the daily quota and sign-in.  A *)
(* behaviour is one of a single part; the variables of the others keep a   *)
(* value their own Init gives them.  The roles first claimed are fixed,    *)
(* since the provider's two values are interchangeable.                    *)
EXTENDS AccessControl, AnswerService, AnswerFeedback, QueryQuota, Sessions, TLC

VARIABLE part

answeringVars == <<part, accessVars, answerVars, feedbackVars, quotaVars, sessionVars>>

AnsweringInit == /\ part \in {"access", "answer", "feedback", "quota", "sessions"}
                 /\ AccessInit
                 /\ AnswerInit
                 /\ FeedbackInit
                 /\ QuotaInit
                 /\ SessionsInit
                 /\ part # "answer" => config.mode = "local"
                 /\ part # "feedback" => \A s \in Submission :
                        submission[s].given = CHOOSE content \in Content : TRUE
                 /\ part # "quota" => \A c \in QuotaCall :
                                        asking[c].subject = CHOOSE a \in Asker : TRUE
                 /\ claimed[0] = "old"

AnsweringNext ==
  \/ /\ part = "access" /\ AccessNext
     /\ UNCHANGED <<part, answerVars, feedbackVars, quotaVars, sessionVars>>
  \/ /\ part = "answer" /\ AnswerNext
     /\ UNCHANGED <<part, accessVars, feedbackVars, quotaVars, sessionVars>>
  \/ /\ part = "feedback" /\ FeedbackNext
     /\ UNCHANGED <<part, accessVars, answerVars, quotaVars, sessionVars>>
  \/ /\ part = "quota" /\ QuotaNext
     /\ UNCHANGED <<part, accessVars, answerVars, feedbackVars, sessionVars>>
  \/ /\ part = "sessions" /\ SessionsNext
     /\ UNCHANGED <<part, accessVars, answerVars, feedbackVars, quotaVars>>

AnsweringSpec == AnsweringInit /\ [][AnsweringNext]_answeringVars

(* The types of the five parts' states. *)
AnsweringTypeOK == /\ AccessTypeOK
                   /\ AnswerTypeOK
                   /\ FeedbackTypeOK
                   /\ QuotaTypeOK
                   /\ SessionsTypeOK

MCRoleSet == {{"viewer"}, {"auditor", "knowledge_editor"}}
MCDepartmentKey == {"hr", "HR"}
MCLowerCase == [k \in MCDepartmentKey |-> "hr"]
MCSymmetry == Permutations(Browser) \cup Permutations(SigningKey)
=============================================================================
