--------------------------- MODULE EvaluationGate ---------------------------
(***************************************************************************)
(* The evaluation gate: src/backend/evaluation.py measures the golden set  *)
(* and decides, src/backend/database.py keeps cases, runs and results, and *)
(* the publication endpoint of src/admin_app.py obeys the decision.        *)
(*                                                                         *)
(* A measurement is several transactions (list the cases, find the         *)
(* baseline, insert the run, complete it) and a publication is one more:   *)
(* other measurements, publications and edits of the golden set come in    *)
(* between.  The same module serves the endpoint that measures before it   *)
(* publishes, the endpoint that only measures, and the worker's evaluate   *)
(* job.                                                                    *)
(*                                                                         *)
(* Ratios are ten-thousandths, as _ratio rounds them; a tie, which takes   *)
(* at least 32 cases, is rounded up.                                       *)
(***************************************************************************)
EXTENDS Integers, FiniteSets

CONSTANTS GoldenCase,         \* rows evaluation_cases may hold
          GatedVersion,       \* versions of one document, staged and reviewed
          EvaluationRequest,  \* calls of EvaluationService.run, each made once
          GateMode,           \* IT_EVAL_GATE_MODE
          MayOverrideGate,    \* evaluation_allow_override
          MinRecall,          \* IT_EVAL_MIN_RECALL
          MinCitation,        \* IT_EVAL_MIN_CITATION_ACCURACY
          MaxRegression,      \* IT_EVAL_MAX_REGRESSION
          MaxCaseEdits        \* bound: edits of the golden set

ASSUME GateAssumption == /\ GateMode \in {"off", "warn", "block"}
                         /\ MayOverrideGate \in BOOLEAN
                         /\ {MinRecall, MinCitation, MaxRegression} \subseteq 0..10000
                         /\ MaxCaseEdits \in Nat
                         /\ IsFiniteSet(GoldenCase)
                         /\ IsFiniteSet(EvaluationRequest)

VARIABLES goldenSet,    \* goldenSet[c]: what the row of c asks for
          caseEdits,    \* edits so far
          gatedStatus,  \* status of each version
          gateTrail,    \* review rows: publications and overrides of the gate
          evalRuns,     \* evalRuns[i]: the row of the i-th run inserted
          evaluation    \* evaluation[q]: the locals of request q

gateVars == <<goldenSet, caseEdits, gatedStatus, gateTrail, evalRuns, evaluation>>

(* What a case expects: an answer (with a document key), a refusal, or     *)
(* neither, which no measurement survives.                                 *)
Expectation == {"answer", "refusal", "invalid"}
CaseRow == {"absent", "inactive"} \cup Expectation

NoRatio == -1        \* NULL in a ratio
AnyVersion == "any"  \* NULL in document_version_id

Ratio_Doubled(n, d) == IF d = 0 THEN NoRatio ELSE (20000 * n + d) \div d

Ratio(n, d) == IF d = 0 THEN NoRatio ELSE (20000 * n + d) \div (2 * d)
MaybeRatio == {NoRatio} \cup 0..10000

(* The trigger of a run is a label that callers choose; nothing reads it.  *)
EvalRun == [version : GatedVersion \cup {AnyVersion},
            status : {"running", "succeeded", "failed"},
            recall : MaybeRatio,
            citation : MaybeRatio,
            gate : {"none", "pass", "warn", "block"},
            baseline : Nat,
            measured : SUBSET GoldenCase]

NewRun(v) ==
  [version |-> v, status |-> "running", recall |-> NoRatio, citation |-> NoRatio,
   gate |-> "none", baseline |-> 0, measured |-> {}]

RunIds == DOMAIN evalRuns

NoEvaluation ==
  [step |-> "idle", purpose |-> "measure", version |-> AnyVersion,
   override |-> FALSE, cases |-> [c \in GoldenCase |-> "absent"],
   baseline |-> 0, run |-> 0]

EvaluationStep == {"idle", "list", "baseline", "insert", "measure", "decided",
                   "published", "denied", "finished", "lost"}

GateTypeOK ==
  /\ goldenSet \in [GoldenCase -> CaseRow]
  /\ caseEdits \in 0..MaxCaseEdits
  /\ gatedStatus \in [GatedVersion -> {"staged", "indexed", "superseded"}]
  /\ \A r \in gateTrail : /\ r.version \in GatedVersion
                          /\ r.action \in {"override_gate", "publish"}
                          /\ r.request \in EvaluationRequest
  /\ \A i \in RunIds : i \in Nat /\ evalRuns[i] \in EvalRun
  /\ \A q \in EvaluationRequest :
       /\ evaluation[q].step \in EvaluationStep
       /\ evaluation[q].baseline \in {0} \cup RunIds
       /\ evaluation[q].run \in {0} \cup RunIds

GateInit == /\ goldenSet \in [GoldenCase -> CaseRow]
            /\ caseEdits = 0
            /\ gatedStatus = [v \in GatedVersion |-> "staged"]
            /\ gateTrail = {}
            /\ evalRuns = [i \in {} |-> NewRun(AnyVersion)]
            /\ evaluation = [q \in EvaluationRequest |-> NoEvaluation]

-----------------------------------------------------------------------------
(* The golden set.  An operator X_Y before an operator X is X with a       *)
(* plausible mistake in it; no action uses it.                             *)

(* upsert_evaluation_case.                                                 *)
SaveCase(c) == \E row \in CaseRow \ {"absent"} :
                 goldenSet' = [goldenSet EXCEPT ![c] = row]

Measured(c) == \E i \in RunIds : c \in evalRuns[i].measured

DeleteCase_Unchecked(c) ==
  /\ goldenSet[c] # "absent"
  /\ goldenSet' = [goldenSet EXCEPT ![c] = "absent"]

(* delete_evaluation_case keeps the cases that were measured.              *)
DeleteCase(c) ==
  /\ goldenSet[c] # "absent"
  /\ ~Measured(c)
  /\ goldenSet' = [goldenSet EXCEPT ![c] = "absent"]

EditGoldenSet ==
  /\ caseEdits < MaxCaseEdits
  /\ caseEdits' = caseEdits + 1
  /\ \E c \in GoldenCase : SaveCase(c) \/ DeleteCase(c)
  /\ UNCHANGED <<gatedStatus, gateTrail, evalRuns, evaluation>>

-----------------------------------------------------------------------------
(* EvaluationService.run.                                                  *)

Proceed(q, local) == evaluation' = [evaluation EXCEPT ![q] = local]
At(q, name) == evaluation[q].step = name

(* The publication endpoint of a deployment whose gate is off measures     *)
(* nothing; otherwise it decides first whether its caller may override.    *)
AskToPublish(q) ==
  /\ At(q, "idle")
  /\ \E v \in GatedVersion, override \in BOOLEAN :
       /\ override => MayOverrideGate
       /\ Proceed(q, [evaluation[q] EXCEPT
                        !.purpose = "publish", !.version = v, !.override = override,
                        !.step = IF GateMode = "off" THEN "decided" ELSE "list"])
  /\ UNCHANGED <<goldenSet, caseEdits, gatedStatus, gateTrail, evalRuns>>

MeasureOnly(q, v) ==
  /\ At(q, "idle")
  /\ Proceed(q, [evaluation[q] EXCEPT !.version = v, !.step = "list"])
  /\ UNCHANGED <<goldenSet, caseEdits, gatedStatus, gateTrail, evalRuns>>

AskToMeasure(q) == \E v \in GatedVersion \cup {AnyVersion} : MeasureOnly(q, v)

(* An attempt of the worker's evaluate job, which is of a version; what it *)
(* does to its job row is the queue's matter.                              *)
ExecuteEvaluate(q) == \E v \in GatedVersion : MeasureOnly(q, v)

(* list_evaluation_cases reads the cases as they are now.                  *)
ListCases(q) ==
  /\ At(q, "list")
  /\ Proceed(q, [evaluation[q] EXCEPT !.cases = goldenSet, !.step = "baseline"])
  /\ UNCHANGED <<goldenSet, caseEdits, gatedStatus, gateTrail, evalRuns>>

(* latest_evaluation_run: the latest row, among those that succeeded; any  *)
(* version's when none is named.                                           *)
Comparable(v) == {i \in RunIds : /\ evalRuns[i].status = "succeeded"
                                 /\ v = AnyVersion \/ evalRuns[i].version = v}

IsLatest(i, S) == IF S = {} THEN i = 0 ELSE i \in S /\ \A k \in S : k <= i

FindBaseline(q) ==
  /\ At(q, "baseline")
  /\ \E i \in RunIds \cup {0} :
       /\ IsLatest(i, Comparable(evaluation[q].version))
       /\ Proceed(q, [evaluation[q] EXCEPT !.baseline = i, !.step = "insert"])
  /\ UNCHANGED <<goldenSet, caseEdits, gatedStatus, gateTrail, evalRuns>>

SetRun(i, row) ==
  evalRuns' = [k \in RunIds \cup {i} |-> IF k = i THEN row ELSE evalRuns[k]]

InsertRun(q) == LET new == Cardinality(RunIds) + 1 IN
  /\ At(q, "insert")
  /\ SetRun(new, NewRun(evaluation[q].version))
  /\ Proceed(q, [evaluation[q] EXCEPT !.run = new, !.step = "measure"])
  /\ UNCHANGED <<goldenSet, caseEdits, gatedStatus, gateTrail>>

ListedAs(q, kinds) == {c \in GoldenCase : evaluation[q].cases[c] \in kinds}

(* _decide.  unfaithful: faithfulness is measured, and below its minimum.  *)
Below(ratio, least) == ratio # NoRatio /\ ratio < least

RegressedFrom(b, recall, citation) ==
  /\ b # 0
  /\ \/ evalRuns[b].recall # NoRatio /\ Below(recall, evalRuns[b].recall - MaxRegression)
     \/ /\ evalRuns[b].citation # NoRatio
        /\ Below(citation, evalRuns[b].citation - MaxRegression)

Decide_IgnoresRegression(total, recall, citation, unfaithful, b) ==
  IF GateMode = "off" THEN "none"
  ELSE IF total = 0 THEN "warn"
  ELSE IF Below(recall, MinRecall) \/ Below(citation, MinCitation) \/ unfaithful
       THEN GateMode
  ELSE "pass"

Decide(total, recall, citation, unfaithful, b) ==
  IF GateMode = "off" THEN "none"
  ELSE IF total = 0 THEN "warn"
  ELSE IF \/ Below(recall, MinRecall)
          \/ Below(citation, MinCitation)
          \/ unfaithful
          \/ RegressedFrom(b, recall, citation)
       THEN GateMode
  ELSE "pass"

(* The cases are searched for one after the other, and the run completed   *)
(* with their results.  A case counts as cited when the document it        *)
(* expects is retrieved with the expected heading.  Refusals count for     *)
(* passed_cases and refusal_accuracy, which no decision reads.  The        *)
(* foreign key of a result refuses a case that is gone.                    *)
CompleteRun(q) ==
  LET local == evaluation[q]
      asked == ListedAs(q, Expectation)
      expected == ListedAs(q, {"answer"})
  IN
  /\ At(q, "measure")
  /\ ListedAs(q, {"invalid"}) = {}
  /\ \A c \in asked : goldenSet[c] # "absent"
  /\ \E retrieved \in SUBSET expected : \E cited \in SUBSET retrieved :
       \E unfaithful \in {FALSE, expected # {}} :
         LET recall == Ratio(Cardinality(retrieved), Cardinality(expected))
             citation == Ratio(Cardinality(cited), Cardinality(expected))
         IN
         SetRun(local.run,
                [evalRuns[local.run] EXCEPT
                   !.status = "succeeded", !.recall = recall, !.citation = citation,
                   !.gate = Decide(Cardinality(asked), recall, citation, unfaithful,
                                   local.baseline),
                   !.baseline = local.baseline, !.measured = asked])
  /\ Proceed(q, [local EXCEPT !.step = IF local.purpose = "publish" THEN "decided"
                                                                   ELSE "finished"])
  /\ UNCHANGED <<goldenSet, caseEdits, gatedStatus, gateTrail>>

(* An EvaluationError fails the run; a publication ends with it.           *)
FailRun(q) ==
  /\ At(q, "measure")
  /\ ListedAs(q, {"invalid"}) # {}
  /\ SetRun(evaluation[q].run, [evalRuns[evaluation[q].run] EXCEPT !.status = "failed"])
  /\ Proceed(q, [evaluation[q] EXCEPT !.step = "denied"])
  /\ UNCHANGED <<goldenSet, caseEdits, gatedStatus, gateTrail>>

(* Any other error (a deleted case among the results, a failure of the     *)
(* search) and the death of the process leave the run as it is.            *)
LoseRun(q) ==
  /\ evaluation[q].step \in {"list", "baseline", "insert", "measure"}
  /\ Proceed(q, [evaluation[q] EXCEPT !.step = "lost"])
  /\ UNCHANGED <<goldenSet, caseEdits, gatedStatus, gateTrail, evalRuns>>

-----------------------------------------------------------------------------
(* The publication that follows.                                           *)

Blocked_LatestRun(q) ==
  \E i \in RunIds : /\ IsLatest(i, Comparable(evaluation[q].version))
                    /\ evalRuns[i].gate = "block"

(* The run the request itself has made decides.                            *)
Blocked(q) == evaluation[q].run # 0 /\ evalRuns[evaluation[q].run].gate = "block"

Deny(q) ==
  /\ At(q, "decided")
  /\ \/ Blocked(q) /\ ~evaluation[q].override
     \/ gatedStatus[evaluation[q].version] # "staged"
  /\ Proceed(q, [evaluation[q] EXCEPT !.step = "denied"])
  /\ UNCHANGED <<goldenSet, caseEdits, gatedStatus, gateTrail, evalRuns>>

GateRow(q, action) ==
  [version |-> evaluation[q].version, action |-> action, request |-> q]

(* publish_document_version, of a version that is approved.                *)
PublishGated(q) == LET v == evaluation[q].version IN
  /\ At(q, "decided")
  /\ ~Blocked(q) \/ evaluation[q].override
  /\ gatedStatus[v] = "staged"
  /\ gatedStatus' = [w \in GatedVersion |->
                       IF w = v THEN "indexed"
                       ELSE IF gatedStatus[w] = "indexed" THEN "superseded"
                       ELSE gatedStatus[w]]
  /\ gateTrail' = gateTrail \cup {GateRow(q, "publish")} \cup
                  (IF Blocked(q) THEN {GateRow(q, "override_gate")} ELSE {})
  /\ Proceed(q, [evaluation[q] EXCEPT !.step = "published"])
  /\ UNCHANGED <<goldenSet, caseEdits, evalRuns>>

-----------------------------------------------------------------------------
EvaluationCall(q) == \/ AskToPublish(q)
                     \/ AskToMeasure(q)
                     \/ ExecuteEvaluate(q)
                     \/ ListCases(q)
                     \/ FindBaseline(q)
                     \/ InsertRun(q)
                     \/ CompleteRun(q)
                     \/ FailRun(q)
                     \/ LoseRun(q)
                     \/ Deny(q)
                     \/ PublishGated(q)

GateNext == EditGoldenSet \/ \E q \in EvaluationRequest : EvaluationCall(q)

GateSpec == GateInit /\ [][GateNext]_gateVars

-----------------------------------------------------------------------------
(* Properties.                                                             *)

Succeeded == {i \in RunIds : evalRuns[i].status = "succeeded"}

(* However many measurements and publications of a version overlap, every  *)
(* publication that the trail records follows a completed measurement of   *)
(* its own and of that version, whose block it obeyed or bypassed on the   *)
(* record; and the trail records no bypass where nothing was blocked       *)
(* (publish_version and publish_document_version).                         *)
PublishedThroughTheGate ==
  \A r \in gateTrail : LET i == evaluation[r.request].run IN
    /\ GateMode # "off" =>
         /\ i \in Succeeded
         /\ evalRuns[i].version = r.version
    /\ r.action = "publish" /\ i # 0 /\ evalRuns[i].gate = "block" =>
         GateRow(r.request, "override_gate") \in gateTrail
    /\ r.action = "override_gate" =>
         i # 0 /\ evalRuns[i].gate = "block" /\ MayOverrideGate

(* A run that passes is measured against an earlier, finished measurement  *)
(* of the same version, with the minima met and no regression beyond the   *)
(* allowed one, though runs are inserted and completed in any order and    *)
(* the baseline was read before the run was inserted (run and _decide).    *)
PassedAgainstItsBaseline ==
  \A i \in Succeeded : LET r == evalRuns[i] IN
    /\ r.citation <= r.recall
    /\ r.baseline # 0 => /\ r.baseline < i
                         /\ r.baseline \in Succeeded
                         /\ r.version # AnyVersion => evalRuns[r.baseline].version = r.version
    /\ r.gate = "pass" => /\ ~Below(r.recall, MinRecall)
                          /\ ~Below(r.citation, MinCitation)
                          /\ ~RegressedFrom(r.baseline, r.recall, r.citation)

(* delete_evaluation_case: history is evidence.  No order of measuring and *)
(* deleting leaves the results of a run without their case.                *)
MeasuredCasesAreKept == \A c \in GoldenCase : Measured(c) => goldenSet[c] # "absent"
=============================================================================
