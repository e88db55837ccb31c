------------------------ MODULE EvaluationGate_proofs ------------------------
(***************************************************************************)
(* Theorems of EvaluationGate, for any golden set, versions, requests and  *)
(* settings of the gate.                                                   *)
(***************************************************************************)
EXTENDS EvaluationGate, FiniteSetTheorems, TLAPS

-----------------------------------------------------------------------------
(* The inductive invariant.                                                *)

Request == [step : EvaluationStep, purpose : {"measure", "publish"},
            version : GatedVersion \cup {AnyVersion}, override : BOOLEAN,
            cases : [GoldenCase -> CaseRow], baseline : Nat, run : Nat]

Run == [version : GatedVersion \cup {AnyVersion},
        status : {"running", "succeeded", "failed"}, recall : Int, citation : Int,
        gate : {"none", "pass", "warn", "block"}, baseline : Nat,
        measured : SUBSET GoldenCase]

Shapes ==
  /\ goldenSet \in [GoldenCase -> CaseRow]
  /\ evaluation \in [EvaluationRequest -> Request]
  /\ \A i \in RunIds : evalRuns[i] \in Run

(* The sequence of evaluation_runs.                                        *)
Numbered == \E n \in Nat : RunIds = 1..n

(* How far a request has come says what its run is.                        *)
OwnRun(q) == LET e == evaluation[q] IN
  /\ e.run \in {0} \cup RunIds
  /\ e.step \in {"idle", "list", "baseline", "insert"} => e.run = 0
  /\ e.step = "measure" => e.run \in RunIds /\ evalRuns[e.run].version = e.version
  /\ e.step \in {"decided", "published"} =>
       \/ e.run = 0 /\ GateMode = "off"
       \/ /\ e.run \in RunIds
          /\ evalRuns[e.run].status = "succeeded"
          /\ evalRuns[e.run].version = e.version
  /\ e.override = TRUE => MayOverrideGate = TRUE

(* No two requests write one run.                                          *)
Separate ==
  \A p, q \in EvaluationRequest :
    evaluation[p].run = evaluation[q].run /\ evaluation[q].run # 0 => p = q

Recorded(r) ==
  /\ r.request \in EvaluationRequest
  /\ evaluation[r.request].step = "published"
  /\ r.version = evaluation[r.request].version
  /\ r.action = "publish" /\ Blocked(r.request) =>
       GateRow(r.request, "override_gate") \in gateTrail
  /\ r.action = "override_gate" => Blocked(r.request) /\ MayOverrideGate = TRUE

GInv == /\ Shapes
        /\ Numbered
        /\ MeasuredCasesAreKept
        /\ Separate
        /\ \A q \in EvaluationRequest : OwnRun(q)
        /\ \A r \in gateTrail : Recorded(r)

-----------------------------------------------------------------------------
(* Runs and requests.                                                      *)

LEMMA NextRun ==
  ASSUME Numbered
  PROVE  LET new == Cardinality(RunIds) + 1 IN
         /\ new \in Nat /\ new # 0 /\ new \notin RunIds /\ 0 \notin RunIds
         /\ \E n \in Nat : RunIds \cup {new} = 1..n
<1>1. PICK n \in Nat : RunIds = 1..n
  BY DEF Numbered
<1>2. Cardinality(RunIds) = n
  BY <1>1, FS_Interval
<1>3. 1..n \cup {n + 1} = 1..(n + 1)
  BY <1>1
<1> QED BY <1>1, <1>2, <1>3

LEMMA RunWritten ==
  ASSUME NEW i, NEW row, SetRun(i, row)
  PROVE  /\ RunIds' = RunIds \cup {i}
         /\ evalRuns'[i] = row
         /\ \A k \in RunIds \ {i} : evalRuns'[k] = evalRuns[k]
BY DEF SetRun, RunIds

LEMMA RequestMoved ==
  ASSUME Shapes, NEW q \in EvaluationRequest, NEW local \in Request, Proceed(q, local)
  PROVE  /\ evaluation' \in [EvaluationRequest -> Request]
         /\ evaluation'[q] = local
         /\ \A p \in EvaluationRequest \ {q} : evaluation'[p] = evaluation[p]
BY DEF Shapes, Proceed

LEMMA RequestStepped ==
  ASSUME NEW old \in Request, NEW step \in EvaluationStep
  PROVE  LET new == [old EXCEPT !.step = step] IN
         /\ new \in Request /\ new.step = step /\ new.run = old.run
         /\ new.version = old.version /\ new.override = old.override
BY DEF Request, EvaluationStep

LEMMA RunStatus ==
  ASSUME NEW old \in Run, NEW status \in {"running", "succeeded", "failed"}
  PROVE  LET new == [old EXCEPT !.status = status] IN
         /\ new \in Run /\ new.status = status /\ new.version = old.version
         /\ new.measured = old.measured
BY DEF Run

CompletedRow(old, recall, citation, gate, baseline, measured) ==
  [old EXCEPT !.status = "succeeded", !.recall = recall, !.citation = citation,
              !.gate = gate, !.baseline = baseline, !.measured = measured]

LEMMA RunCompleted ==
  ASSUME NEW old \in Run, NEW recall \in Int, NEW citation \in Int,
         NEW gate \in {"none", "pass", "warn", "block"}, NEW baseline \in Nat,
         NEW measured \in SUBSET GoldenCase
  PROVE  LET new == CompletedRow(old, recall, citation, gate, baseline, measured) IN
         /\ new \in Run /\ new.status = "succeeded" /\ new.version = old.version
         /\ new.measured = measured
<1> DEFINE first == [old EXCEPT !.status = "succeeded", !.recall = recall]
           second == [first EXCEPT !.citation = citation, !.gate = gate]
           new == [second EXCEPT !.baseline = baseline, !.measured = measured]
<1>1. first \in Run /\ first.status = "succeeded" /\ first.version = old.version
  BY DEF Run
<1> HIDE DEF first
<1>2. second \in Run /\ second.status = "succeeded" /\ second.version = old.version
  BY <1>1 DEF Run
<1> HIDE DEF second
<1>3. /\ new \in Run /\ new.status = "succeeded" /\ new.version = old.version
      /\ new.measured = measured
  BY <1>2 DEF Run
<1> QED BY <1>3 DEF CompletedRow, second, first

(* What a request leaves alone when it goes on with these locals.          *)
OthersKept(q, local) ==
  /\ RunIds \subseteq RunIds'
  /\ \A i \in RunIds' : evalRuns'[i] \in Run
  /\ Numbered' /\ MeasuredCasesAreKept'
  /\ \A p \in EvaluationRequest \ {q} :
       /\ evaluation[p].run # 0 => local.run # evaluation[p].run
       /\ evaluation[p].run \in RunIds =>
            evalRuns'[evaluation[p].run] = evalRuns[evaluation[p].run]

(* A request that moves before it is published writes its own run or none; *)
(* it is enough to look at that request, and at the cases of that run.     *)
LEMMA MoveStep ==
  ASSUME GInv, NEW q \in EvaluationRequest, NEW local \in Request, Proceed(q, local),
         evaluation[q].step # "published",
         UNCHANGED <<goldenSet, gateTrail>>,
         \/ UNCHANGED evalRuns /\ local.run = evaluation[q].run
         \/ \E i \in Nat : \E row \in Run :
              /\ SetRun(i, row) /\ local.run = i /\ i # 0
              /\ \/ i = evaluation[q].run /\ i \in RunIds
                 \/ i = Cardinality(RunIds) + 1
              /\ \A c \in GoldenCase : c \in row.measured => goldenSet[c] # "absent",
         OwnRun(q)'
  PROVE  GInv'
<1>1. /\ evaluation'[q] = local
      /\ \A p \in EvaluationRequest \ {q} : evaluation'[p] = evaluation[p]
      /\ evaluation' \in [EvaluationRequest -> Request]
  BY RequestMoved DEF GInv
<1>2. 0 \notin RunIds
  BY NextRun DEF GInv
<1>3. OthersKept(q, local)
  <2>1. CASE UNCHANGED evalRuns /\ local.run = evaluation[q].run
    BY <2>1 DEF GInv, Shapes, Numbered, MeasuredCasesAreKept, Measured, RunIds, Separate,
                OthersKept
  <2>2. ASSUME NEW i \in Nat, NEW row, SetRun(i, row), row \in Run, local.run = i, i # 0,
               \/ i = evaluation[q].run /\ i \in RunIds
               \/ i = Cardinality(RunIds) + 1,
               \A c \in GoldenCase : c \in row.measured => goldenSet[c] # "absent"
        PROVE  OthersKept(q, local)
    <3>1. /\ RunIds' = RunIds \cup {i} /\ evalRuns'[i] = row
          /\ \A k \in RunIds \ {i} : evalRuns'[k] = evalRuns[k]
      BY <2>2, RunWritten
    <3>2. \A k \in RunIds' : evalRuns'[k] \in Run
      BY <2>2, <3>1 DEF GInv, Shapes
    <3>3. Numbered'
      <4>1. CASE i \in RunIds
        BY <3>1, <4>1 DEF GInv, Numbered
      <4>2. CASE i = Cardinality(RunIds) + 1
        BY <3>1, <4>2, NextRun DEF GInv, Numbered
      <4> QED BY <2>2, <4>1, <4>2
    <3>4. MeasuredCasesAreKept'
      BY <2>2, <3>1 DEF GInv, MeasuredCasesAreKept, Measured
    <3>5. ASSUME NEW p \in EvaluationRequest \ {q}
          PROVE  /\ evaluation[p].run # 0 => i # evaluation[p].run
                 /\ evaluation[p].run \in RunIds => i # evaluation[p].run
      <4>1. evaluation[p].run \in {0} \cup RunIds
        BY DEF GInv, OwnRun
      <4>2. CASE i = evaluation[q].run
        BY <1>2, <2>2, <4>1, <4>2 DEF GInv, Separate
      <4>3. CASE i = Cardinality(RunIds) + 1
        BY <1>2, <2>2, <4>1, <4>3, NextRun DEF GInv
      <4> QED BY <2>2, <4>2, <4>3
    <3> QED BY <2>2, <3>1, <3>2, <3>3, <3>4, <3>5 DEF OthersKept
  <2> QED BY <2>1, <2>2
<1>4. Shapes'
  <2>1. \A p \in EvaluationRequest : evaluation'[p] \in Request
    BY <1>1 DEF GInv, Shapes
  <2> QED BY <1>1, <1>3, <2>1 DEF GInv, Shapes, OthersKept
<1>5. Separate'
  BY <1>1, <1>3 DEF GInv, Separate, OthersKept
<1>6. ASSUME NEW p \in EvaluationRequest PROVE OwnRun(p)'
  <2>1. CASE p = q
    BY <2>1
  <2>2. CASE p # q
    BY <1>1, <1>3, <2>2 DEF GInv, OwnRun, OthersKept
  <2> QED BY <2>1, <2>2
<1>7. ASSUME NEW r \in gateTrail PROVE Recorded(r)'
  <2> DEFINE p == r.request
  <2>1. Recorded(r) /\ p \in EvaluationRequest /\ p # q /\ OwnRun(p)
    BY DEF GInv, Recorded
  <2>2. evaluation'[p] = evaluation[p]
    BY <1>1, <2>1
  <2>3. Blocked(p)' <=> Blocked(p)
    BY <1>2, <1>3, <2>1, <2>2 DEF Blocked, OwnRun, OthersKept
  <2> QED BY <2>1, <2>2, <2>3 DEF Recorded, GateRow
<1> QED BY <1>3, <1>4, <1>5, <1>6, <1>7 DEF GInv, OthersKept

(* The moves that write no run.                                            *)
LEMMA QuietMove ==
  ASSUME GInv, NEW q \in EvaluationRequest, NEW local \in Request, Proceed(q, local),
         evaluation[q].step # "published",
         UNCHANGED <<goldenSet, gateTrail, evalRuns>>,
         local.run = evaluation[q].run,
         local.override = TRUE => MayOverrideGate = TRUE,
         \/ local.step \in {"denied", "finished", "lost"}
         \/ local.run = 0 /\ local.step \in {"list", "baseline", "insert"}
         \/ local.run = 0 /\ local.step = "decided" /\ GateMode = "off"
  PROVE  GInv'
<1>1. evaluation'[q] = local
  BY RequestMoved DEF GInv
<1>2. OwnRun(q)
  BY DEF GInv
<1>3. OwnRun(q)'
  BY <1>1, <1>2 DEF OwnRun, RunIds
<1> QED BY <1>3, MoveStep

LEMMA QuietTurn ==
  ASSUME GInv, NEW q \in EvaluationRequest, NEW step \in {"denied", "finished", "lost"},
         Proceed(q, [evaluation[q] EXCEPT !.step = step]),
         evaluation[q].step # "published",
         UNCHANGED <<goldenSet, gateTrail, evalRuns>>
  PROVE  GInv'
<1> DEFINE new == [evaluation[q] EXCEPT !.step = step]
<1>1. evaluation[q] \in Request /\ OwnRun(q)
  BY DEF GInv, Shapes
<1>2. /\ new \in Request /\ new.step = step /\ new.run = evaluation[q].run
      /\ new.override = evaluation[q].override
  <2>1. step \in EvaluationStep
    BY DEF EvaluationStep
  <2> QED BY <1>1, <2>1, RequestStepped
<1>3. Proceed(q, new)
  OBVIOUS
<1> HIDE DEF new
<1>4. new.override = TRUE => MayOverrideGate = TRUE
  BY <1>1, <1>2 DEF OwnRun
<1> QED BY <1>2, <1>3, <1>4, QuietMove

-----------------------------------------------------------------------------
(* Every action keeps the invariant.                                       *)

LEMMA GateFlags == MayOverrideGate \in BOOLEAN
BY GateAssumption

LEMMA AskToPublishKeeps ==
  ASSUME GInv, NEW q \in EvaluationRequest, AskToPublish(q)
  PROVE  GInv'
<1>1. PICK v \in GatedVersion, override \in BOOLEAN :
        /\ override => MayOverrideGate
        /\ Proceed(q, [evaluation[q] EXCEPT
                         !.purpose = "publish", !.version = v, !.override = override,
                         !.step = IF GateMode = "off" THEN "decided" ELSE "list"])
  BY DEF AskToPublish
<1>2. PICK step \in {"decided", "list"} :
        /\ step = IF GateMode = "off" THEN "decided" ELSE "list"
        /\ step = "decided" => GateMode = "off"
  OBVIOUS
<1> DEFINE new == [evaluation[q] EXCEPT !.purpose = "publish", !.version = v,
                                        !.override = override, !.step = step]
<1>3. evaluation[q] \in Request /\ evaluation[q].step = "idle" /\ evaluation[q].run = 0
  BY DEF GInv, Shapes, OwnRun, AskToPublish, At
<1>4. /\ new \in Request /\ new.step = step /\ new.run = evaluation[q].run
      /\ new.override = override
  BY <1>3 DEF Request, EvaluationStep
<1>5. Proceed(q, new)
  BY <1>1, <1>2
<1>6. override = TRUE => MayOverrideGate = TRUE
  BY <1>1, GateFlags
<1>7. UNCHANGED <<goldenSet, gateTrail, evalRuns>>
  BY DEF AskToPublish
<1> HIDE DEF new
<1> QED BY <1>2, <1>3, <1>4, <1>5, <1>6, <1>7, QuietMove

LEMMA MeasureOnlyKeeps ==
  ASSUME GInv, NEW q \in EvaluationRequest, NEW v \in GatedVersion \cup {AnyVersion},
         MeasureOnly(q, v)
  PROVE  GInv'
<1> DEFINE new == [evaluation[q] EXCEPT !.version = v, !.step = "list"]
<1>1. /\ evaluation[q] \in Request /\ evaluation[q].step = "idle" /\ evaluation[q].run = 0
      /\ OwnRun(q)
  BY DEF GInv, Shapes, OwnRun, MeasureOnly, At
<1>2. /\ new \in Request /\ new.step = "list" /\ new.run = evaluation[q].run
      /\ new.override = evaluation[q].override
  BY <1>1 DEF Request, EvaluationStep
<1>3. Proceed(q, new) /\ UNCHANGED <<goldenSet, gateTrail, evalRuns>>
  BY DEF MeasureOnly
<1> HIDE DEF new
<1>4. new.override = TRUE => MayOverrideGate = TRUE
  BY <1>1, <1>2 DEF OwnRun
<1> QED BY <1>1, <1>2, <1>3, <1>4, QuietMove

LEMMA ListCasesKeeps ==
  ASSUME GInv, NEW q \in EvaluationRequest, ListCases(q)
  PROVE  GInv'
<1> DEFINE new == [evaluation[q] EXCEPT !.cases = goldenSet, !.step = "baseline"]
<1>1. /\ evaluation[q] \in Request /\ evaluation[q].step = "list" /\ evaluation[q].run = 0
      /\ OwnRun(q) /\ goldenSet \in [GoldenCase -> CaseRow]
  BY DEF GInv, Shapes, OwnRun, ListCases, At
<1>2. /\ new \in Request /\ new.step = "baseline" /\ new.run = evaluation[q].run
      /\ new.override = evaluation[q].override
  BY <1>1 DEF Request, EvaluationStep
<1>3. Proceed(q, new) /\ UNCHANGED <<goldenSet, gateTrail, evalRuns>>
  BY DEF ListCases
<1> HIDE DEF new
<1>4. new.override = TRUE => MayOverrideGate = TRUE
  BY <1>1, <1>2 DEF OwnRun
<1> QED BY <1>1, <1>2, <1>3, <1>4, QuietMove

LEMMA FindBaselineKeeps ==
  ASSUME GInv, NEW q \in EvaluationRequest, FindBaseline(q)
  PROVE  GInv'
<1>1. PICK i \in Nat :
        Proceed(q, [evaluation[q] EXCEPT !.baseline = i, !.step = "insert"])
  <2>1. RunIds \cup {0} \subseteq Nat
    BY DEF GInv, Numbered
  <2> QED BY <2>1 DEF FindBaseline
<1> DEFINE new == [evaluation[q] EXCEPT !.baseline = i, !.step = "insert"]
<1>2. /\ evaluation[q] \in Request /\ evaluation[q].step = "baseline"
      /\ evaluation[q].run = 0 /\ OwnRun(q)
  BY DEF GInv, Shapes, OwnRun, FindBaseline, At
<1>3. /\ new \in Request /\ new.step = "insert" /\ new.run = evaluation[q].run
      /\ new.override = evaluation[q].override
  BY <1>2 DEF Request, EvaluationStep
<1>4. Proceed(q, new) /\ UNCHANGED <<goldenSet, gateTrail, evalRuns>>
  BY <1>1 DEF FindBaseline
<1> HIDE DEF new
<1>5. new.override = TRUE => MayOverrideGate = TRUE
  BY <1>2, <1>3 DEF OwnRun
<1> QED BY <1>2, <1>3, <1>4, <1>5, QuietMove

LEMMA InsertRunKeeps ==
  ASSUME GInv, NEW q \in EvaluationRequest, InsertRun(q)
  PROVE  GInv'
<1> DEFINE id == Cardinality(RunIds) + 1
           v == evaluation[q].version
           new == [evaluation[q] EXCEPT !.run = id, !.step = "measure"]
<1>1. /\ evaluation[q] \in Request /\ evaluation[q].step = "insert" /\ OwnRun(q)
  BY DEF GInv, Shapes, InsertRun, At
<1>2. id \in Nat /\ id # 0
  BY NextRun DEF GInv
<1>3. /\ new \in Request /\ new.step = "measure" /\ new.run = id /\ new.version = v
      /\ new.override = evaluation[q].override
  <2> HIDE DEF id
  <2> QED BY <1>1, <1>2 DEF Request, EvaluationStep
<1>4. NewRun(v) \in Run /\ NewRun(v).version = v /\ NewRun(v).measured = {}
  <2>1. v \in GatedVersion \cup {AnyVersion}
    BY <1>1 DEF Request
  <2> HIDE DEF v
  <2> QED BY <2>1 DEF Run, NewRun, NoRatio
<1>5. /\ Proceed(q, new) /\ SetRun(id, NewRun(v)) /\ UNCHANGED <<goldenSet, gateTrail>>
  BY DEF InsertRun
<1> HIDE DEF new, id, v
<1>6. evaluation'[q] = new /\ id \in RunIds' /\ evalRuns'[id] = NewRun(v)
  BY <1>3, <1>5, RequestMoved, RunWritten DEF GInv
<1>7. OwnRun(q)'
  BY <1>1, <1>3, <1>4, <1>6 DEF OwnRun
<1>8. \A c \in GoldenCase : c \in NewRun(v).measured => goldenSet[c] # "absent"
  BY <1>4
<1>9. id = Cardinality(RunIds) + 1
  BY DEF id
<1> QED BY <1>1, <1>2, <1>3, <1>4, <1>5, <1>7, <1>8, <1>9, MoveStep

(* The two ends of a measurement.                                          *)
LEMMA OwnRunEnds ==
  ASSUME GInv, NEW q \in EvaluationRequest, evaluation[q].step = "measure",
         NEW step \in {"denied", "finished", "decided"},
         Proceed(q, [evaluation[q] EXCEPT !.step = step]),
         NEW row, SetRun(evaluation[q].run, row), row \in Run,
         row.version = evalRuns[evaluation[q].run].version,
         step = "decided" => row.status = "succeeded",
         \A c \in GoldenCase : c \in row.measured => goldenSet[c] # "absent",
         UNCHANGED <<goldenSet, gateTrail>>
  PROVE  GInv'
<1> DEFINE id == evaluation[q].run
           new == [evaluation[q] EXCEPT !.step = step]
<1>1. /\ evaluation[q] \in Request /\ OwnRun(q)
  BY DEF GInv, Shapes
<1>2. /\ new \in Request /\ new.step = step /\ new.run = id
      /\ new.version = evaluation[q].version /\ new.override = evaluation[q].override
  <2>1. step \in EvaluationStep
    BY DEF EvaluationStep
  <2> QED BY <1>1, <2>1, RequestStepped
<1>3. Proceed(q, new)
  OBVIOUS
<1> HIDE DEF new
<1>4. id \in RunIds /\ evalRuns[id].version = evaluation[q].version
  BY <1>1 DEF OwnRun
<1>5. id \in Nat /\ id # 0
  BY <1>4 DEF GInv, Numbered
<1>6. evaluation'[q] = new /\ id \in RunIds' /\ evalRuns'[id] = row
  BY <1>2, <1>3, RequestMoved, RunWritten DEF GInv
<1>7. OwnRun(q)'
  BY <1>1, <1>2, <1>4, <1>6 DEF OwnRun
<1> QED BY <1>2, <1>3, <1>4, <1>5, <1>7, MoveStep

LEMMA MeasuredRatio ==
  ASSUME NEW S \in SUBSET GoldenCase, NEW T \in SUBSET S
  PROVE  Ratio(Cardinality(T), Cardinality(S)) \in Int
<1>1. Cardinality(T) \in Nat /\ Cardinality(S) \in Nat
  BY GateAssumption, FS_Subset, FS_CardinalityType
<1>2. ASSUME NEW n \in Nat, NEW d \in Nat PROVE Ratio(n, d) \in Int
  <2>1. CASE d = 0
    BY <2>1 DEF Ratio, NoRatio
  <2>2. CASE d # 0
    <3>1. 2 * d \in Int /\ 2 * d > 0 /\ 20000 * n + d \in Int
      BY <2>2
    <3>2. ASSUME NEW a \in Int, NEW b \in Int, b > 0 PROVE a \div b \in Int
      BY <3>2
    <3> QED BY <2>2, <3>1, <3>2 DEF Ratio
  <2> QED BY <2>1, <2>2
<1> QED BY <1>1, <1>2

LEMMA DecideType ==
  ASSUME NEW total, NEW recall, NEW citation, NEW unfaithful, NEW b
  PROVE  Decide(total, recall, citation, unfaithful, b) \in {"none", "pass", "warn", "block"}
BY GateAssumption DEF Decide

LEMMA CompleteRunKeeps ==
  ASSUME GInv, NEW q \in EvaluationRequest, CompleteRun(q)
  PROVE  GInv'
<1> DEFINE id == evaluation[q].run
           asked == ListedAs(q, Expectation)
           expected == ListedAs(q, {"answer"})
<1>1. /\ asked \in SUBSET GoldenCase
      /\ \A c \in asked : goldenSet[c] # "absent"
      /\ evalRuns[id] \in Run /\ evaluation[q] \in Request
      /\ evaluation[q].step = "measure"
  BY DEF CompleteRun, At, ListedAs, GInv, Shapes, OwnRun
<1>2. PICK recall \in Int, citation \in Int, gate \in {"none", "pass", "warn", "block"},
           baseline \in Nat :
        SetRun(id, [evalRuns[id] EXCEPT
                      !.status = "succeeded", !.recall = recall, !.citation = citation,
                      !.gate = gate, !.baseline = baseline, !.measured = asked])
  <2> HIDE DEF asked, expected
  <2>1. PICK retrieved \in SUBSET expected : \E cited \in SUBSET retrieved :
          \E unfaithful \in {FALSE, expected # {}} :
            SetRun(id,
                   [evalRuns[id] EXCEPT
                      !.status = "succeeded",
                      !.recall = Ratio(Cardinality(retrieved), Cardinality(expected)),
                      !.citation = Ratio(Cardinality(cited), Cardinality(expected)),
                      !.gate = Decide(Cardinality(asked),
                                      Ratio(Cardinality(retrieved), Cardinality(expected)),
                                      Ratio(Cardinality(cited), Cardinality(expected)),
                                      unfaithful, evaluation[q].baseline),
                      !.baseline = evaluation[q].baseline, !.measured = asked])
    BY ZenonT(60) DEF CompleteRun, asked, expected
  <2>2. PICK cited \in SUBSET retrieved, unfaithful \in {FALSE, expected # {}} :
          SetRun(id,
                 [evalRuns[id] EXCEPT
                    !.status = "succeeded",
                    !.recall = Ratio(Cardinality(retrieved), Cardinality(expected)),
                    !.citation = Ratio(Cardinality(cited), Cardinality(expected)),
                    !.gate = Decide(Cardinality(asked),
                                    Ratio(Cardinality(retrieved), Cardinality(expected)),
                                    Ratio(Cardinality(cited), Cardinality(expected)),
                                    unfaithful, evaluation[q].baseline),
                    !.baseline = evaluation[q].baseline, !.measured = asked])
    BY <2>1
  <2>3. expected \subseteq GoldenCase
    BY DEF expected, ListedAs
  <2>4. /\ Ratio(Cardinality(retrieved), Cardinality(expected)) \in Int
        /\ Ratio(Cardinality(cited), Cardinality(expected)) \in Int
    BY <2>3, MeasuredRatio
  <2>5. Decide(Cardinality(asked),
               Ratio(Cardinality(retrieved), Cardinality(expected)),
               Ratio(Cardinality(cited), Cardinality(expected)),
               unfaithful, evaluation[q].baseline) \in {"none", "pass", "warn", "block"}
    BY DecideType
  <2>6. evaluation[q].baseline \in Nat
    BY <1>1 DEF Request
  <2> QED BY <2>2, <2>4, <2>5, <2>6, ZenonT(60)
<1> DEFINE row == CompletedRow(evalRuns[id], recall, citation, gate, baseline, asked)
<1> HIDE DEF asked
<1>3. /\ row \in Run /\ row.status = "succeeded" /\ row.version = evalRuns[id].version
      /\ row.measured = asked
  BY <1>1, RunCompleted
<1>4. SetRun(id, row)
  BY <1>2 DEF CompletedRow
<1> HIDE DEF row
<1>5. \A c \in GoldenCase : c \in row.measured => goldenSet[c] # "absent"
  BY <1>1, <1>3
<1>6. PICK step \in {"finished", "decided"} : Proceed(q, [evaluation[q] EXCEPT !.step = step])
  BY DEF CompleteRun
<1>7. UNCHANGED <<goldenSet, gateTrail>>
  BY DEF CompleteRun
<1> QED BY <1>1, <1>3, <1>4, <1>5, <1>6, <1>7, OwnRunEnds

LEMMA FailRunKeeps ==
  ASSUME GInv, NEW q \in EvaluationRequest, FailRun(q)
  PROVE  GInv'
<1> DEFINE id == evaluation[q].run
           row == [evalRuns[id] EXCEPT !.status = "failed"]
<1>1. /\ evalRuns[id] \in Run /\ evaluation[q].step = "measure" /\ id \in RunIds
  BY DEF FailRun, At, GInv, Shapes, OwnRun
<1>2. row \in Run /\ row.version = evalRuns[id].version /\ row.measured = evalRuns[id].measured
  BY <1>1, RunStatus
<1>3. SetRun(id, row) /\ UNCHANGED <<goldenSet, gateTrail>>
  BY DEF FailRun
<1> HIDE DEF row
<1>4. \A c \in GoldenCase : c \in row.measured => goldenSet[c] # "absent"
  BY <1>1, <1>2 DEF GInv, MeasuredCasesAreKept, Measured
<1>5. Proceed(q, [evaluation[q] EXCEPT !.step = "denied"])
  BY DEF FailRun
<1> QED BY <1>1, <1>2, <1>3, <1>4, <1>5, OwnRunEnds

LEMMA LeaveKeeps ==
  ASSUME GInv, NEW q \in EvaluationRequest, LoseRun(q) \/ Deny(q)
  PROVE  GInv'
<1>1. PICK step \in {"lost", "denied"} : Proceed(q, [evaluation[q] EXCEPT !.step = step])
  BY DEF LoseRun, Deny
<1>2. /\ evaluation[q].step # "published"
      /\ UNCHANGED <<goldenSet, gateTrail, evalRuns>>
  BY DEF LoseRun, Deny, At
<1> QED BY <1>1, <1>2, QuietTurn

LEMMA PublishGatedKeeps ==
  ASSUME GInv, NEW q \in EvaluationRequest, PublishGated(q)
  PROVE  GInv'
<1> DEFINE new == [evaluation[q] EXCEPT !.step = "published"]
           publish == GateRow(q, "publish")
           bypass == GateRow(q, "override_gate")
<1>1. /\ evaluation[q] \in Request /\ evaluation[q].step = "decided" /\ OwnRun(q)
      /\ Blocked(q) => evaluation[q].override = TRUE
  BY DEF PublishGated, At, GInv, Shapes, Request
<1>2. /\ new \in Request /\ new.step = "published" /\ new.run = evaluation[q].run
      /\ new.version = evaluation[q].version /\ new.override = evaluation[q].override
  <2>1. "published" \in EvaluationStep
    BY DEF EvaluationStep
  <2> QED BY <1>1, <2>1, RequestStepped
<1>3. Proceed(q, new) /\ UNCHANGED <<goldenSet, evalRuns>>
  BY DEF PublishGated
<1> HIDE DEF new
<1>4. /\ evaluation'[q] = new
      /\ \A p \in EvaluationRequest \ {q} : evaluation'[p] = evaluation[p]
      /\ evaluation' \in [EvaluationRequest -> Request]
  BY <1>2, <1>3, RequestMoved DEF GInv
<1>5. /\ publish.request = q /\ publish.version = evaluation[q].version
      /\ publish.action = "publish"
      /\ bypass.request = q /\ bypass.version = evaluation[q].version
      /\ bypass.action = "override_gate"
      /\ publish' = publish /\ bypass' = bypass
  BY <1>2, <1>4 DEF GateRow
<1>6. /\ gateTrail' \subseteq gateTrail \cup {publish, bypass}
      /\ gateTrail \subseteq gateTrail'
      /\ Blocked(q) => bypass \in gateTrail'
      /\ bypass \in gateTrail' => bypass \in gateTrail \/ Blocked(q)
  <2>1. gateTrail' = gateTrail \cup {publish} \cup (IF Blocked(q) THEN {bypass} ELSE {})
    BY DEF PublishGated
  <2>2. publish # bypass
    BY <1>5
  <2> HIDE DEF publish, bypass
  <2> QED BY <2>1, <2>2
<1>7. \A p \in EvaluationRequest : Blocked(p)' <=> Blocked(p)
  BY <1>2, <1>3, <1>4 DEF Blocked
<1>8. \A r \in gateTrail : r.request # q
  BY <1>1 DEF GInv, Recorded
<1>9. Blocked(q) => MayOverrideGate = TRUE
  BY <1>1 DEF OwnRun
<1>10. ASSUME NEW r \in gateTrail' PROVE Recorded(r)'
  <2>1. CASE r \in gateTrail
    <3> DEFINE p == r.request
    <3>1. Recorded(r) /\ p \in EvaluationRequest /\ p # q
      BY <1>8, <2>1 DEF GInv, Recorded
    <3>2. evaluation'[p] = evaluation[p] /\ (Blocked(p)' <=> Blocked(p))
      BY <1>4, <1>7, <3>1
    <3> QED BY <1>6, <3>1, <3>2 DEF Recorded, GateRow
  <2>2. CASE r = publish
    BY <1>2, <1>4, <1>5, <1>6, <1>7, <2>2 DEF Recorded
  <2>3. CASE r = bypass /\ r \notin gateTrail
    <3>1. Blocked(q)
      BY <1>6, <2>3
    <3> QED BY <1>2, <1>4, <1>5, <1>7, <1>9, <2>3, <3>1 DEF Recorded
  <2> QED BY <1>6, <2>1, <2>2, <2>3
<1>11. Shapes' /\ Numbered' /\ MeasuredCasesAreKept'
  <2>1. RunIds' = RunIds
    BY <1>3 DEF RunIds
  <2>2. Shapes'
    BY <1>3, <1>4, <2>1 DEF GInv, Shapes
  <2>3. Numbered'
    BY <2>1 DEF GInv, Numbered
  <2>4. MeasuredCasesAreKept'
    BY <1>3, <2>1 DEF GInv, MeasuredCasesAreKept, Measured
  <2> QED BY <2>2, <2>3, <2>4
<1>12. Separate'
  BY <1>2, <1>4 DEF GInv, Separate
<1>13. ASSUME NEW p \in EvaluationRequest PROVE OwnRun(p)'
  <2>1. OwnRun(p)
    BY DEF GInv
  <2>2. CASE p = q
    BY <1>1, <1>2, <1>3, <1>4, <2>2 DEF OwnRun, RunIds
  <2>3. CASE p # q
    BY <1>3, <1>4, <2>1, <2>3 DEF OwnRun, RunIds
  <2> QED BY <2>2, <2>3
<1> QED BY <1>10, <1>11, <1>12, <1>13 DEF GInv

LEMMA EditGoldenSetKeeps ==
  ASSUME GInv, EditGoldenSet
  PROVE  GInv'
<1>1. PICK c \in GoldenCase, row \in CaseRow :
        /\ goldenSet' = [goldenSet EXCEPT ![c] = row]
        /\ row = "absent" => ~Measured(c)
  <2>1. PICK c \in GoldenCase : SaveCase(c) \/ DeleteCase(c)
    BY DEF EditGoldenSet
  <2>2. CASE SaveCase(c)
    BY <2>2 DEF SaveCase
  <2>3. CASE DeleteCase(c)
    BY <2>3 DEF DeleteCase, CaseRow
  <2> QED BY <2>1, <2>2, <2>3
<1>2. UNCHANGED <<gateTrail, evalRuns, evaluation>>
  BY DEF EditGoldenSet
<1>3. Shapes' /\ Numbered' /\ Separate'
  BY <1>1, <1>2 DEF GInv, Shapes, Numbered, Separate, RunIds
<1>4. MeasuredCasesAreKept'
  BY <1>1, <1>2 DEF GInv, Shapes, MeasuredCasesAreKept, Measured, RunIds
<1>5. \A q \in EvaluationRequest : OwnRun(q)'
  BY <1>2 DEF GInv, OwnRun, RunIds
<1>6. \A r \in gateTrail : Recorded(r)'
  BY <1>2 DEF GInv, Recorded, Blocked, GateRow
<1> QED BY <1>2, <1>3, <1>4, <1>5, <1>6 DEF GInv

LEMMA InitGInv == GateInit => GInv
<1> SUFFICES ASSUME GateInit PROVE GInv
  OBVIOUS
<1>1. RunIds = {} /\ gateTrail = {} /\ RunIds = 1..0
  BY DEF GateInit, RunIds
<1>2. NoEvaluation \in Request /\ NoEvaluation.step = "idle" /\ NoEvaluation.run = 0
      /\ NoEvaluation.override = FALSE
  BY DEF NoEvaluation, Request, EvaluationStep, CaseRow
<1>3. /\ goldenSet \in [GoldenCase -> CaseRow]
      /\ evaluation = [q \in EvaluationRequest |-> NoEvaluation]
  BY DEF GateInit
<1>4. Shapes
  BY <1>1, <1>2, <1>3 DEF Shapes
<1>5. \A q \in EvaluationRequest : OwnRun(q)
  BY <1>2, <1>3 DEF OwnRun
<1>6. Numbered /\ MeasuredCasesAreKept /\ Separate
  BY <1>1, <1>2, <1>3 DEF Numbered, MeasuredCasesAreKept, Measured, Separate
<1> QED BY <1>1, <1>4, <1>5, <1>6 DEF GInv

LEMMA NextGInv == GInv /\ [GateNext]_gateVars => GInv'
<1> SUFFICES ASSUME GInv, [GateNext]_gateVars PROVE GInv'
  OBVIOUS
<1>1. CASE UNCHANGED gateVars
  BY <1>1 DEF gateVars, GInv, Shapes, Numbered, MeasuredCasesAreKept, Measured, Separate,
              OwnRun, Recorded, Blocked, GateRow, RunIds
<1>2. CASE EditGoldenSet
  BY <1>2, EditGoldenSetKeeps
<1>3. ASSUME NEW q \in EvaluationRequest, EvaluationCall(q)
      PROVE  GInv'
  BY <1>3, AskToPublishKeeps, MeasureOnlyKeeps, ListCasesKeeps, FindBaselineKeeps,
     InsertRunKeeps, CompleteRunKeeps, FailRunKeeps, LeaveKeeps, PublishGatedKeeps
     DEF EvaluationCall, AskToMeasure, ExecuteEvaluate
<1> QED BY <1>1, <1>2, <1>3 DEF GateNext

LEMMA GInvInductive == GateSpec => []GInv
BY InitGInv, NextGInv, PTL DEF GateSpec

-----------------------------------------------------------------------------
(* Baselines.  A run that has succeeded is never written again, so what a  *)
(* decision was taken from can be read from the rows afterwards.           *)

BaselineOf(version, b) ==
  b # 0 => /\ b \in Succeeded
           /\ version # AnyVersion => evalRuns[b].version = version

BaselineFits(q) == LET e == evaluation[q] IN
  /\ e.baseline \in {0} \cup RunIds
  /\ e.step \in {"insert", "measure"} => BaselineOf(e.version, e.baseline)
  /\ e.step = "measure" => evalRuns[e.run].status = "running" /\ e.baseline < e.run

(* What PassedAgainstItsBaseline says of one run.                          *)
PassedRun(i) == LET r == evalRuns[i] IN
  /\ r.citation <= r.recall
  /\ r.baseline # 0 => r.baseline < i
  /\ BaselineOf(r.version, r.baseline)
  /\ r.gate = "pass" => /\ ~Below(r.recall, MinRecall)
                        /\ ~Below(r.citation, MinCitation)
                        /\ ~RegressedFrom(r.baseline, r.recall, r.citation)

BInv == /\ \A q \in EvaluationRequest : BaselineFits(q)
        /\ \A i \in Succeeded : PassedRun(i)
        /\ \A i \in RunIds : evalRuns[i].recall \in MaybeRatio
                             /\ evalRuns[i].citation \in MaybeRatio

HistoryKept == /\ RunIds \subseteq RunIds'
               /\ \A i \in Succeeded : i \in Succeeded' /\ evalRuns'[i] = evalRuns[i]

LEMMA BaselineKept ==
  ASSUME HistoryKept, NEW version, NEW b, BaselineOf(version, b)
  PROVE  BaselineOf(version, b)'
BY DEF HistoryKept, BaselineOf

LEMMA PassedKept ==
  ASSUME HistoryKept, NEW i \in Succeeded, PassedRun(i)
  PROVE  PassedRun(i)'
BY DEF HistoryKept, PassedRun, BaselineOf, RegressedFrom

(* A step that writes no run.                                              *)
LEMMA BaselineQuiet ==
  ASSUME BInv, UNCHANGED evalRuns,
         \A p \in EvaluationRequest : evaluation'[p] = evaluation[p] \/ BaselineFits(p)'
  PROVE  BInv'
<1>1. HistoryKept /\ Succeeded' = Succeeded /\ RunIds' = RunIds
  BY DEF HistoryKept, Succeeded, RunIds
<1>2. ASSUME NEW p \in EvaluationRequest, evaluation'[p] = evaluation[p] PROVE BaselineFits(p)'
  BY <1>1, <1>2, BaselineKept DEF BInv, BaselineFits
<1> QED BY <1>1, <1>2, PassedKept DEF BInv

(* A step of a request that writes its run, which has not succeeded yet.   *)
LEMMA BaselineWrites ==
  ASSUME GInv, BInv, NEW q \in EvaluationRequest, NEW local \in Request, Proceed(q, local),
         NEW i \in Nat, NEW row \in Run, SetRun(i, row),
         \/ i \in RunIds /\ i = evaluation[q].run /\ evalRuns[i].status = "running"
         \/ i = Cardinality(RunIds) + 1,
         row.recall \in MaybeRatio, row.citation \in MaybeRatio,
         local.baseline = evaluation[q].baseline,
         local.step = "measure" =>
           /\ BaselineOf(local.version, local.baseline)
           /\ local.run = i /\ row.status = "running" /\ local.baseline < i,
         local.step # "insert",
         row.status = "succeeded" =>
           /\ row.citation <= row.recall
           /\ row.baseline # 0 => row.baseline < i
           /\ BaselineOf(row.version, row.baseline)
           /\ row.gate = "pass" => /\ ~Below(row.recall, MinRecall)
                                   /\ ~Below(row.citation, MinCitation)
                                   /\ ~RegressedFrom(row.baseline, row.recall, row.citation)
  PROVE  BInv'
<1>1. /\ RunIds' = RunIds \cup {i} /\ evalRuns'[i] = row
      /\ \A k \in RunIds \ {i} : evalRuns'[k] = evalRuns[k]
  BY RunWritten
<1>2. i \notin Succeeded /\ Succeeded \subseteq RunIds
  BY NextRun DEF GInv, Succeeded
<1>3. HistoryKept
  BY <1>1, <1>2 DEF HistoryKept, Succeeded
<1>4. /\ evaluation'[q] = local
      /\ \A p \in EvaluationRequest \ {q} : evaluation'[p] = evaluation[p]
  BY RequestMoved DEF GInv
<1>5. BaselineFits(q)'
  BY <1>1, <1>3, <1>4, BaselineKept DEF BInv, BaselineFits
<1>6. ASSUME NEW p \in EvaluationRequest \ {q} PROVE BaselineFits(p)'
  <2>1. BaselineFits(p) /\ evaluation'[p] = evaluation[p] /\ OwnRun(p)
    BY <1>4 DEF BInv, GInv
  <2>2. evaluation[p].step = "measure" => evalRuns'[evaluation[p].run] = evalRuns[evaluation[p].run]
    <3>1. CASE i = evaluation[q].run /\ i \in RunIds
      <4>1. i # 0
        BY <3>1, NextRun DEF GInv
      <4> QED BY <1>1, <2>1, <3>1, <4>1 DEF GInv, Separate, OwnRun
    <3>2. CASE i = Cardinality(RunIds) + 1
      BY <1>1, <2>1, <3>2, NextRun DEF GInv, OwnRun
    <3> QED BY <3>1, <3>2
  <2>3. BaselineOf(evaluation[p].version, evaluation[p].baseline) =>
          BaselineOf(evaluation[p].version, evaluation[p].baseline)'
    BY <1>3, <2>1, BaselineKept
  <2> QED BY <1>1, <2>1, <2>2, <2>3 DEF BaselineFits
<1>7. ASSUME NEW k \in Succeeded' PROVE PassedRun(k)'
  <2>1. CASE k \in Succeeded
    BY <1>3, <2>1, PassedKept DEF BInv
  <2>2. CASE k \notin Succeeded
    <3>1. k = i /\ row.status = "succeeded"
      BY <1>1, <2>2 DEF Succeeded
    <3>2. BaselineOf(row.version, row.baseline)' /\ evalRuns'[k] = row
      BY <1>1, <1>3, <3>1, BaselineKept
    <3>3. row.baseline # 0 => evalRuns'[row.baseline] = evalRuns[row.baseline]
      BY <1>3, <3>1 DEF BaselineOf, HistoryKept
    <3> QED BY <3>1, <3>2, <3>3 DEF PassedRun, RegressedFrom
  <2> QED BY <2>1, <2>2
<1>8. \A k \in RunIds' : evalRuns'[k].recall \in MaybeRatio /\ evalRuns'[k].citation \in MaybeRatio
  BY <1>1 DEF BInv
<1> QED BY <1>4, <1>5, <1>6, <1>7, <1>8 DEF BInv

LEMMA RatioRange ==
  ASSUME NEW n \in Nat, NEW d \in Nat, n <= d
  PROVE  Ratio(n, d) \in MaybeRatio
<1>1. CASE d = 0
  BY <1>1 DEF Ratio, NoRatio, MaybeRatio
<1>2. CASE d # 0
  <2>1. (20000 * n + d) \div (2 * d) <= 10000
    BY <1>2
  <2>2. (20000 * n + d) \div (2 * d) >= 0 /\ (20000 * n + d) \div (2 * d) \in Int
    BY <1>2
  <2>3. ASSUME NEW r \in Int, r >= 0, r <= 10000 PROVE r \in MaybeRatio
    BY <2>3, SMTT(30) DEF MaybeRatio
  <2>4. (20000 * n + d) \div (2 * d) \in MaybeRatio
    BY <2>1, <2>2, <2>3
  <2> QED BY <1>2, <2>4 DEF Ratio
<1> QED BY <1>1, <1>2

LEMMA RatioGrows ==
  ASSUME NEW m \in Nat, NEW n \in Nat, NEW d \in Nat, m <= n
  PROVE  Ratio(m, d) <= Ratio(n, d)
<1>1. CASE d = 0
  BY <1>1 DEF Ratio, NoRatio
<1>2. CASE d # 0
  <2>1. 20000 * m + d <= 20000 * n + d
    OBVIOUS
  <2>2. ASSUME NEW a \in Int, NEW b \in Int, NEW c \in Int, c > 0, a <= b
        PROVE  a \div c <= b \div c
    BY <2>2
  <2>3. (20000 * m + d) \div (2 * d) <= (20000 * n + d) \div (2 * d)
    BY <1>2, <2>1, <2>2
  <2> QED BY <1>2, <2>3 DEF Ratio
<1> QED BY <1>1, <1>2

(* Citations are of retrieved documents, retrievals of expected ones.      *)
LEMMA NestedRatios ==
  ASSUME NEW S \in SUBSET GoldenCase, NEW T \in SUBSET S, NEW U \in SUBSET T
  PROVE  /\ Ratio(Cardinality(T), Cardinality(S)) \in MaybeRatio
         /\ Ratio(Cardinality(U), Cardinality(S)) \in MaybeRatio
         /\ Ratio(Cardinality(U), Cardinality(S)) <= Ratio(Cardinality(T), Cardinality(S))
<1>1. IsFiniteSet(S) /\ IsFiniteSet(T) /\ IsFiniteSet(U)
  BY GateAssumption, FS_Subset
<1>2. /\ Cardinality(S) \in Nat /\ Cardinality(T) \in Nat /\ Cardinality(U) \in Nat
      /\ Cardinality(U) <= Cardinality(T) /\ Cardinality(T) <= Cardinality(S)
  BY <1>1, FS_Subset, FS_CardinalityType
<1> QED BY <1>2, RatioRange, RatioGrows

LEMMA DecidedPass ==
  ASSUME NEW total, NEW recall, NEW citation, NEW unfaithful, NEW b,
         Decide(total, recall, citation, unfaithful, b) = "pass"
  PROVE  /\ ~Below(recall, MinRecall) /\ ~Below(citation, MinCitation)
         /\ ~RegressedFrom(b, recall, citation)
BY GateAssumption DEF Decide

LEMMA CompleteRunBaseline ==
  ASSUME GInv, BInv, NEW q \in EvaluationRequest, CompleteRun(q)
  PROVE  BInv'
<1>1. PICK id, b, asked :
        id = evaluation[q].run /\ b = evaluation[q].baseline /\ asked = ListedAs(q, Expectation)
  OBVIOUS
<1>2. /\ asked \in SUBSET GoldenCase /\ evaluation[q] \in Request
      /\ evaluation[q].step = "measure" /\ id \in RunIds /\ evalRuns[id] \in Run /\ id \in Nat
      /\ evalRuns[id].status = "running" /\ evalRuns[id].version = evaluation[q].version
      /\ b \in Nat /\ b < id /\ BaselineOf(evalRuns[id].version, b)
  BY <1>1, SMTT(30)
     DEF CompleteRun, At, ListedAs, GInv, Shapes, OwnRun, BInv, BaselineFits, Numbered, Request
<1>3. PICK recall \in MaybeRatio, citation \in MaybeRatio, gate \in {"none", "pass", "warn", "block"} :
        /\ SetRun(id, [evalRuns[id] EXCEPT
                         !.status = "succeeded", !.recall = recall, !.citation = citation,
                         !.gate = gate, !.baseline = b, !.measured = asked])
        /\ citation <= recall
        /\ gate = "pass" => /\ ~Below(recall, MinRecall) /\ ~Below(citation, MinCitation)
                            /\ ~RegressedFrom(b, recall, citation)
  <2>1. PICK expected : expected = ListedAs(q, {"answer"})
    OBVIOUS
  <2>2. expected \in SUBSET GoldenCase
    BY <2>1 DEF ListedAs
  <2>3. PICK retrieved \in SUBSET expected : \E cited \in SUBSET retrieved :
          \E unfaithful \in {FALSE, expected # {}} :
            SetRun(id,
                   [evalRuns[id] EXCEPT
                      !.status = "succeeded",
                      !.recall = Ratio(Cardinality(retrieved), Cardinality(expected)),
                      !.citation = Ratio(Cardinality(cited), Cardinality(expected)),
                      !.gate = Decide(Cardinality(asked),
                                      Ratio(Cardinality(retrieved), Cardinality(expected)),
                                      Ratio(Cardinality(cited), Cardinality(expected)),
                                      unfaithful, b),
                      !.baseline = b, !.measured = asked])
    <3> DEFINE own == evaluation[q].run
               base == evaluation[q].baseline
               listed == ListedAs(q, Expectation)
               answers == ListedAs(q, {"answer"})
    <3>1. \E retrieved \in SUBSET answers : \E cited \in SUBSET retrieved :
            \E unfaithful \in {FALSE, answers # {}} :
              SetRun(own,
                     [evalRuns[own] EXCEPT
                        !.status = "succeeded",
                        !.recall = Ratio(Cardinality(retrieved), Cardinality(answers)),
                        !.citation = Ratio(Cardinality(cited), Cardinality(answers)),
                        !.gate = Decide(Cardinality(listed),
                                        Ratio(Cardinality(retrieved), Cardinality(answers)),
                                        Ratio(Cardinality(cited), Cardinality(answers)),
                                        unfaithful, base),
                        !.baseline = base, !.measured = listed])
      BY DEF CompleteRun
    <3>2. id = own /\ b = base /\ asked = listed /\ expected = answers
      BY <1>1, <2>1
    <3> HIDE DEF own, base, listed, answers
    <3> QED BY <3>1, <3>2, ZenonT(60)
  <2>4. PICK cited \in SUBSET retrieved, unfaithful \in {FALSE, expected # {}} :
            SetRun(id,
                   [evalRuns[id] EXCEPT
                      !.status = "succeeded",
                      !.recall = Ratio(Cardinality(retrieved), Cardinality(expected)),
                      !.citation = Ratio(Cardinality(cited), Cardinality(expected)),
                      !.gate = Decide(Cardinality(asked),
                                      Ratio(Cardinality(retrieved), Cardinality(expected)),
                                      Ratio(Cardinality(cited), Cardinality(expected)),
                                      unfaithful, b),
                      !.baseline = b, !.measured = asked])
    BY <2>3
  <2>5. PICK recall, citation, gate :
          /\ recall = Ratio(Cardinality(retrieved), Cardinality(expected))
          /\ citation = Ratio(Cardinality(cited), Cardinality(expected))
          /\ gate = Decide(Cardinality(asked), recall, citation, unfaithful, b)
    OBVIOUS
  <2>6. recall \in MaybeRatio /\ citation \in MaybeRatio /\ citation <= recall
    BY <2>2, <2>5, NestedRatios
  <2>7. gate \in {"none", "pass", "warn", "block"}
    BY <2>5, DecideType
  <2>8. gate = "pass" => /\ ~Below(recall, MinRecall) /\ ~Below(citation, MinCitation)
                         /\ ~RegressedFrom(b, recall, citation)
    BY <2>5, DecidedPass
  <2>9. SetRun(id, [evalRuns[id] EXCEPT
                      !.status = "succeeded", !.recall = recall, !.citation = citation,
                      !.gate = gate, !.baseline = b, !.measured = asked])
    BY <2>4, <2>5
  <2> QED BY <2>6, <2>7, <2>8, <2>9
<1>4. PICK row : row = CompletedRow(evalRuns[id], recall, citation, gate, b, asked)
  OBVIOUS
<1>5. SetRun(id, row)
  BY <1>3, <1>4 DEF CompletedRow
<1>6. recall \in Int /\ citation \in Int
  BY DEF MaybeRatio, NoRatio
<1>7. row \in Run /\ row.status = "succeeded" /\ row.version = evalRuns[id].version
  BY <1>2, <1>4, <1>6, RunCompleted
<1>8. row.recall = recall /\ row.citation = citation /\ row.gate = gate /\ row.baseline = b
  BY <1>2, <1>4 DEF CompletedRow, Run
<1>9. PICK step \in {"finished", "decided"} : Proceed(q, [evaluation[q] EXCEPT !.step = step])
  BY DEF CompleteRun
<1>10. PICK local : local = [evaluation[q] EXCEPT !.step = step]
  OBVIOUS
<1>11. /\ local \in Request /\ local.step = step /\ local.baseline = evaluation[q].baseline
  BY <1>2, <1>10 DEF Request, EvaluationStep
<1>12. Proceed(q, local)
  BY <1>9, <1>10
<1> QED BY <1>1, <1>2, <1>3, <1>5, <1>7, <1>8, <1>11, <1>12, BaselineWrites

LEMMA FailRunBaseline ==
  ASSUME GInv, BInv, NEW q \in EvaluationRequest, FailRun(q)
  PROVE  BInv'
<1>1. PICK id, row, local : /\ id = evaluation[q].run
                            /\ row = [evalRuns[id] EXCEPT !.status = "failed"]
                            /\ local = [evaluation[q] EXCEPT !.step = "denied"]
  OBVIOUS
<1>2. /\ evaluation[q] \in Request /\ evaluation[q].step = "measure" /\ id \in RunIds
      /\ evalRuns[id] \in Run /\ id \in Nat /\ evalRuns[id].status = "running"
      /\ evalRuns[id].recall \in MaybeRatio /\ evalRuns[id].citation \in MaybeRatio
  BY <1>1 DEF FailRun, At, GInv, Shapes, OwnRun, BInv, BaselineFits, Numbered
<1>3. /\ row \in Run /\ row.status = "failed" /\ row.recall = evalRuns[id].recall
      /\ row.citation = evalRuns[id].citation
  BY <1>1, <1>2 DEF Run
<1>4. local \in Request /\ local.step = "denied" /\ local.baseline = evaluation[q].baseline
  BY <1>1, <1>2 DEF Request, EvaluationStep
<1>5. SetRun(id, row) /\ Proceed(q, local)
  BY <1>1 DEF FailRun
<1> QED BY <1>1, <1>2, <1>3, <1>4, <1>5, BaselineWrites

LEMMA InsertRunBaseline ==
  ASSUME GInv, BInv, NEW q \in EvaluationRequest, InsertRun(q)
  PROVE  BInv'
<1>1. PICK id, row, local :
        /\ id = Cardinality(RunIds) + 1
        /\ row = NewRun(evaluation[q].version)
        /\ local = [evaluation[q] EXCEPT !.run = id, !.step = "measure"]
  OBVIOUS
<1>2. /\ evaluation[q] \in Request /\ evaluation[q].step = "insert"
      /\ evaluation[q].baseline \in {0} \cup RunIds
      /\ BaselineOf(evaluation[q].version, evaluation[q].baseline)
  BY DEF InsertRun, At, GInv, Shapes, BInv, BaselineFits
<1>3. id \in Nat /\ evaluation[q].baseline < id
  <2>1. PICK n \in Nat : RunIds = 1..n
    BY DEF GInv, Numbered
  <2>2. id = n + 1
    BY <1>1, <2>1, FS_Interval
  <2> QED BY <1>2, <2>1, <2>2
<1>4. /\ row \in Run /\ row.status = "running" /\ row.recall \in MaybeRatio
      /\ row.citation \in MaybeRatio
  BY <1>1, <1>2 DEF NewRun, Run, Request, NoRatio, MaybeRatio
<1>5. /\ local \in Request /\ local.step = "measure" /\ local.run = id
      /\ local.baseline = evaluation[q].baseline /\ local.version = evaluation[q].version
  BY <1>1, <1>2, <1>3 DEF Request, EvaluationStep
<1>6. SetRun(id, row) /\ Proceed(q, local)
  BY <1>1 DEF InsertRun
<1> QED BY <1>1, <1>2, <1>3, <1>4, <1>5, <1>6, BaselineWrites

LEMMA FindBaselineFits ==
  ASSUME GInv, BInv, NEW q \in EvaluationRequest, FindBaseline(q)
  PROVE  BInv'
<1>1. PICK i \in RunIds \cup {0} :
        /\ IsLatest(i, Comparable(evaluation[q].version))
        /\ Proceed(q, [evaluation[q] EXCEPT !.baseline = i, !.step = "insert"])
  BY DEF FindBaseline
<1>2. BaselineOf(evaluation[q].version, i)
  BY <1>1 DEF IsLatest, Comparable, BaselineOf, Succeeded
<1>3. i \in Nat /\ evaluation[q] \in Request /\ UNCHANGED evalRuns
  BY DEF GInv, Numbered, Shapes, FindBaseline
<1>4. PICK local : local = [evaluation[q] EXCEPT !.baseline = i, !.step = "insert"]
  OBVIOUS
<1>5. /\ local \in Request /\ local.step = "insert" /\ local.baseline = i
      /\ local.version = evaluation[q].version
  BY <1>3, <1>4 DEF Request, EvaluationStep
<1>6. /\ evaluation'[q] = local
      /\ \A p \in EvaluationRequest \ {q} : evaluation'[p] = evaluation[p]
  BY <1>1, <1>4, <1>5, RequestMoved DEF GInv
<1>7. BaselineFits(q)'
  <2>1. RunIds' = RunIds /\ Succeeded' = Succeeded
    BY <1>3 DEF RunIds, Succeeded
  <2> QED BY <1>2, <1>3, <1>5, <1>6, <2>1 DEF BaselineFits, BaselineOf
<1> QED BY <1>3, <1>6, <1>7, BaselineQuiet

(* The other steps of a request leave its baseline alone.                  *)
LEMMA OtherStepsBaseline ==
  ASSUME GInv, BInv, NEW q \in EvaluationRequest,
         \/ AskToPublish(q) \/ AskToMeasure(q) \/ ExecuteEvaluate(q) \/ ListCases(q)
         \/ LoseRun(q) \/ Deny(q) \/ PublishGated(q)
  PROVE  BInv'
<1>1. evaluation[q] \in Request /\ UNCHANGED evalRuns
  BY DEF GInv, Shapes, AskToPublish, AskToMeasure, ExecuteEvaluate, MeasureOnly, ListCases,
         LoseRun, Deny, PublishGated
<1>2. PICK local :
        /\ Proceed(q, local)
        /\ local.baseline = evaluation[q].baseline
        /\ local.step \notin {"insert", "measure"}
  <2>1. CASE AskToPublish(q)
    <3>1. PICK v \in GatedVersion, override \in BOOLEAN :
            Proceed(q, [evaluation[q] EXCEPT
                          !.purpose = "publish", !.version = v, !.override = override,
                          !.step = IF GateMode = "off" THEN "decided" ELSE "list"])
      BY <2>1 DEF AskToPublish
    <3>2. PICK step \in {"decided", "list"} : step = IF GateMode = "off" THEN "decided" ELSE "list"
      OBVIOUS
    <3>3. PICK local : local = [evaluation[q] EXCEPT !.purpose = "publish", !.version = v,
                                                     !.override = override, !.step = step]
      OBVIOUS
    <3>4. local.baseline = evaluation[q].baseline /\ local.step = step
      BY <1>1, <3>3 DEF Request
    <3>5. Proceed(q, local)
      BY <3>1, <3>2, <3>3
    <3> QED BY <3>2, <3>4, <3>5
  <2>2. CASE AskToMeasure(q) \/ ExecuteEvaluate(q)
    <3>1. PICK v : Proceed(q, [evaluation[q] EXCEPT !.version = v, !.step = "list"])
      BY <2>2 DEF AskToMeasure, ExecuteEvaluate, MeasureOnly
    <3>2. PICK local : local = [evaluation[q] EXCEPT !.version = v, !.step = "list"]
      OBVIOUS
    <3>3. local.baseline = evaluation[q].baseline /\ local.step = "list"
      BY <1>1, <3>2 DEF Request
    <3> QED BY <3>1, <3>2, <3>3
  <2>3. CASE ListCases(q)
    <3>1. PICK local : local = [evaluation[q] EXCEPT !.cases = goldenSet, !.step = "baseline"]
      OBVIOUS
    <3>2. local.baseline = evaluation[q].baseline /\ local.step = "baseline"
      BY <1>1, <3>1 DEF Request
    <3>3. Proceed(q, local)
      BY <2>3, <3>1 DEF ListCases
    <3> QED BY <3>2, <3>3
  <2>4. CASE LoseRun(q) \/ Deny(q) \/ PublishGated(q)
    <3>1. PICK step \in {"lost", "denied", "published"} :
            Proceed(q, [evaluation[q] EXCEPT !.step = step])
      BY <2>4 DEF LoseRun, Deny, PublishGated
    <3>2. PICK local : local = [evaluation[q] EXCEPT !.step = step]
      OBVIOUS
    <3>3. local.baseline = evaluation[q].baseline /\ local.step = step
      BY <1>1, <3>2 DEF Request
    <3> QED BY <3>1, <3>2, <3>3
  <2> QED BY <2>1, <2>2, <2>3, <2>4
<1>3. /\ evaluation'[q] = local
      /\ \A p \in EvaluationRequest \ {q} : evaluation'[p] = evaluation[p]
  BY <1>2 DEF Proceed, GInv, Shapes
<1>4. BaselineFits(q)'
  BY <1>1, <1>2, <1>3 DEF BInv, BaselineFits, RunIds
<1> QED BY <1>1, <1>3, <1>4, BaselineQuiet

LEMMA InitBInv == GateInit => BInv
<1> SUFFICES ASSUME GateInit PROVE BInv
  OBVIOUS
<1>1. /\ RunIds = {} /\ Succeeded = {}
      /\ \A q \in EvaluationRequest : evaluation[q] = NoEvaluation
  BY DEF GateInit, RunIds, Succeeded
<1> QED BY <1>1 DEF BInv, BaselineFits, NoEvaluation

LEMMA NextBInv == GInv /\ BInv /\ [GateNext]_gateVars => BInv'
<1> SUFFICES ASSUME GInv, BInv, [GateNext]_gateVars PROVE BInv'
  OBVIOUS
<1>1. CASE UNCHANGED gateVars \/ EditGoldenSet
  BY <1>1, BaselineQuiet DEF gateVars, EditGoldenSet
<1>2. ASSUME NEW q \in EvaluationRequest, EvaluationCall(q) PROVE BInv'
  BY <1>2, CompleteRunBaseline, FailRunBaseline, InsertRunBaseline, FindBaselineFits,
     OtherStepsBaseline DEF EvaluationCall
<1> QED BY <1>1, <1>2 DEF GateNext

LEMMA BInvInductive == GateSpec => []BInv
BY GInvInductive, InitBInv, NextBInv, PTL DEF GateSpec

-----------------------------------------------------------------------------
(* What the type invariant adds: the versions, the trail and the edits.    *)

Purposeful(q) == LET e == evaluation[q] IN
  /\ e.step = "idle" => e.purpose = "measure"
  /\ e.step = "decided" => e.purpose = "publish"
  /\ e.purpose = "publish" => e.version \in GatedVersion

GateRest ==
  /\ caseEdits \in 0..MaxCaseEdits
  /\ gatedStatus \in [GatedVersion -> {"staged", "indexed", "superseded"}]
  /\ \A r \in gateTrail : r.version \in GatedVersion /\ r.action \in {"override_gate", "publish"}
  /\ \A q \in EvaluationRequest : Purposeful(q)

LEMMA RequestPurposeful ==
  ASSUME GInv, GateRest, NEW q \in EvaluationRequest, EvaluationCall(q)
  PROVE  \A p \in EvaluationRequest : Purposeful(p)'
<1>1. evaluation[q] \in Request /\ Purposeful(q)
  BY DEF GInv, Shapes, GateRest
<1>2. ASSUME NEW local, Proceed(q, local),
             local.step # "idle",
             local.step = "decided" => local.purpose = "publish",
             local.purpose = "publish" => local.version \in GatedVersion
      PROVE  \A p \in EvaluationRequest : Purposeful(p)'
  <2>1. evaluation'[q] = local /\ \A p \in EvaluationRequest \ {q} : evaluation'[p] = evaluation[p]
    BY <1>2 DEF Proceed, GInv, Shapes
  <2>2. Purposeful(q)'
    BY <1>2, <2>1 DEF Purposeful
  <2>3. ASSUME NEW p \in EvaluationRequest \ {q} PROVE Purposeful(p)'
    BY <2>1 DEF Purposeful, GateRest
  <2> QED BY <2>2, <2>3
<1>3. CASE AskToPublish(q)
  <2>1. PICK v, override, step :
          /\ v \in GatedVersion
          /\ step \in {"decided", "list"}
          /\ Proceed(q, [evaluation[q] EXCEPT
                           !.purpose = "publish", !.version = v, !.override = override,
                           !.step = step])
    <3>1. PICK v \in GatedVersion, override \in BOOLEAN :
            Proceed(q, [evaluation[q] EXCEPT
                          !.purpose = "publish", !.version = v, !.override = override,
                          !.step = IF GateMode = "off" THEN "decided" ELSE "list"])
      BY <1>3 DEF AskToPublish
    <3>2. PICK step : step = IF GateMode = "off" THEN "decided" ELSE "list"
      OBVIOUS
    <3> QED BY <3>1, <3>2
  <2>2. PICK local : local = [evaluation[q] EXCEPT !.purpose = "publish", !.version = v,
                                                   !.override = override, !.step = step]
    OBVIOUS
  <2>3. local.version = v /\ local.step = step /\ local.purpose = "publish"
    BY <1>1, <2>2 DEF Request
  <2> QED BY <1>2, <2>1, <2>2, <2>3
<1>4. CASE AskToMeasure(q) \/ ExecuteEvaluate(q)
  <2>1. PICK v : At(q, "idle") /\ Proceed(q, [evaluation[q] EXCEPT !.version = v, !.step = "list"])
    BY <1>4 DEF AskToMeasure, ExecuteEvaluate, MeasureOnly
  <2>2. PICK local : local = [evaluation[q] EXCEPT !.version = v, !.step = "list"]
    OBVIOUS
  <2>3. local.step = "list" /\ local.purpose = evaluation[q].purpose
    BY <1>1, <2>2 DEF Request
  <2> QED BY <1>1, <1>2, <2>1, <2>2, <2>3 DEF Purposeful, At
<1>5. ASSUME NEW local, Proceed(q, local), local.step # "idle",
             local.step = "decided" => evaluation[q].purpose = "publish",
             local.purpose = evaluation[q].purpose, local.version = evaluation[q].version
      PROVE  \A p \in EvaluationRequest : Purposeful(p)'
  BY <1>1, <1>2, <1>5 DEF Purposeful
<1>6. CASE ListCases(q)
  <2>1. PICK local : local = [evaluation[q] EXCEPT !.cases = goldenSet, !.step = "baseline"]
    OBVIOUS
  <2>2. /\ local.step = "baseline" /\ local.purpose = evaluation[q].purpose
        /\ local.version = evaluation[q].version
    BY <1>1, <2>1 DEF Request
  <2>3. Proceed(q, local)
    BY <1>6, <2>1 DEF ListCases
  <2> QED BY <1>5, <2>2, <2>3
<1>7. CASE FindBaseline(q)
  <2>1. PICK i : Proceed(q, [evaluation[q] EXCEPT !.baseline = i, !.step = "insert"])
    BY <1>7 DEF FindBaseline
  <2>2. PICK local : local = [evaluation[q] EXCEPT !.baseline = i, !.step = "insert"]
    OBVIOUS
  <2>3. /\ local.step = "insert" /\ local.purpose = evaluation[q].purpose
        /\ local.version = evaluation[q].version
    BY <1>1, <2>2 DEF Request
  <2> QED BY <1>5, <2>1, <2>2, <2>3
<1>8. CASE InsertRun(q)
  <2>1. PICK i : Proceed(q, [evaluation[q] EXCEPT !.run = i, !.step = "measure"])
    BY <1>8 DEF InsertRun
  <2>2. PICK local : local = [evaluation[q] EXCEPT !.run = i, !.step = "measure"]
    OBVIOUS
  <2>3. /\ local.step = "measure" /\ local.purpose = evaluation[q].purpose
        /\ local.version = evaluation[q].version
    BY <1>1, <2>2 DEF Request
  <2> QED BY <1>5, <2>1, <2>2, <2>3
<1>9. CASE CompleteRun(q) \/ FailRun(q) \/ LoseRun(q) \/ Deny(q) \/ PublishGated(q)
  <2>1. PICK step \in {"finished", "decided", "denied", "lost", "published"} :
          /\ Proceed(q, [evaluation[q] EXCEPT !.step = step])
          /\ step = "decided" => evaluation[q].purpose = "publish"
    BY <1>9 DEF CompleteRun, FailRun, LoseRun, Deny, PublishGated
  <2>2. PICK local : local = [evaluation[q] EXCEPT !.step = step]
    OBVIOUS
  <2>3. /\ local.step = step /\ local.purpose = evaluation[q].purpose
        /\ local.version = evaluation[q].version
    BY <1>1, <2>2, SMTT(30) DEF Request
  <2> QED BY <1>5, <2>1, <2>2, <2>3
<1> QED BY <1>3, <1>4, <1>6, <1>7, <1>8, <1>9 DEF EvaluationCall

LEMMA RequestRest ==
  ASSUME GInv, GateRest, NEW q \in EvaluationRequest, EvaluationCall(q)
  PROVE  GateRest'
<1>1. caseEdits' = caseEdits
  BY DEF EvaluationCall, AskToPublish, AskToMeasure, ExecuteEvaluate, MeasureOnly, ListCases,
         FindBaseline, InsertRun, CompleteRun, FailRun, LoseRun, Deny, PublishGated
<1>2. CASE UNCHANGED <<gatedStatus, gateTrail>>
  BY <1>1, <1>2, RequestPurposeful DEF GateRest
<1>3. CASE PublishGated(q)
  <2>1. gatedStatus' \in [GatedVersion -> {"staged", "indexed", "superseded"}]
    BY <1>3 DEF PublishGated, GateRest
  <2>2. evaluation[q].version \in GatedVersion
    BY <1>3 DEF PublishGated, At, GateRest, Purposeful
  <2>3. /\ GateRow(q, "publish").version = evaluation[q].version
        /\ GateRow(q, "publish").action = "publish"
        /\ GateRow(q, "override_gate").version = evaluation[q].version
        /\ GateRow(q, "override_gate").action = "override_gate"
    BY DEF GateRow
  <2>4. gateTrail' \subseteq gateTrail \cup {GateRow(q, "publish"), GateRow(q, "override_gate")}
    BY <1>3, SMTT(30) DEF PublishGated
  <2>5. \A r \in gateTrail' : r.version \in GatedVersion /\ r.action \in {"override_gate", "publish"}
    BY <2>2, <2>3, <2>4, SMTT(30) DEF GateRest
  <2> QED BY <1>1, <2>1, <2>5, RequestPurposeful DEF GateRest
<1> QED BY <1>2, <1>3, ZenonT(60)
        DEF EvaluationCall, AskToPublish, AskToMeasure, ExecuteEvaluate, MeasureOnly, ListCases,
            FindBaseline, InsertRun, CompleteRun, FailRun, LoseRun, Deny

LEMMA InitGateRest == GateInit => GateRest
<1> SUFFICES ASSUME GateInit PROVE GateRest
  OBVIOUS
<1>1. \A q \in EvaluationRequest : evaluation[q] = NoEvaluation
  BY DEF GateInit
<1> QED BY <1>1, GateAssumption, SMTT(30) DEF GateInit, GateRest, Purposeful, NoEvaluation

LEMMA NextGateRest == GInv /\ GateRest /\ [GateNext]_gateVars => GateRest'
<1> SUFFICES ASSUME GInv, GateRest, [GateNext]_gateVars PROVE GateRest'
  OBVIOUS
<1>1. CASE UNCHANGED gateVars
  BY <1>1 DEF gateVars, GateRest, Purposeful
<1>2. CASE EditGoldenSet
  <2>1. caseEdits' \in 0..MaxCaseEdits /\ UNCHANGED <<gatedStatus, gateTrail, evaluation>>
    BY <1>2, GateAssumption DEF EditGoldenSet, GateRest
  <2> QED BY <2>1, SMTT(30) DEF GateRest, Purposeful
<1> QED BY <1>1, <1>2, RequestRest DEF GateNext

LEMMA GateTypes == GInv /\ BInv /\ GateRest => GateTypeOK
<1> SUFFICES ASSUME GInv, BInv, GateRest PROVE GateTypeOK
  OBVIOUS
<1>1. /\ goldenSet \in [GoldenCase -> CaseRow] /\ caseEdits \in 0..MaxCaseEdits
      /\ gatedStatus \in [GatedVersion -> {"staged", "indexed", "superseded"}]
  BY DEF GInv, Shapes, GateRest
<1>2. ASSUME NEW r \in gateTrail
      PROVE  /\ r.version \in GatedVersion
             /\ r.action \in {"override_gate", "publish"}
             /\ r.request \in EvaluationRequest
  BY DEF GInv, Recorded, GateRest
<1>3. ASSUME NEW i \in RunIds PROVE i \in Nat /\ evalRuns[i] \in EvalRun
  <2>1. i \in Nat /\ evalRuns[i] \in Run
    BY DEF GInv, Numbered, Shapes
  <2>2. evalRuns[i].recall \in MaybeRatio /\ evalRuns[i].citation \in MaybeRatio
    BY DEF BInv
  <2> QED BY <2>1, <2>2 DEF Run, EvalRun
<1>4. ASSUME NEW q \in EvaluationRequest
      PROVE  /\ evaluation[q].step \in EvaluationStep
             /\ evaluation[q].baseline \in {0} \cup RunIds
             /\ evaluation[q].run \in {0} \cup RunIds
  <2>1. evaluation[q] \in Request /\ OwnRun(q) /\ BaselineFits(q)
    BY DEF GInv, Shapes, BInv
  <2> QED BY <2>1 DEF Request, OwnRun, BaselineFits
<1> QED BY <1>1, <1>2, <1>3, <1>4 DEF GateTypeOK

-----------------------------------------------------------------------------
(* Theorems.                                                               *)

(* Every variable of the gate keeps its type: ids of runs are those of     *)
(* rows, and ratios are ten-thousandths.                                   *)
THEOREM GateTypesHold == GateSpec => []GateTypeOK
<1>1. GateSpec => []GateRest
  BY InitGateRest, NextGateRest, GInvInductive, PTL DEF GateSpec
<1> QED BY <1>1, GInvInductive, BInvInductive, GateTypes, PTL

(* A run that passes was measured against an earlier, finished run of its  *)
(* version, met the minima and did not regress from it.                    *)
THEOREM PassesAreComparative == GateSpec => []PassedAgainstItsBaseline
<1>1. ASSUME BInv PROVE PassedAgainstItsBaseline
  <2>1. \A i \in Succeeded : PassedRun(i)
    BY <1>1 DEF BInv
  <2> QED BY <2>1 DEF PassedAgainstItsBaseline, PassedRun, BaselineOf
<1> QED BY <1>1, BInvInductive, PTL

(* No order of measuring and deleting leaves results without their case.   *)
THEOREM EvidenceIsKept == GateSpec => []MeasuredCasesAreKept
<1>1. GInv => MeasuredCasesAreKept
  BY DEF GInv
<1> QED BY <1>1, GInvInductive, PTL

(* Every publication on the trail follows a completed measurement of its   *)
(* own and of that version, and obeys or openly bypasses its block.        *)
THEOREM GateIsPassed == GateSpec => []PublishedThroughTheGate
<1>1. ASSUME GInv PROVE PublishedThroughTheGate
  <2>1. ASSUME NEW r \in gateTrail
        PROVE  LET i == evaluation[r.request].run IN
               /\ GateMode # "off" =>
                    /\ i \in Succeeded
                    /\ evalRuns[i].version = r.version
               /\ r.action = "publish" /\ i # 0 /\ evalRuns[i].gate = "block" =>
                    GateRow(r.request, "override_gate") \in gateTrail
               /\ r.action = "override_gate" =>
                    i # 0 /\ evalRuns[i].gate = "block" /\ MayOverrideGate
    <3>1. Recorded(r) /\ OwnRun(r.request)
      BY <1>1 DEF GInv, Recorded
    <3> QED BY <3>1 DEF Recorded, OwnRun, Blocked, Succeeded
  <2> QED BY <2>1 DEF PublishedThroughTheGate
<1> QED BY <1>1, GInvInductive, PTL
=============================================================================
