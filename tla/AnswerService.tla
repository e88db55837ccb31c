---------------------------- MODULE AnswerService ----------------------------
(***************************************************************************)
(* The query endpoint behind its quota: the answer pipeline of             *)
(* src/assistant/service.py with its retrieval, the choice of the model in *)
(* src/backend/models.py, the gateway's calls and retries, and the rows a  *)
(* query leaves in src/backend/database.py.                                *)
(*                                                                         *)
(* A query reads the model configuration twice, and an administrator may   *)
(* change it in between.  Every transaction is a step, and so is every     *)
(* call of a provider.                                                     *)
(***************************************************************************)
EXTENDS Naturals

CONSTANTS Query,           \* calls of the endpoint that the quota admits
          MaxRetries,      \* IT_MODEL_MAX_RETRIES
          MaxConfigChanges \* bound: changes of the model configuration

ASSUME AnswerAssumption == MaxRetries \in Nat /\ MaxConfigChanges \in Nat

VARIABLES config,        \* mode and strategy as a query reads them
          configChanges, \* changes so far
          queryRow,      \* queryRow[q]: the row in queries
          ledger,        \* ledger[q]: rows of model_usage for q
          calls,         \* calls[q]: what the providers saw of q
          cited,         \* queries with rows in query_citations
          gap,           \* gap[q]: status of the row in knowledge_gaps
          ask            \* ask[q]: the locals of call q; reranks counts the calls of
                         \* the reranking provider (no code reads it)

answerVars == <<config, configChanges, queryRow, ledger, calls, cited, gap, ask>>

(* "unnamed": a mode whose provider has no model name, as the environment  *)
(* may leave it; an administrator's choice is validated.                   *)
Mode == {"knowledge", "local", "unnamed"}
Strategy == {"knowledge_first", "generative_first", "hybrid"}
Route == {"knowledge", "local"}
Evidence == {"sufficient", "insufficient"}
GapStatus == {"open", "addressed", "dismissed"}

AskStep == {"record", "retrieve", "embedded", "search", "rerank", "strategy", "select",
            "route", "call", "attempted", "citations", "gap", "answered", "refused",
            "failed", "lost"}
Ended == {"answered", "refused", "failed", "lost"}

NoRow == [route |-> "none", evidence |-> "none"]

NewAsk == [step |-> "record", evidence |-> "none", strategy |-> "none", route |-> "none",
           citations |-> FALSE, attempts |-> 0, embeddings |-> 0, reranks |-> 0,
           success |-> FALSE, signalsLost |-> FALSE]

Ask == [step : AskStep, evidence : {"none"} \cup Evidence, strategy : {"none"} \cup Strategy,
        route : {"none"} \cup Route, citations : BOOLEAN, attempts : 0..(MaxRetries + 1),
        embeddings : 0..1, reranks : 0..1, success : BOOLEAN, signalsLost : BOOLEAN]

AnswerTypeOK ==
  /\ config \in [mode : Mode, strategy : Strategy]
  /\ configChanges \in 0..MaxConfigChanges
  /\ queryRow \in [Query -> [route : {"none", "pending"} \cup Route,
                             evidence : {"none", "pending"} \cup Evidence]]
  /\ ledger \in [Query -> 0..(MaxRetries + 2)]
  /\ calls \in [Query -> 0..(MaxRetries + 3)]
  /\ cited \subseteq Query
  /\ gap \in [Query -> {"none"} \cup GapStatus]
  /\ ask \in [Query -> Ask]

AnswerInit ==
  /\ config \in [mode : Mode, strategy : {"knowledge_first"}]
  /\ configChanges = 0
  /\ queryRow = [q \in Query |-> NoRow]
  /\ ledger = [q \in Query |-> 0]
  /\ calls = [q \in Query |-> 0]
  /\ cited = {}
  /\ gap = [q \in Query |-> "none"]
  /\ ask = [q \in Query |-> NewAsk]

-----------------------------------------------------------------------------
(* An operator X_Y before an operator X is X with a plausible mistake in   *)
(* it; no action uses it.                                                  *)

configVars == <<config, configChanges>>
signalVars == <<cited, gap>>
rowVars == <<queryRow, ledger, calls, signalVars>>

AskingAt(q, step) == ask[q].step = step
AskGoesTo(q, local) == ask' = [ask EXCEPT ![q] = local]
AskTurnsTo(q, step) == AskGoesTo(q, [ask[q] EXCEPT !.step = step])

-----------------------------------------------------------------------------
(* ITQueryService.query.                                                   *)

(* An empty question has used its quota and leaves no row; a greeting and  *)
(* an overview need no retrieval, and only an overview may cite.           *)
RecordQuery(q) ==
  /\ AskingAt(q, "record")
  /\ \/ AskTurnsTo(q, "refused") /\ UNCHANGED queryRow
     \/ /\ queryRow' = [queryRow EXCEPT
                           ![q] = [route |-> "pending", evidence |-> "pending"]]
        /\ \/ AskTurnsTo(q, "retrieve")
           \/ \E citations \in BOOLEAN :
                AskGoesTo(q, [ask[q] EXCEPT !.evidence = "sufficient",
                                            !.citations = citations,
                                            !.step = "strategy"])
  /\ UNCHANGED <<configVars, ledger, calls, signalVars>>

(* HybridRetriever.retrieve: without indexed chunks nothing is embedded;   *)
(* with hashed embeddings nothing is called; a call that fails leads to    *)
(* the lexical search, with its usage on the ledger as well.               *)
EmbedQuestion(q) ==
  /\ AskingAt(q, "retrieve")
  /\ \/ AskTurnsTo(q, "search") /\ UNCHANGED calls
     \/ /\ calls' = [calls EXCEPT ![q] = @ + 1]
        /\ AskGoesTo(q, [ask[q] EXCEPT !.embeddings = 1, !.step = "embedded"])
  /\ UNCHANGED <<configVars, queryRow, ledger, signalVars>>

RecordQueryEmbedding(q) ==
  /\ AskingAt(q, "embedded")
  /\ ledger' = [ledger EXCEPT ![q] = @ + ask[q].embeddings]
  /\ AskTurnsTo(q, "search")
  /\ UNCHANGED <<configVars, queryRow, calls, signalVars>>

(* Documents found or a section of knowledge.md, with citations, or        *)
(* nothing, without.  Documents are reranked here or, by IT_RERANK_MODE,   *)
(* by a provider.                                                          *)
SearchKnowledge(q) ==
  /\ AskingAt(q, "search")
  /\ \/ AskTurnsTo(q, "rerank")
     \/ \E evidence \in Evidence :
          AskGoesTo(q, [ask[q] EXCEPT !.evidence = evidence,
                                      !.citations = (evidence = "sufficient"),
                                      !.step = "strategy"])
  /\ UNCHANGED <<configVars, rowVars>>

(* ApiReranker.rerank: whether it answers or the lexical order stands in,  *)
(* the documents remain.  The call leaves no row on the ledger.            *)
Rerank(q) ==
  /\ AskingAt(q, "rerank")
  /\ calls' = [calls EXCEPT ![q] = @ + 1]
  /\ AskGoesTo(q, [ask[q] EXCEPT !.evidence = "sufficient", !.citations = TRUE,
                                 !.reranks = 1, !.step = "strategy"])
  /\ UNCHANGED <<configVars, queryRow, ledger, signalVars>>

ReadStrategy(q) ==
  /\ AskingAt(q, "strategy")
  /\ AskGoesTo(q, [ask[q] EXCEPT !.strategy = config.strategy, !.step = "select"])
  /\ UNCHANGED <<configVars, rowVars>>

(* ModelRouter.select reads the configuration again, unless the strategy   *)
(* read before is content with the knowledge; a hybrid strategy is, for a  *)
(* short question.  A mode without a model name is a ValueError.           *)
SelectModel(q) ==
  /\ AskingAt(q, "select")
  /\ \/ /\ ask[q].evidence = "sufficient"
        /\ ask[q].strategy \in {"knowledge_first", "hybrid"}
        /\ AskGoesTo(q, [ask[q] EXCEPT !.route = "knowledge", !.step = "route"])
     \/ /\ ~(ask[q].evidence = "sufficient" /\ ask[q].strategy = "knowledge_first")
        /\ IF config.mode = "unnamed"
           THEN AskTurnsTo(q, "refused")
           ELSE AskGoesTo(q, [ask[q] EXCEPT !.route = config.mode, !.step = "route"])
  /\ UNCHANGED <<configVars, rowVars>>

UpdateQueryRoute_RouteOnly(q) ==
  /\ AskingAt(q, "route")
  /\ queryRow' = [queryRow EXCEPT ![q].route = ask[q].route]
  /\ AskTurnsTo(q, IF ask[q].route = "knowledge" THEN "citations" ELSE "call")
  /\ UNCHANGED <<configVars, ledger, calls, signalVars>>

UpdateQueryRoute(q) ==
  /\ AskingAt(q, "route")
  /\ queryRow' = [queryRow EXCEPT ![q] = [route |-> ask[q].route,
                                          evidence |-> ask[q].evidence]]
  /\ AskTurnsTo(q, IF ask[q].route = "knowledge" THEN "citations" ELSE "call")
  /\ UNCHANGED <<configVars, ledger, calls, signalVars>>

RetriesLeft_OffByOne(tried) == tried <= MaxRetries + 1

RetriesLeft(tried) == tried <= MaxRetries

(* ModelGateway.complete: a retryable failure is tried again MaxRetries    *)
(* times, any other one is not; every attempt counts.  An unusable address *)
(* fails before the first.                                                 *)
CallModel(q) == LET tried == ask[q].attempts + 1 IN
  /\ AskingAt(q, "call")
  /\ \/ /\ ask[q].attempts = 0
        /\ AskTurnsTo(q, "attempted")
        /\ UNCHANGED calls
     \/ /\ calls' = [calls EXCEPT ![q] = @ + 1]
        /\ \/ AskGoesTo(q, [ask[q] EXCEPT !.attempts = tried, !.success = TRUE,
                                          !.step = "attempted"])
           \/ AskGoesTo(q, [ask[q] EXCEPT !.attempts = tried, !.step = "attempted"])
           \/ /\ RetriesLeft(tried)
              /\ AskGoesTo(q, [ask[q] EXCEPT !.attempts = tried])
  /\ UNCHANGED <<configVars, queryRow, ledger, signalVars>>

AttemptRows_LastOnly(q) == IF ask[q].attempts > 0 THEN 1 ELSE 0

(* record_model_attempts: one row for each.                                *)
AttemptRows(q) == ask[q].attempts

(* Failed calls are recorded too; then a generative_first query falls back *)
(* to its evidence and any other one fails with 502.                       *)
RecordModelAttempts(q) ==
  /\ AskingAt(q, "attempted")
  /\ ledger' = [ledger EXCEPT ![q] = @ + AttemptRows(q)]
  /\ AskTurnsTo(q, IF ask[q].success \/ ask[q].strategy = "generative_first"
                   THEN "citations" ELSE "failed")
  /\ UNCHANGED <<configVars, queryRow, calls, signalVars>>

(* The two transactions after the answer; whatever fails in them, the      *)
(* answer goes out.                                                        *)
PersistFails(q) == /\ AskGoesTo(q, [ask[q] EXCEPT !.signalsLost = TRUE, !.step = "answered"])
                   /\ UNCHANGED signalVars

AfterCitations(q) == IF ask[q].evidence = "insufficient" THEN "gap" ELSE "answered"

(* record_citations opens a transaction only if there are any.             *)
RecordCitations(q) ==
  /\ AskingAt(q, "citations")
  /\ \/ /\ cited' = IF ask[q].citations THEN cited \cup {q} ELSE cited
        /\ AskTurnsTo(q, AfterCitations(q))
        /\ UNCHANGED gap
     \/ ask[q].citations /\ PersistFails(q)
  /\ UNCHANGED <<configVars, queryRow, ledger, calls>>

RegisterKnowledgeGap(q) ==
  /\ AskingAt(q, "gap")
  /\ \/ /\ gap' = [gap EXCEPT ![q] = "open"]
        /\ AskTurnsTo(q, "answered")
        /\ UNCHANGED cited
     \/ PersistFails(q)
  /\ UNCHANGED <<configVars, queryRow, ledger, calls>>

(* Any other exception (500), and the death of the process.                *)
LoseQuery(q) ==
  /\ ask[q].step \notin Ended
  /\ AskTurnsTo(q, "lost")
  /\ UNCHANGED <<configVars, rowVars>>

-----------------------------------------------------------------------------
(* The administrator.                                                      *)

(* validate_selection: a mode with its model, address and credential.      *)
ValidatedMode == {"knowledge", "local"}

(* set_runtime_model_config writes the one row.                            *)
SetRuntimeModelConfig(mode, strategy) ==
  config' = [mode |-> mode, strategy |-> strategy]

(* The runtime was activated before; the credential, stored afterwards,    *)
(* only decides what the provider answers.                                 *)
UpdateModelConfig ==
  /\ configChanges < MaxConfigChanges
  /\ configChanges' = configChanges + 1
  /\ \E mode \in ValidatedMode, strategy \in Strategy :
       SetRuntimeModelConfig(mode, strategy)
  /\ UNCHANGED <<rowVars, ask>>

(* Neither looks at the status it overwrites.                              *)
ResolveKnowledgeGap(q) == gap[q] # "none" /\ gap' = [gap EXCEPT ![q] = "addressed"]
DismissKnowledgeGap(q) == gap[q] # "none" /\ gap' = [gap EXCEPT ![q] = "dismissed"]

TriageKnowledgeGap(q) ==
  /\ ResolveKnowledgeGap(q) \/ DismissKnowledgeGap(q)
  /\ UNCHANGED <<configVars, queryRow, ledger, calls, cited, ask>>

-----------------------------------------------------------------------------
AnswerCall(q) == \/ RecordQuery(q)
                 \/ EmbedQuestion(q)
                 \/ RecordQueryEmbedding(q)
                 \/ SearchKnowledge(q)
                 \/ Rerank(q)
                 \/ ReadStrategy(q)
                 \/ SelectModel(q)
                 \/ UpdateQueryRoute(q)
                 \/ CallModel(q)
                 \/ RecordModelAttempts(q)
                 \/ RecordCitations(q)
                 \/ RegisterKnowledgeGap(q)
                 \/ LoseQuery(q)

AnswerNext == UpdateModelConfig \/ \E q \in Query : AnswerCall(q) \/ TriageKnowledgeGap(q)

AnswerSpec == AnswerInit /\ [][AnswerNext]_answerVars

-----------------------------------------------------------------------------
(* Properties.                                                             *)

(* Whether a query was answered, degraded, refused for its configuration   *)
(* or failed, the ledger has a row for every call of the embedding and the *)
(* model provider, retries included, and none besides; the call of a       *)
(* reranking provider is the only one without.  Only the death of the      *)
(* process and errors outside the gateway's own lose rows.                 *)
LedgerIsComplete ==
  \A q \in Query :
    /\ ledger[q] + ask[q].reranks <= calls[q]
    /\ ask[q].step \in Ended \ {"lost"} => ledger[q] + ask[q].reranks = calls[q]

(* An answer that went out has its row, which names the route and the      *)
(* evidence it was given with; and unless writing the signals failed, it   *)
(* left its citations, and a knowledge gap exactly when its evidence was   *)
(* insufficient.  Nothing that is cited is a gap, and what administrators  *)
(* triage is a gap of a query that was recorded with insufficient evidence *)
(* (query and the endpoint's signals).                                     *)
AnswersAreAccounted ==
  \A q \in Query :
    /\ ask[q].step = "answered" =>
         queryRow[q] = [route |-> ask[q].route, evidence |-> ask[q].evidence]
    /\ ask[q].step = "answered" /\ ~ask[q].signalsLost =>
         /\ q \in cited <=> ask[q].citations
         /\ gap[q] # "none" <=> ask[q].evidence = "insufficient"
    /\ q \in cited => queryRow[q].evidence = "sufficient"
    /\ gap[q] # "none" => queryRow[q].evidence = "insufficient"
=============================================================================
