--------------------------- MODULE Answering_proofs ---------------------------
(***************************************************************************)
(* Theorems of AnswerService, AnswerFeedback and QueryQuota, for any       *)
(* queries, models, submissions, comments, askers, calls and bounds; and   *)
(* the types of all parts of the query side in one behaviour.              *)
(***************************************************************************)
EXTENDS MCAnswering, Access_proofs, FiniteSetTheorems, TLAPS

(***************************************************************************)
(* The answer pipeline.                                                    *)
(***************************************************************************)
-----------------------------------------------------------------------------
(* What a step of a call leaves in its locals.                             *)

LEMMA GoesType ==
  ASSUME AnswerTypeOK, NEW q \in Query, NEW local \in Ask, AskGoesTo(q, local)
  PROVE  /\ ask' \in [Query -> Ask]
         /\ ask'[q] = local
         /\ \A p \in Query \ {q} : ask'[p] = ask[p]
BY DEF AnswerTypeOK, AskGoesTo

LEMMA TurnedType ==
  ASSUME NEW old \in Ask, NEW step \in AskStep
  PROVE  LET new == [old EXCEPT !.step = step] IN
         /\ new \in Ask /\ new.step = step
         /\ new.evidence = old.evidence /\ new.strategy = old.strategy
         /\ new.route = old.route /\ new.citations = old.citations
         /\ new.attempts = old.attempts /\ new.embeddings = old.embeddings /\ new.reranks = old.reranks
         /\ new.success = old.success /\ new.signalsLost = old.signalsLost
BY DEF Ask

LEMMA EvidenceType ==
  ASSUME NEW old \in Ask, NEW evidence \in Evidence, NEW citations \in BOOLEAN
  PROVE  LET new == [old EXCEPT !.evidence = evidence, !.citations = citations,
                                !.step = "strategy"] IN
         /\ new \in Ask /\ new.step = "strategy"
         /\ new.evidence = evidence /\ new.citations = citations
         /\ new.attempts = old.attempts /\ new.embeddings = old.embeddings /\ new.reranks = old.reranks
         /\ new.signalsLost = old.signalsLost
BY DEF Ask, AskStep

LEMMA EmbeddedType ==
  ASSUME NEW old \in Ask, NEW n \in 0..1
  PROVE  LET new == [old EXCEPT !.embeddings = n, !.step = "embedded"] IN
         /\ new \in Ask /\ new.step = "embedded"
         /\ new.evidence = old.evidence /\ new.citations = old.citations
         /\ new.attempts = old.attempts /\ new.embeddings = n /\ new.reranks = old.reranks
         /\ new.signalsLost = old.signalsLost
BY DEF Ask, AskStep

LEMMA RerankedType ==
  ASSUME NEW old \in Ask, NEW n \in 0..1
  PROVE  LET new == [old EXCEPT !.evidence = "sufficient", !.citations = TRUE,
                                !.reranks = n, !.step = "strategy"] IN
         /\ new \in Ask /\ new.step = "strategy"
         /\ new.evidence = "sufficient" /\ new.citations = TRUE
         /\ new.attempts = old.attempts /\ new.embeddings = old.embeddings
         /\ new.reranks = n /\ new.signalsLost = old.signalsLost
BY DEF Ask, AskStep, Evidence

LEMMA StrategyType ==
  ASSUME NEW old \in Ask, NEW strategy \in Strategy
  PROVE  LET new == [old EXCEPT !.strategy = strategy, !.step = "select"] IN
         /\ new \in Ask /\ new.step = "select"
         /\ new.evidence = old.evidence /\ new.citations = old.citations
         /\ new.attempts = old.attempts /\ new.embeddings = old.embeddings /\ new.reranks = old.reranks
         /\ new.signalsLost = old.signalsLost
BY DEF Ask, AskStep

LEMMA RoutedType ==
  ASSUME NEW old \in Ask, NEW route \in Route
  PROVE  LET new == [old EXCEPT !.route = route, !.step = "route"] IN
         /\ new \in Ask /\ new.step = "route"
         /\ new.evidence = old.evidence /\ new.citations = old.citations
         /\ new.attempts = old.attempts /\ new.embeddings = old.embeddings /\ new.reranks = old.reranks
         /\ new.signalsLost = old.signalsLost
BY DEF Ask, AskStep

LEMMA TriedType ==
  ASSUME NEW old \in Ask, NEW tried \in 0..(MaxRetries + 1)
  PROVE  LET done == [old EXCEPT !.attempts = tried, !.success = TRUE, !.step = "attempted"]
             given == [old EXCEPT !.attempts = tried, !.step = "attempted"]
             again == [old EXCEPT !.attempts = tried] IN
         /\ done \in Ask /\ done.step = "attempted" /\ done.attempts = tried
         /\ given \in Ask /\ given.step = "attempted" /\ given.attempts = tried
         /\ again \in Ask /\ again.step = old.step /\ again.attempts = tried
         /\ done.embeddings = old.embeddings /\ given.embeddings = old.embeddings
         /\ again.embeddings = old.embeddings
         /\ done.reranks = old.reranks /\ given.reranks = old.reranks
         /\ again.reranks = old.reranks
         /\ done.route = old.route /\ given.route = old.route /\ again.route = old.route
         /\ done.evidence = old.evidence /\ given.evidence = old.evidence
         /\ again.evidence = old.evidence
         /\ done.citations = old.citations /\ given.citations = old.citations
         /\ again.citations = old.citations
         /\ done.signalsLost = old.signalsLost /\ given.signalsLost = old.signalsLost
         /\ again.signalsLost = old.signalsLost
BY DEF Ask, AskStep

LEMMA SignalsLostType ==
  ASSUME NEW old \in Ask
  PROVE  LET new == [old EXCEPT !.signalsLost = TRUE, !.step = "answered"] IN
         /\ new \in Ask /\ new.step = "answered" /\ new.signalsLost = TRUE
         /\ new.evidence = old.evidence /\ new.citations = old.citations
         /\ new.attempts = old.attempts /\ new.embeddings = old.embeddings /\ new.reranks = old.reranks
         /\ new.route = old.route
BY DEF Ask, AskStep

-----------------------------------------------------------------------------
(* What a call has left on the ledger.                                     *)

Ledgered(q) ==
  /\ calls[q] = ask[q].embeddings + ask[q].attempts + ask[q].reranks
  /\ ledger[q] <= ask[q].embeddings + ask[q].attempts
  /\ ask[q].step \in {"record", "retrieve"} => calls[q] = 0
  /\ ask[q].step = "embedded" => ledger[q] = 0 /\ ask[q].attempts = 0
  /\ ask[q].step \in {"embedded", "search", "rerank"} => ask[q].reranks = 0
  /\ ask[q].step \in {"search", "rerank", "strategy", "select", "route"} =>
       ledger[q] = ask[q].embeddings /\ ask[q].attempts = 0
  /\ ask[q].step \in {"call", "attempted"} => ledger[q] = ask[q].embeddings
  /\ ask[q].step = "call" => ask[q].attempts <= MaxRetries
  /\ ask[q].step \in {"citations", "gap", "answered", "refused", "failed"} =>
       ledger[q] + ask[q].reranks = calls[q]

LedgerInv == AnswerTypeOK /\ \A q \in Query : Ledgered(q)

(* The counters of q, as numbers.                                          *)
LEMMA Counters ==
  ASSUME LedgerInv, NEW q \in Query
  PROVE  /\ ask[q] \in Ask /\ ask[q].attempts \in 0..(MaxRetries + 1)
         /\ ask[q].embeddings \in 0..1 /\ ask[q].reranks \in 0..1
         /\ ledger[q] \in 0..(MaxRetries + 2) /\ calls[q] \in 0..(MaxRetries + 3)
         /\ Ledgered(q)
BY DEF LedgerInv, AnswerTypeOK, Ask

(* It is enough to look at the call that moves.                            *)
LEMMA LedgerInvStep ==
  ASSUME LedgerInv, NEW q \in Query, NEW local \in Ask, AskGoesTo(q, local),
         NEW n \in 0..(MaxRetries + 2), NEW m \in 0..(MaxRetries + 3),
         ledger' = [ledger EXCEPT ![q] = n], calls' = [calls EXCEPT ![q] = m],
         UNCHANGED configVars,
         queryRow' \in [Query -> [route : {"none", "pending"} \cup Route,
                                  evidence : {"none", "pending"} \cup Evidence]],
         cited' \subseteq Query, gap' \in [Query -> {"none"} \cup GapStatus],
         Ledgered(q)'
  PROVE  LedgerInv'
<1>1. ask' \in [Query -> Ask] /\ \A p \in Query \ {q} : ask'[p] = ask[p]
  BY GoesType DEF LedgerInv
<1>2. /\ ledger' \in [Query -> 0..(MaxRetries + 2)]
      /\ calls' \in [Query -> 0..(MaxRetries + 3)]
      /\ \A p \in Query \ {q} : ledger'[p] = ledger[p] /\ calls'[p] = calls[p]
  BY DEF LedgerInv, AnswerTypeOK
<1>3. \A p \in Query \ {q} : Ledgered(p)'
  BY <1>1, <1>2 DEF LedgerInv, Ledgered
<1> QED BY <1>1, <1>2, <1>3 DEF LedgerInv, AnswerTypeOK, configVars

(* The moves that touch no counter.                                        *)
Moves ==
  {<<"record", "retrieve">>, <<"record", "strategy">>, <<"record", "refused">>,
   <<"retrieve", "search">>, <<"search", "strategy">>, <<"search", "rerank">>,
   <<"strategy", "select">>,
   <<"select", "route">>, <<"select", "refused">>, <<"route", "citations">>,
   <<"route", "call">>, <<"call", "attempted">>, <<"citations", "gap">>,
   <<"citations", "answered">>, <<"gap", "answered">>}

RowsTyped ==
  /\ queryRow \in [Query -> [route : {"none", "pending"} \cup Route,
                             evidence : {"none", "pending"} \cup Evidence]]
  /\ cited \subseteq Query
  /\ gap \in [Query -> {"none"} \cup GapStatus]

LEMMA QuietStep ==
  ASSUME LedgerInv, NEW q \in Query, NEW local \in Ask, AskGoesTo(q, local),
         local.attempts = ask[q].attempts, local.embeddings = ask[q].embeddings,
         local.reranks = ask[q].reranks,
         local.step = "lost" \/ <<ask[q].step, local.step>> \in Moves,
         UNCHANGED <<configVars, ledger, calls>>, RowsTyped'
  PROVE  LedgerInv'
<1>1. ask'[q] = local
  BY GoesType DEF LedgerInv
<1>2. /\ ledger' = [ledger EXCEPT ![q] = ledger[q]]
      /\ calls' = [calls EXCEPT ![q] = calls[q]]
      /\ ledger'[q] = ledger[q] /\ calls'[q] = calls[q]
  BY DEF LedgerInv, AnswerTypeOK
<1>3. /\ ask[q].attempts \in 0..(MaxRetries + 1) /\ ask[q].embeddings \in 0..1
      /\ ask[q].reranks \in 0..1
      /\ ledger[q] \in 0..(MaxRetries + 2) /\ calls[q] \in 0..(MaxRetries + 3)
      /\ Ledgered(q)
  BY Counters
<1>4. Ledgered(q)'
  <2> DEFINE from == ask[q].step
             to == local.step
  <2>1. /\ ask'[q].step = to
        /\ ask'[q].attempts = ask[q].attempts /\ ask'[q].embeddings = ask[q].embeddings
        /\ ask'[q].reranks = ask[q].reranks
    BY <1>1
  <2> HIDE DEF to
  <2>2. CASE to = "lost"
    BY <1>2, <1>3, <2>1, <2>2 DEF Ledgered
  <2>3. CASE <<from, to>> \in Moves
    <3>1. \/ from = "record" /\ to \in {"retrieve", "strategy", "refused"}
          \/ from = "retrieve" /\ to = "search"
          \/ from = "search" /\ to \in {"strategy", "rerank"}
          \/ from = "strategy" /\ to = "select"
          \/ from = "select" /\ to \in {"route", "refused"}
          \/ from = "route" /\ to \in {"citations", "call"}
          \/ from = "call" /\ to = "attempted"
          \/ from \in {"citations", "gap"} /\ to \in {"gap", "answered"}
      BY <2>3 DEF Moves
    <3> QED BY <1>2, <1>3, <2>1, <3>1, AnswerAssumption DEF Ledgered
  <2>4. to = "lost" \/ <<from, to>> \in Moves
    BY DEF to
  <2> QED BY <2>2, <2>3, <2>4
<1> QED BY <1>2, <1>3, <1>4, LedgerInvStep DEF RowsTyped

LEMMA QuietTurn ==
  ASSUME LedgerInv, NEW q \in Query, NEW step \in AskStep, AskTurnsTo(q, step),
         step = "lost" \/ <<ask[q].step, step>> \in Moves,
         UNCHANGED <<configVars, ledger, calls>>, RowsTyped'
  PROVE  LedgerInv'
<1> DEFINE new == [ask[q] EXCEPT !.step = step]
<1>1. ask[q] \in Ask
  BY Counters
<1>2. /\ new \in Ask /\ new.step = step /\ new.embeddings = ask[q].embeddings /\ new.reranks = ask[q].reranks
      /\ new.attempts = ask[q].attempts
  BY <1>1, TurnedType
<1>3. AskGoesTo(q, new)
  BY DEF AskTurnsTo
<1> HIDE DEF new
<1> QED BY <1>2, <1>3, QuietStep

LEMMA QuietEvidence ==
  ASSUME LedgerInv, NEW q \in Query, NEW evidence \in Evidence, NEW citations \in BOOLEAN,
         AskGoesTo(q, [ask[q] EXCEPT !.evidence = evidence, !.citations = citations,
                                     !.step = "strategy"]),
         <<ask[q].step, "strategy">> \in Moves,
         UNCHANGED <<configVars, ledger, calls>>, RowsTyped'
  PROVE  LedgerInv'
<1> DEFINE new == [ask[q] EXCEPT !.evidence = evidence, !.citations = citations,
                                 !.step = "strategy"]
<1>1. ask[q] \in Ask
  BY Counters
<1>2. /\ new \in Ask /\ new.step = "strategy" /\ new.embeddings = ask[q].embeddings /\ new.reranks = ask[q].reranks
      /\ new.attempts = ask[q].attempts
  BY <1>1 DEF Ask, AskStep
<1>3. AskGoesTo(q, new)
  OBVIOUS
<1> HIDE DEF new
<1> QED BY <1>2, <1>3, QuietStep

-----------------------------------------------------------------------------
(* Every action keeps the ledger.                                          *)

LEMMA RecordQueryKeeps ==
  ASSUME LedgerInv, NEW q \in Query, RecordQuery(q)
  PROVE  LedgerInv'
<1>1. ask[q] \in Ask /\ RowsTyped /\ ask[q].step = "record"
  BY Counters DEF LedgerInv, AnswerTypeOK, RowsTyped, RecordQuery, AskingAt
<1>2. UNCHANGED <<configVars, ledger, calls>> /\ UNCHANGED <<cited, gap>>
  BY DEF RecordQuery, signalVars
<1>3. RowsTyped'
  <2> DEFINE pending == [route |-> "pending", evidence |-> "pending"]
  <2>1. pending \in [route : {"none", "pending"} \cup Route,
                     evidence : {"none", "pending"} \cup Evidence]
    OBVIOUS
  <2>2. queryRow' = queryRow \/ queryRow' = [queryRow EXCEPT ![q] = pending]
    BY DEF RecordQuery
  <2> HIDE DEF pending
  <2> QED BY <1>1, <1>2, <2>1, <2>2 DEF RowsTyped
<1>4. ASSUME NEW step \in {"refused", "retrieve"}, AskTurnsTo(q, step)
      PROVE  LedgerInv'
  <2>1. step \in AskStep /\ <<ask[q].step, step>> \in Moves
    BY <1>1 DEF Moves, AskStep
  <2> QED BY <1>2, <1>3, <1>4, <2>1, QuietTurn
<1>5. ASSUME NEW citations \in BOOLEAN,
             AskGoesTo(q, [ask[q] EXCEPT !.evidence = "sufficient",
                                         !.citations = citations, !.step = "strategy"])
      PROVE  LedgerInv'
  <2>1. <<ask[q].step, "strategy">> \in Moves /\ "sufficient" \in Evidence
    BY <1>1 DEF Moves, Evidence
  <2> QED BY <1>2, <1>3, <1>5, <2>1, QuietEvidence
<1> QED BY <1>4, <1>5 DEF RecordQuery

LEMMA EmbedQuestionKeeps ==
  ASSUME LedgerInv, NEW q \in Query, EmbedQuestion(q)
  PROVE  LedgerInv'
<1>1. ask[q] \in Ask /\ RowsTyped /\ ask[q].step = "retrieve"
  BY Counters DEF LedgerInv, AnswerTypeOK, RowsTyped, EmbedQuestion, AskingAt
<1>2. UNCHANGED <<configVars, ledger>> /\ RowsTyped'
  BY <1>1 DEF EmbedQuestion, RowsTyped, signalVars
<1>3. CASE AskTurnsTo(q, "search") /\ UNCHANGED calls
  <2>1. "search" \in AskStep /\ <<ask[q].step, "search">> \in Moves
    BY <1>1 DEF Moves, AskStep
  <2> QED BY <1>2, <1>3, <2>1, QuietTurn
<1>4. ASSUME AskGoesTo(q, [ask[q] EXCEPT !.embeddings = 1, !.step = "embedded"]),
             calls' = [calls EXCEPT ![q] = @ + 1]
      PROVE  LedgerInv'
  <2>1. PICK n \in 0..1 : n = 1
    OBVIOUS
  <2> DEFINE new == [ask[q] EXCEPT !.embeddings = n, !.step = "embedded"]
  <2>2. /\ new \in Ask /\ new.step = "embedded" /\ new.embeddings = n
        /\ new.attempts = ask[q].attempts /\ new.reranks = ask[q].reranks
    BY <1>1, EmbeddedType
  <2>3. AskGoesTo(q, new)
    BY <1>4, <2>1
  <2> HIDE DEF new
  <2>4. /\ calls[q] = 0 /\ ledger[q] = 0 /\ ask[q].attempts = 0 /\ ask[q].reranks = 0
    BY <1>1, Counters DEF Ledgered
  <2>5. /\ ledger' = [ledger EXCEPT ![q] = 0] /\ ledger'[q] = 0
        /\ calls' = [calls EXCEPT ![q] = 1] /\ calls'[q] = 1
    BY <1>2, <1>4, <2>4 DEF LedgerInv, AnswerTypeOK
  <2>6. ask'[q] = new
    BY <2>2, <2>3, GoesType DEF LedgerInv
  <2>7. Ledgered(q)'
    BY <2>1, <2>2, <2>4, <2>5, <2>6 DEF Ledgered
  <2>8. 0 \in 0..(MaxRetries + 2) /\ 1 \in 0..(MaxRetries + 3)
    BY AnswerAssumption
  <2> QED BY <1>2, <2>2, <2>3, <2>5, <2>7, <2>8, LedgerInvStep DEF RowsTyped
<1> QED BY <1>3, <1>4 DEF EmbedQuestion

LEMMA RecordQueryEmbeddingKeeps ==
  ASSUME LedgerInv, NEW q \in Query, RecordQueryEmbedding(q)
  PROVE  LedgerInv'
<1> DEFINE new == [ask[q] EXCEPT !.step = "search"]
<1>1. ask[q] \in Ask /\ RowsTyped /\ ask[q].step = "embedded"
  BY Counters DEF LedgerInv, AnswerTypeOK, RowsTyped, RecordQueryEmbedding, AskingAt
<1>2. UNCHANGED <<configVars, calls>> /\ RowsTyped'
  BY <1>1 DEF RecordQueryEmbedding, RowsTyped, signalVars
<1>3. /\ new \in Ask /\ new.step = "search" /\ new.embeddings = ask[q].embeddings /\ new.reranks = ask[q].reranks
      /\ new.attempts = ask[q].attempts
  BY <1>1, TurnedType, ZenonT(60) DEF AskStep
<1>4. AskGoesTo(q, new)
  BY DEF RecordQueryEmbedding, AskTurnsTo
<1> HIDE DEF new
<1>5. /\ ask[q].embeddings \in 0..1 /\ ask[q].attempts = 0 /\ ledger[q] = 0
      /\ ask[q].reranks = 0 /\ calls[q] = ask[q].embeddings
  BY <1>1, Counters DEF Ledgered
<1>6. ledger' = [ledger EXCEPT ![q] = ask[q].embeddings]
  <2>1. ledger[q] + ask[q].embeddings = ask[q].embeddings
    BY <1>5
  <2>2. ledger' = [ledger EXCEPT ![q] = ledger[q] + ask[q].embeddings]
    BY DEF RecordQueryEmbedding
  <2> QED BY <2>1, <2>2
<1>7. /\ ledger'[q] = ask[q].embeddings /\ calls'[q] = ask[q].embeddings
      /\ calls' = [calls EXCEPT ![q] = ask[q].embeddings]
  BY <1>2, <1>5, <1>6 DEF LedgerInv, AnswerTypeOK
<1>8. ask'[q] = new
  BY <1>3, <1>4, GoesType DEF LedgerInv
<1>9. Ledgered(q)'
  BY <1>3, <1>5, <1>7, <1>8 DEF Ledgered
<1>10. ask[q].embeddings \in 0..(MaxRetries + 2) /\ ask[q].embeddings \in 0..(MaxRetries + 3)
  BY <1>5, AnswerAssumption
<1> QED BY <1>2, <1>3, <1>4, <1>6, <1>7, <1>9, <1>10, LedgerInvStep DEF RowsTyped

LEMMA SearchKnowledgeKeeps ==
  ASSUME LedgerInv, NEW q \in Query, SearchKnowledge(q)
  PROVE  LedgerInv'
<1>1. ask[q] \in Ask /\ RowsTyped /\ ask[q].step = "search"
  BY Counters DEF LedgerInv, AnswerTypeOK, RowsTyped, SearchKnowledge, AskingAt
<1>2. UNCHANGED <<configVars, ledger, calls>> /\ RowsTyped'
  BY <1>1 DEF SearchKnowledge, RowsTyped, rowVars, signalVars
<1>3. CASE AskTurnsTo(q, "rerank")
  <2>1. "rerank" \in AskStep /\ <<ask[q].step, "rerank">> \in Moves
    BY <1>1 DEF Moves, AskStep
  <2> QED BY <1>2, <1>3, <2>1, QuietTurn
<1>4. ASSUME NEW evidence \in Evidence,
             AskGoesTo(q, [ask[q] EXCEPT !.evidence = evidence,
                                         !.citations = (evidence = "sufficient"),
                                         !.step = "strategy"])
      PROVE  LedgerInv'
  <2>1. (evidence = "sufficient") \in BOOLEAN
    OBVIOUS
  <2>2. <<ask[q].step, "strategy">> \in Moves
    BY <1>1 DEF Moves
  <2> QED BY <1>2, <1>4, <2>1, <2>2, QuietEvidence, Zenon
<1> QED BY <1>3, <1>4 DEF SearchKnowledge

LEMMA RerankKeeps ==
  ASSUME LedgerInv, NEW q \in Query, Rerank(q)
  PROVE  LedgerInv'
<1>1. ask[q] \in Ask /\ RowsTyped /\ ask[q].step = "rerank"
  BY Counters DEF LedgerInv, AnswerTypeOK, RowsTyped, Rerank, AskingAt
<1>2. UNCHANGED <<configVars, ledger>> /\ RowsTyped'
  BY <1>1 DEF Rerank, RowsTyped, signalVars
<1>3. PICK n \in 0..1 : n = 1
  OBVIOUS
<1> DEFINE new == [ask[q] EXCEPT !.evidence = "sufficient", !.citations = TRUE,
                                 !.reranks = n, !.step = "strategy"]
<1>4. /\ new \in Ask /\ new.step = "strategy" /\ new.reranks = n
      /\ new.attempts = ask[q].attempts /\ new.embeddings = ask[q].embeddings
  <2>1. ask[q] \in Ask
    BY <1>1
  <2> QED BY <2>1, RerankedType, SMTT(30), ZenonT(60)
<1>5. AskGoesTo(q, new)
  BY <1>3 DEF Rerank
<1> HIDE DEF new
<1>6. /\ ask[q].embeddings \in 0..1 /\ ask[q].attempts = 0 /\ ask[q].reranks = 0
      /\ ledger[q] = ask[q].embeddings /\ calls[q] = ask[q].embeddings
  BY <1>1, Counters DEF Ledgered
<1>7. /\ calls[q] + 1 \in 0..(MaxRetries + 3) /\ ledger[q] \in 0..(MaxRetries + 2)
  BY <1>6, AnswerAssumption
<1>8. /\ ledger' = [ledger EXCEPT ![q] = ledger[q]] /\ ledger'[q] = ledger[q]
      /\ calls' = [calls EXCEPT ![q] = calls[q] + 1] /\ calls'[q] = calls[q] + 1
  BY <1>2 DEF Rerank, LedgerInv, AnswerTypeOK
<1>9. ask'[q] = new
  BY <1>4, <1>5, GoesType DEF LedgerInv
<1>10. Ledgered(q)'
  BY <1>3, <1>4, <1>6, <1>8, <1>9 DEF Ledgered
<1> QED BY <1>2, <1>4, <1>5, <1>7, <1>8, <1>10, LedgerInvStep DEF RowsTyped

LEMMA ReadStrategyKeeps ==
  ASSUME LedgerInv, NEW q \in Query, ReadStrategy(q)
  PROVE  LedgerInv'
<1> DEFINE new == [ask[q] EXCEPT !.strategy = config.strategy, !.step = "select"]
<1>1. /\ ask[q] \in Ask /\ RowsTyped /\ ask[q].step = "strategy"
      /\ config.strategy \in Strategy
  BY Counters DEF LedgerInv, AnswerTypeOK, RowsTyped, ReadStrategy, AskingAt
<1>2. UNCHANGED <<configVars, ledger, calls>> /\ RowsTyped'
  BY <1>1 DEF ReadStrategy, RowsTyped, rowVars, signalVars
<1>3. /\ new \in Ask /\ new.step = "select" /\ new.embeddings = ask[q].embeddings /\ new.reranks = ask[q].reranks
      /\ new.attempts = ask[q].attempts
  BY <1>1, StrategyType
<1>4. AskGoesTo(q, new)
  BY DEF ReadStrategy
<1> HIDE DEF new
<1>5. <<ask[q].step, new.step>> \in Moves
  BY <1>1, <1>3 DEF Moves
<1> QED BY <1>2, <1>3, <1>4, <1>5, QuietStep

LEMMA SelectModelKeeps ==
  ASSUME LedgerInv, NEW q \in Query, SelectModel(q)
  PROVE  LedgerInv'
<1>1. ask[q] \in Ask /\ RowsTyped /\ ask[q].step = "select" /\ config.mode \in Mode
  BY Counters DEF LedgerInv, AnswerTypeOK, RowsTyped, SelectModel, AskingAt
<1>2. UNCHANGED <<configVars, ledger, calls>> /\ RowsTyped'
  BY <1>1 DEF SelectModel, RowsTyped, rowVars, signalVars
<1>3. CASE AskTurnsTo(q, "refused")
  <2>1. "refused" \in AskStep /\ <<ask[q].step, "refused">> \in Moves
    BY <1>1 DEF Moves, AskStep
  <2> QED BY <1>2, <1>3, <2>1, QuietTurn
<1>4. ASSUME NEW route \in Route,
             AskGoesTo(q, [ask[q] EXCEPT !.route = route, !.step = "route"])
      PROVE  LedgerInv'
  <2> DEFINE new == [ask[q] EXCEPT !.route = route, !.step = "route"]
  <2>1. /\ new \in Ask /\ new.step = "route" /\ new.embeddings = ask[q].embeddings /\ new.reranks = ask[q].reranks
        /\ new.attempts = ask[q].attempts
    BY <1>1, RoutedType
  <2>2. AskGoesTo(q, new)
    BY <1>4
  <2> HIDE DEF new
  <2>3. <<ask[q].step, new.step>> \in Moves
    BY <1>1, <2>1 DEF Moves
  <2> QED BY <1>2, <2>1, <2>2, <2>3, QuietStep
<1>5. \/ AskTurnsTo(q, "refused")
      \/ \E route \in Route :
           AskGoesTo(q, [ask[q] EXCEPT !.route = route, !.step = "route"])
  BY <1>1 DEF SelectModel, Mode, Route
<1> QED BY <1>3, <1>4, <1>5

LEMMA UpdateQueryRouteKeeps ==
  ASSUME LedgerInv, NEW q \in Query, UpdateQueryRoute(q)
  PROVE  LedgerInv'
<1>1. ask[q] \in Ask /\ RowsTyped /\ ask[q].step = "route"
  BY Counters DEF LedgerInv, AnswerTypeOK, RowsTyped, UpdateQueryRoute, AskingAt
<1>2. UNCHANGED <<configVars, ledger, calls>> /\ UNCHANGED <<cited, gap>>
  BY DEF UpdateQueryRoute, signalVars
<1>3. RowsTyped'
  <2> DEFINE row == [route |-> ask[q].route, evidence |-> ask[q].evidence]
  <2>1. row \in [route : {"none", "pending"} \cup Route,
                 evidence : {"none", "pending"} \cup Evidence]
    BY <1>1 DEF Ask
  <2>2. queryRow' = [queryRow EXCEPT ![q] = row]
    BY DEF UpdateQueryRoute
  <2> HIDE DEF row
  <2> QED BY <1>1, <1>2, <2>1, <2>2 DEF RowsTyped
<1>4. PICK step \in {"citations", "call"} : AskTurnsTo(q, step)
  BY DEF UpdateQueryRoute
<1>5. step \in AskStep /\ <<ask[q].step, step>> \in Moves
  BY <1>1 DEF Moves, AskStep
<1> QED BY <1>2, <1>3, <1>4, <1>5, QuietTurn

LEMMA CallModelKeeps ==
  ASSUME LedgerInv, NEW q \in Query, CallModel(q)
  PROVE  LedgerInv'
<1>1. ask[q] \in Ask /\ RowsTyped /\ ask[q].step = "call"
  BY Counters DEF LedgerInv, AnswerTypeOK, RowsTyped, CallModel, AskingAt
<1>2. UNCHANGED <<configVars, ledger>> /\ RowsTyped'
  BY <1>1 DEF CallModel, RowsTyped, signalVars
<1>3. CASE AskTurnsTo(q, "attempted") /\ UNCHANGED calls
  <2>1. "attempted" \in AskStep /\ <<ask[q].step, "attempted">> \in Moves
    BY <1>1 DEF Moves, AskStep
  <2> QED BY <1>2, <1>3, <2>1, QuietTurn
<1> DEFINE tried == ask[q].attempts + 1
<1>4. /\ ask[q].attempts \in 0..MaxRetries /\ ask[q].embeddings \in 0..1
      /\ ask[q].reranks \in 0..1
      /\ calls[q] = ask[q].embeddings + ask[q].attempts + ask[q].reranks
      /\ ledger[q] = ask[q].embeddings /\ MaxRetries \in Nat
  BY <1>1, Counters, AnswerAssumption DEF Ledgered
<1>5. /\ tried \in 0..(MaxRetries + 1)
      /\ calls[q] + 1 = ask[q].embeddings + tried + ask[q].reranks
      /\ calls[q] + 1 \in 0..(MaxRetries + 3) /\ ledger[q] \in 0..(MaxRetries + 2)
  BY <1>4
<1>6. ASSUME NEW local \in Ask, AskGoesTo(q, local), local.attempts = tried,
             local.embeddings = ask[q].embeddings, local.reranks = ask[q].reranks,
             \/ local.step = "attempted"
             \/ local.step = "call" /\ tried <= MaxRetries,
             calls' = [calls EXCEPT ![q] = @ + 1]
      PROVE  LedgerInv'
  <2>1. /\ ledger' = [ledger EXCEPT ![q] = ledger[q]] /\ ledger'[q] = ledger[q]
        /\ calls' = [calls EXCEPT ![q] = calls[q] + 1] /\ calls'[q] = calls[q] + 1
    BY <1>2, <1>6 DEF LedgerInv, AnswerTypeOK
  <2>2. ask'[q] = local
    BY <1>6, GoesType DEF LedgerInv
  <2> HIDE DEF tried
  <2>3. Ledgered(q)'
    BY <1>4, <1>5, <1>6, <2>1, <2>2 DEF Ledgered
  <2> QED BY <1>2, <1>5, <1>6, <2>1, <2>3, LedgerInvStep DEF RowsTyped
<1> DEFINE done == [ask[q] EXCEPT !.attempts = tried, !.success = TRUE, !.step = "attempted"]
           given == [ask[q] EXCEPT !.attempts = tried, !.step = "attempted"]
           again == [ask[q] EXCEPT !.attempts = tried]
<1>7. /\ done \in Ask /\ done.step = "attempted" /\ done.attempts = tried
      /\ given \in Ask /\ given.step = "attempted" /\ given.attempts = tried
      /\ again \in Ask /\ again.step = "call" /\ again.attempts = tried
      /\ done.embeddings = ask[q].embeddings /\ given.embeddings = ask[q].embeddings
      /\ again.embeddings = ask[q].embeddings
      /\ done.reranks = ask[q].reranks /\ given.reranks = ask[q].reranks
      /\ again.reranks = ask[q].reranks
  <2>1. PICK n \in 0..(MaxRetries + 1) : n = tried
    BY <1>5
  <2> HIDE DEF tried
  <2>2. /\ done \in Ask /\ done.step = "attempted" /\ done.attempts = tried
        /\ done.embeddings = ask[q].embeddings /\ done.reranks = ask[q].reranks
    BY <1>1, <2>1, TriedType, ZenonT(60)
  <2>3. /\ given \in Ask /\ given.step = "attempted" /\ given.attempts = tried
        /\ given.embeddings = ask[q].embeddings /\ given.reranks = ask[q].reranks
    BY <1>1, <2>1, TriedType, ZenonT(60)
  <2>4. /\ again \in Ask /\ again.step = "call" /\ again.attempts = tried
        /\ again.embeddings = ask[q].embeddings /\ again.reranks = ask[q].reranks
    BY <1>1, <2>1, TriedType, ZenonT(60)
  <2> QED BY <2>2, <2>3, <2>4
<1>8. \/ AskTurnsTo(q, "attempted") /\ UNCHANGED calls
      \/ /\ calls' = [calls EXCEPT ![q] = @ + 1]
         /\ \/ AskGoesTo(q, done)
            \/ AskGoesTo(q, given)
            \/ tried <= MaxRetries /\ AskGoesTo(q, again)
  BY DEF CallModel, RetriesLeft
<1> HIDE DEF done, given, again, tried
<1> QED BY <1>3, <1>6, <1>7, <1>8

LEMMA RecordModelAttemptsKeeps ==
  ASSUME LedgerInv, NEW q \in Query, RecordModelAttempts(q)
  PROVE  LedgerInv'
<1>1. ask[q] \in Ask /\ RowsTyped /\ ask[q].step = "attempted"
  BY Counters DEF LedgerInv, AnswerTypeOK, RowsTyped, RecordModelAttempts, AskingAt
<1>2. UNCHANGED <<configVars, calls>> /\ RowsTyped'
  BY <1>1 DEF RecordModelAttempts, RowsTyped, signalVars
<1>3. PICK step \in {"citations", "failed"} : AskTurnsTo(q, step)
  BY DEF RecordModelAttempts
<1> DEFINE new == [ask[q] EXCEPT !.step = step]
<1>4. /\ new \in Ask /\ new.step = step /\ new.embeddings = ask[q].embeddings /\ new.reranks = ask[q].reranks
      /\ new.attempts = ask[q].attempts
  <2>1. step \in AskStep
    BY DEF AskStep
  <2> QED BY <1>1, <2>1, TurnedType
<1>5. AskGoesTo(q, new)
  BY <1>3 DEF AskTurnsTo
<1> HIDE DEF new
<1> DEFINE rows == ledger[q] + ask[q].attempts
<1>6. /\ calls[q] \in 0..(MaxRetries + 3) /\ rows \in 0..(MaxRetries + 2)
      /\ rows = ask[q].embeddings + ask[q].attempts
      /\ rows + ask[q].reranks = calls[q]
      /\ calls[q] = ask[q].embeddings + ask[q].attempts + ask[q].reranks
  BY <1>1, Counters, AnswerAssumption DEF Ledgered
<1>7. ledger' = [ledger EXCEPT ![q] = rows]
  BY DEF RecordModelAttempts, AttemptRows
<1> HIDE DEF rows
<1>8. /\ ledger'[q] = rows /\ calls'[q] = calls[q]
      /\ calls' = [calls EXCEPT ![q] = calls[q]]
  BY <1>2, <1>7 DEF LedgerInv, AnswerTypeOK
<1>9. ask'[q] = new
  BY <1>4, <1>5, GoesType DEF LedgerInv
<1>10. Ledgered(q)'
  BY <1>3, <1>4, <1>6, <1>8, <1>9, Counters DEF Ledgered
<1> QED BY <1>2, <1>4, <1>5, <1>6, <1>7, <1>8, <1>10, LedgerInvStep DEF RowsTyped

LEMMA PersistFailsKeeps ==
  ASSUME LedgerInv, NEW q \in Query, ask[q].step \in {"citations", "gap"}, PersistFails(q),
         UNCHANGED <<configVars, queryRow, ledger, calls>>
  PROVE  LedgerInv'
<1> DEFINE new == [ask[q] EXCEPT !.signalsLost = TRUE, !.step = "answered"]
<1>1. ask[q] \in Ask /\ RowsTyped
  BY Counters DEF LedgerInv, AnswerTypeOK, RowsTyped
<1>2. UNCHANGED <<configVars, ledger, calls>> /\ RowsTyped'
  BY <1>1 DEF PersistFails, RowsTyped, signalVars
<1>3. /\ new \in Ask /\ new.step = "answered" /\ new.embeddings = ask[q].embeddings /\ new.reranks = ask[q].reranks
      /\ new.attempts = ask[q].attempts
  BY <1>1, SignalsLostType
<1>4. AskGoesTo(q, new)
  BY DEF PersistFails
<1> HIDE DEF new
<1>5. <<ask[q].step, new.step>> \in Moves
  BY <1>3 DEF Moves
<1> QED BY <1>2, <1>3, <1>4, <1>5, QuietStep

LEMMA RecordCitationsKeeps ==
  ASSUME LedgerInv, NEW q \in Query, RecordCitations(q)
  PROVE  LedgerInv'
<1>1. ask[q] \in Ask /\ RowsTyped /\ ask[q].step = "citations"
  BY Counters DEF LedgerInv, AnswerTypeOK, RowsTyped, RecordCitations, AskingAt
<1>2. UNCHANGED <<configVars, queryRow, ledger, calls>>
  BY DEF RecordCitations
<1>3. CASE PersistFails(q)
  BY <1>1, <1>2, <1>3, PersistFailsKeeps
<1>4. ASSUME cited' \subseteq cited \cup {q}, AskTurnsTo(q, AfterCitations(q)), UNCHANGED gap
      PROVE  LedgerInv'
  <2>1. RowsTyped'
    BY <1>1, <1>2, <1>4 DEF RowsTyped
  <2>2. PICK step \in {"gap", "answered"} : step = AfterCitations(q)
    BY DEF AfterCitations
  <2>3. step \in AskStep /\ <<ask[q].step, step>> \in Moves
    BY <1>1 DEF Moves, AskStep
  <2> QED BY <1>2, <1>4, <2>1, <2>2, <2>3, QuietTurn
<1> QED BY <1>3, <1>4 DEF RecordCitations

LEMMA RegisterKnowledgeGapKeeps ==
  ASSUME LedgerInv, NEW q \in Query, RegisterKnowledgeGap(q)
  PROVE  LedgerInv'
<1>1. ask[q] \in Ask /\ RowsTyped /\ ask[q].step = "gap"
  BY Counters DEF LedgerInv, AnswerTypeOK, RowsTyped, RegisterKnowledgeGap, AskingAt
<1>2. UNCHANGED <<configVars, queryRow, ledger, calls>>
  BY DEF RegisterKnowledgeGap
<1>3. CASE PersistFails(q)
  BY <1>1, <1>2, <1>3, PersistFailsKeeps
<1>4. ASSUME gap' = [gap EXCEPT ![q] = "open"], AskTurnsTo(q, "answered"), UNCHANGED cited
      PROVE  LedgerInv'
  <2>1. RowsTyped'
    BY <1>1, <1>2, <1>4 DEF RowsTyped, GapStatus
  <2>2. "answered" \in AskStep /\ <<ask[q].step, "answered">> \in Moves
    BY <1>1 DEF Moves, AskStep
  <2> QED BY <1>2, <1>4, <2>1, <2>2, QuietTurn
<1> QED BY <1>3, <1>4 DEF RegisterKnowledgeGap

LEMMA LoseQueryKeeps ==
  ASSUME LedgerInv, NEW q \in Query, LoseQuery(q)
  PROVE  LedgerInv'
<1>1. RowsTyped
  BY DEF LedgerInv, AnswerTypeOK, RowsTyped
<1>2. UNCHANGED <<configVars, ledger, calls>> /\ RowsTyped'
  BY <1>1 DEF LoseQuery, RowsTyped, rowVars, signalVars
<1>3. AskTurnsTo(q, "lost") /\ "lost" \in AskStep
  BY DEF LoseQuery, AskStep
<1> QED BY <1>2, <1>3, QuietTurn

LEMMA AdministrationKeeps ==
  ASSUME LedgerInv, UpdateModelConfig \/ \E q \in Query : TriageKnowledgeGap(q)
  PROVE  LedgerInv'
<1>1. CASE UpdateModelConfig
  <2>1. PICK mode \in ValidatedMode, strategy \in Strategy :
          config' = [mode |-> mode, strategy |-> strategy]
    BY <1>1 DEF UpdateModelConfig, SetRuntimeModelConfig
  <2>2. config' \in [mode : Mode, strategy : Strategy]
    BY <2>1 DEF ValidatedMode, Mode
  <2>3. configChanges' \in 0..MaxConfigChanges
    BY <1>1, AnswerAssumption DEF UpdateModelConfig, LedgerInv, AnswerTypeOK
  <2>4. UNCHANGED <<queryRow, ledger, calls, cited, gap, ask>>
    BY <1>1 DEF UpdateModelConfig, rowVars, signalVars
  <2> QED BY <2>2, <2>3, <2>4 DEF LedgerInv, AnswerTypeOK, Ledgered
<1>2. ASSUME NEW q \in Query, TriageKnowledgeGap(q)
      PROVE  LedgerInv'
  <2>1. gap' \in [Query -> {"none"} \cup GapStatus]
    BY <1>2 DEF TriageKnowledgeGap, ResolveKnowledgeGap, DismissKnowledgeGap, LedgerInv,
                AnswerTypeOK, GapStatus
  <2>2. UNCHANGED <<config, configChanges, queryRow, ledger, calls, cited, ask>>
    BY <1>2 DEF TriageKnowledgeGap, configVars
  <2> QED BY <2>1, <2>2 DEF LedgerInv, AnswerTypeOK, Ledgered
<1> QED BY <1>1, <1>2

LEMMA InitLedgerInv == AnswerInit => LedgerInv
<1> SUFFICES ASSUME AnswerInit PROVE LedgerInv
  OBVIOUS
<1>1. 0 \in 0..(MaxRetries + 1) /\ 0 \in 0..(MaxRetries + 2) /\ 0 \in 0..(MaxRetries + 3) /\ 0 \in 0..MaxConfigChanges
  BY AnswerAssumption
<1>2. NewAsk \in Ask /\ NewAsk.step = "record" /\ NewAsk.attempts = 0
      /\ NewAsk.embeddings = 0 /\ NewAsk.reranks = 0
  BY <1>1 DEF NewAsk, Ask, AskStep
<1>3. NoRow \in [route : {"none", "pending"} \cup Route,
                 evidence : {"none", "pending"} \cup Evidence]
  BY DEF NoRow
<1>4. config \in [mode : Mode, strategy : Strategy]
  BY DEF AnswerInit, Strategy
<1>5. AnswerTypeOK
  BY <1>1, <1>2, <1>3, <1>4 DEF AnswerInit, AnswerTypeOK
<1>6. ASSUME NEW q \in Query
      PROVE  Ledgered(q)
  <2>1. ask[q] = NewAsk /\ calls[q] = 0 /\ ledger[q] = 0
    BY DEF AnswerInit
  <2> QED BY <1>2, <2>1 DEF Ledgered
<1> QED BY <1>5, <1>6 DEF LedgerInv

LEMMA NextLedgerInv == LedgerInv /\ [AnswerNext]_answerVars => LedgerInv'
<1> SUFFICES ASSUME LedgerInv, [AnswerNext]_answerVars PROVE LedgerInv'
  OBVIOUS
<1>1. CASE UNCHANGED answerVars
  BY <1>1 DEF answerVars, LedgerInv, AnswerTypeOK, Ledgered
<1>2. CASE UpdateModelConfig \/ \E q \in Query : TriageKnowledgeGap(q)
  BY <1>2, AdministrationKeeps
<1>3. ASSUME NEW q \in Query, AnswerCall(q)
      PROVE  LedgerInv'
  BY <1>3, RecordQueryKeeps, EmbedQuestionKeeps, RecordQueryEmbeddingKeeps,
     SearchKnowledgeKeeps, RerankKeeps, ReadStrategyKeeps, SelectModelKeeps, UpdateQueryRouteKeeps,
     CallModelKeeps, RecordModelAttemptsKeeps, RecordCitationsKeeps,
     RegisterKnowledgeGapKeeps, LoseQueryKeeps DEF AnswerCall
<1> QED BY <1>1, <1>2, <1>3 DEF AnswerNext

LEMMA LedgerInvInductive == AnswerSpec => []LedgerInv
BY InitLedgerInv, NextLedgerInv, PTL DEF AnswerSpec

-----------------------------------------------------------------------------
(* What a call has left in its row, its citations and its gap.             *)

Unsignalled(q) == q \notin cited /\ gap[q] = "none" /\ ask[q].signalsLost = FALSE

RowWritten(q) == queryRow[q] = [route |-> ask[q].route, evidence |-> ask[q].evidence]

Signalled(q) ==
  /\ ask[q].citations = TRUE => ask[q].evidence = "sufficient"
  /\ ask[q].step \notin {"gap", "answered", "lost"} => Unsignalled(q)
  /\ ask[q].step \in {"call", "attempted", "citations", "gap", "answered"} => RowWritten(q)
  /\ ask[q].step = "gap" =>
       /\ gap[q] = "none" /\ ask[q].evidence = "insufficient"
       /\ ask[q].signalsLost = FALSE
       /\ q \in cited <=> ask[q].citations = TRUE
  /\ ask[q].step = "answered" /\ ask[q].signalsLost = FALSE =>
       /\ q \in cited <=> ask[q].citations = TRUE
       /\ gap[q] # "none" <=> ask[q].evidence = "insufficient"
  /\ q \in cited => queryRow[q].evidence = "sufficient"
  /\ gap[q] # "none" => queryRow[q].evidence = "insufficient"

SignalInv == LedgerInv /\ \A q \in Query : Signalled(q)

(* It is enough to look at the call that moves.                            *)
LEMMA SignalInvStep ==
  ASSUME SignalInv, LedgerInv', NEW q \in Query, NEW local \in Ask, AskGoesTo(q, local),
         \A p \in Query \ {q} : /\ queryRow'[p] = queryRow[p] /\ gap'[p] = gap[p]
                                /\ p \in cited' <=> p \in cited,
         Signalled(q)'
  PROVE  SignalInv'
<1>1. \A p \in Query \ {q} : ask'[p] = ask[p]
  BY GoesType DEF SignalInv, LedgerInv
<1>2. ASSUME NEW p \in Query \ {q} PROVE Signalled(p)'
  <2>1. /\ ask'[p] = ask[p] /\ queryRow'[p] = queryRow[p] /\ gap'[p] = gap[p]
        /\ p \in cited' <=> p \in cited
    BY <1>1
  <2>2. Signalled(p)
    BY DEF SignalInv
  <2> QED BY <2>1, <2>2 DEF Signalled, Unsignalled, RowWritten
<1> QED BY <1>2 DEF SignalInv

(* The moves that touch no row.                                            *)
LEMMA QuietSignals ==
  ASSUME SignalInv, LedgerInv', NEW q \in Query, NEW local \in Ask, AskGoesTo(q, local),
         UNCHANGED <<queryRow, cited, gap>>,
         local.signalsLost = ask[q].signalsLost,
         local.citations = TRUE => local.evidence = "sufficient",
         \/ /\ ask[q].step \notin {"gap", "answered", "lost"}
            /\ local.step \in {"retrieve", "embedded", "search", "rerank", "strategy",
                               "select", "route", "refused", "failed"}
         \/ /\ ask[q].step \in {"call", "attempted"}
            /\ local.step \in {"call", "attempted", "citations"}
            /\ local.route = ask[q].route /\ local.evidence = ask[q].evidence
         \/ local.step = "lost"
  PROVE  SignalInv'
<1>1. ask'[q] = local
  BY GoesType DEF SignalInv, LedgerInv
<1>2. Signalled(q)
  BY DEF SignalInv
<1>3. Signalled(q)'
  BY <1>1, <1>2 DEF Signalled, Unsignalled, RowWritten
<1> QED BY <1>3, SignalInvStep

LEMMA QuietSignalsTurn ==
  ASSUME SignalInv, LedgerInv', NEW q \in Query, NEW step \in AskStep, AskTurnsTo(q, step),
         UNCHANGED <<queryRow, cited, gap>>,
         \/ /\ ask[q].step \notin {"gap", "answered", "lost"}
            /\ step \in {"retrieve", "embedded", "search", "rerank", "strategy", "select",
                         "route", "refused", "failed"}
         \/ /\ ask[q].step \in {"call", "attempted"}
            /\ step \in {"call", "attempted", "citations"}
         \/ step = "lost"
  PROVE  SignalInv'
<1> DEFINE new == [ask[q] EXCEPT !.step = step]
<1>1. ask[q] \in Ask /\ Signalled(q)
  BY Counters DEF SignalInv
<1>2. /\ new \in Ask /\ new.step = step /\ new.signalsLost = ask[q].signalsLost
      /\ new.citations = ask[q].citations /\ new.evidence = ask[q].evidence
      /\ new.route = ask[q].route
  BY <1>1, TurnedType
<1>3. AskGoesTo(q, new)
  BY DEF AskTurnsTo
<1> HIDE DEF new
<1>4. new.citations = TRUE => new.evidence = "sufficient"
  BY <1>1, <1>2 DEF Signalled
<1> QED BY <1>2, <1>3, <1>4, QuietSignals

LEMMA RecordQuerySignals ==
  ASSUME SignalInv, NEW q \in Query, RecordQuery(q)
  PROVE  SignalInv'
<1>1. LedgerInv' /\ ask[q] \in Ask /\ Signalled(q) /\ ask[q].step = "record"
  BY RecordQueryKeeps, Counters DEF SignalInv, RecordQuery, AskingAt
<1>2. UNCHANGED <<cited, gap>>
  BY DEF RecordQuery, signalVars
<1>3. \A p \in Query \ {q} : queryRow'[p] = queryRow[p]
  BY DEF RecordQuery, SignalInv, LedgerInv, AnswerTypeOK
<1>4. ASSUME NEW local \in Ask, AskGoesTo(q, local),
             local.signalsLost = ask[q].signalsLost,
             local.citations = TRUE => local.evidence = "sufficient",
             local.step \in {"retrieve", "strategy", "refused"}
      PROVE  SignalInv'
  <2>1. ask'[q] = local
    BY <1>4, GoesType DEF SignalInv, LedgerInv
  <2>2. Signalled(q)'
    BY <1>1, <1>2, <1>4, <2>1 DEF Signalled, Unsignalled, RowWritten
  <2> QED BY <1>1, <1>2, <1>3, <1>4, <2>2, SignalInvStep
<1>5. ASSUME NEW step \in {"refused", "retrieve"}, AskTurnsTo(q, step)
      PROVE  SignalInv'
  <2> DEFINE new == [ask[q] EXCEPT !.step = step]
  <2>1. step \in AskStep
    BY DEF AskStep
  <2>2. /\ new \in Ask /\ new.step = step /\ new.signalsLost = ask[q].signalsLost
        /\ new.citations = ask[q].citations /\ new.evidence = ask[q].evidence
    BY <1>1, <2>1, TurnedType
  <2>3. AskGoesTo(q, new)
    BY <1>5 DEF AskTurnsTo
  <2> HIDE DEF new
  <2>4. new.citations = TRUE => new.evidence = "sufficient"
    BY <1>1, <2>2 DEF Signalled
  <2> QED BY <1>4, <2>2, <2>3, <2>4
<1>6. ASSUME NEW citations \in BOOLEAN,
             AskGoesTo(q, [ask[q] EXCEPT !.evidence = "sufficient",
                                         !.citations = citations, !.step = "strategy"])
      PROVE  SignalInv'
  <2> DEFINE new == [ask[q] EXCEPT !.evidence = "sufficient",
                                   !.citations = citations, !.step = "strategy"]
  <2>1. /\ new \in Ask /\ new.step = "strategy" /\ new.evidence = "sufficient"
        /\ new.signalsLost = ask[q].signalsLost
    BY <1>1 DEF Ask, AskStep, Evidence
  <2>2. AskGoesTo(q, new)
    BY <1>6
  <2> HIDE DEF new
  <2> QED BY <1>4, <2>1, <2>2
<1> QED BY <1>5, <1>6 DEF RecordQuery

LEMMA EmbeddingSignals ==
  ASSUME SignalInv, NEW q \in Query, EmbedQuestion(q) \/ RecordQueryEmbedding(q)
  PROVE  SignalInv'
<1>1. LedgerInv' /\ ask[q] \in Ask /\ Signalled(q) /\ ask[q].step \in {"retrieve", "embedded"}
  BY EmbedQuestionKeeps, RecordQueryEmbeddingKeeps, Counters
     DEF SignalInv, EmbedQuestion, RecordQueryEmbedding, AskingAt
<1>2. UNCHANGED <<queryRow, cited, gap>>
  BY DEF EmbedQuestion, RecordQueryEmbedding, signalVars
<1>3. CASE AskTurnsTo(q, "search")
  <2>1. "search" \in AskStep
    BY DEF AskStep
  <2> QED BY <1>1, <1>2, <1>3, <2>1, QuietSignalsTurn
<1>4. CASE AskGoesTo(q, [ask[q] EXCEPT !.embeddings = 1, !.step = "embedded"])
  <2>1. PICK n \in 0..1 : n = 1
    OBVIOUS
  <2> DEFINE new == [ask[q] EXCEPT !.embeddings = n, !.step = "embedded"]
  <2>2. /\ new \in Ask /\ new.step = "embedded" /\ new.signalsLost = ask[q].signalsLost
        /\ new.citations = ask[q].citations /\ new.evidence = ask[q].evidence
    BY <1>1, EmbeddedType
  <2>3. AskGoesTo(q, new)
    BY <1>4, <2>1
  <2> HIDE DEF new
  <2>4. new.citations = TRUE => new.evidence = "sufficient"
    BY <1>1, <2>2 DEF Signalled
  <2> QED BY <1>1, <1>2, <2>2, <2>3, <2>4, QuietSignals
<1> QED BY <1>3, <1>4 DEF EmbedQuestion, RecordQueryEmbedding

LEMMA SearchSignals ==
  ASSUME SignalInv, NEW q \in Query, SearchKnowledge(q)
  PROVE  SignalInv'
<1>1. LedgerInv' /\ ask[q] \in Ask /\ ask[q].step = "search"
  BY SearchKnowledgeKeeps, Counters DEF SignalInv, SearchKnowledge, AskingAt
<1>2. UNCHANGED <<queryRow, cited, gap>>
  BY DEF SearchKnowledge, rowVars, signalVars
<1>3. CASE AskTurnsTo(q, "rerank")
  <2>1. "rerank" \in AskStep
    BY DEF AskStep
  <2> QED BY <1>1, <1>2, <1>3, <2>1, QuietSignalsTurn
<1>4. ASSUME NEW evidence \in Evidence,
             AskGoesTo(q, [ask[q] EXCEPT !.evidence = evidence,
                                         !.citations = (evidence = "sufficient"),
                                         !.step = "strategy"])
      PROVE  SignalInv'
  <2> DEFINE new == [ask[q] EXCEPT !.evidence = evidence,
                                   !.citations = (evidence = "sufficient"),
                                   !.step = "strategy"]
  <2>1. /\ new \in Ask /\ new.step = "strategy" /\ new.evidence = evidence
        /\ new.signalsLost = ask[q].signalsLost
    BY <1>1 DEF Ask, AskStep
  <2>2. new.citations = TRUE => new.evidence = "sufficient"
    BY <1>1, <2>1 DEF Ask
  <2>3. AskGoesTo(q, new)
    BY <1>4
  <2> HIDE DEF new
  <2> QED BY <1>1, <1>2, <2>1, <2>2, <2>3, QuietSignals
<1> QED BY <1>3, <1>4 DEF SearchKnowledge

LEMMA RerankSignals ==
  ASSUME SignalInv, NEW q \in Query, Rerank(q)
  PROVE  SignalInv'
<1>1. LedgerInv' /\ ask[q] \in Ask /\ ask[q].step = "rerank"
  BY RerankKeeps, Counters DEF SignalInv, Rerank, AskingAt
<1>2. UNCHANGED <<queryRow, cited, gap>>
  BY DEF Rerank, signalVars
<1>3. PICK n \in 0..1 : n = 1
  OBVIOUS
<1> DEFINE new == [ask[q] EXCEPT !.evidence = "sufficient", !.citations = TRUE,
                                 !.reranks = n, !.step = "strategy"]
<1>4. /\ new \in Ask /\ new.step = "strategy" /\ new.evidence = "sufficient"
      /\ new.signalsLost = ask[q].signalsLost
  <2>1. ask[q] \in Ask
    BY <1>1
  <2> QED BY <2>1, RerankedType, SMTT(30), ZenonT(60)
<1>5. new.citations = TRUE => new.evidence = "sufficient"
  BY <1>4
<1>6. AskGoesTo(q, new)
  BY <1>3 DEF Rerank
<1> HIDE DEF new
<1> QED BY <1>1, <1>2, <1>4, <1>5, <1>6, QuietSignals

LEMMA ReadStrategySignals ==
  ASSUME SignalInv, NEW q \in Query, ReadStrategy(q)
  PROVE  SignalInv'
<1> DEFINE new == [ask[q] EXCEPT !.strategy = config.strategy, !.step = "select"]
<1>1. /\ LedgerInv' /\ ask[q] \in Ask /\ Signalled(q) /\ ask[q].step = "strategy"
      /\ config.strategy \in Strategy
  BY ReadStrategyKeeps, Counters DEF SignalInv, LedgerInv, AnswerTypeOK, ReadStrategy, AskingAt
<1>2. UNCHANGED <<queryRow, cited, gap>>
  BY DEF ReadStrategy, rowVars, signalVars
<1>3. /\ new \in Ask /\ new.step = "select" /\ new.signalsLost = ask[q].signalsLost
      /\ new.citations = ask[q].citations /\ new.evidence = ask[q].evidence
  BY <1>1, StrategyType
<1>4. AskGoesTo(q, new)
  BY DEF ReadStrategy
<1> HIDE DEF new
<1>5. new.citations = TRUE => new.evidence = "sufficient"
  BY <1>1, <1>3 DEF Signalled
<1> QED BY <1>1, <1>2, <1>3, <1>4, <1>5, QuietSignals

LEMMA SelectModelSignals ==
  ASSUME SignalInv, NEW q \in Query, SelectModel(q)
  PROVE  SignalInv'
<1>1. /\ LedgerInv' /\ ask[q] \in Ask /\ Signalled(q) /\ ask[q].step = "select"
      /\ config.mode \in Mode
  BY SelectModelKeeps, Counters DEF SignalInv, LedgerInv, AnswerTypeOK, SelectModel, AskingAt
<1>2. UNCHANGED <<queryRow, cited, gap>>
  BY DEF SelectModel, rowVars, signalVars
<1>3. CASE AskTurnsTo(q, "refused")
  <2>1. "refused" \in AskStep
    BY DEF AskStep
  <2> QED BY <1>1, <1>2, <1>3, <2>1, QuietSignalsTurn
<1>4. ASSUME NEW route \in Route,
             AskGoesTo(q, [ask[q] EXCEPT !.route = route, !.step = "route"])
      PROVE  SignalInv'
  <2> DEFINE new == [ask[q] EXCEPT !.route = route, !.step = "route"]
  <2>1. /\ new \in Ask /\ new.step = "route" /\ new.signalsLost = ask[q].signalsLost
        /\ new.citations = ask[q].citations /\ new.evidence = ask[q].evidence
    BY <1>1, RoutedType
  <2>2. AskGoesTo(q, new)
    BY <1>4
  <2> HIDE DEF new
  <2>3. new.citations = TRUE => new.evidence = "sufficient"
    BY <1>1, <2>1 DEF Signalled
  <2> QED BY <1>1, <1>2, <2>1, <2>2, <2>3, QuietSignals
<1>5. \/ AskTurnsTo(q, "refused")
      \/ \E route \in Route :
           AskGoesTo(q, [ask[q] EXCEPT !.route = route, !.step = "route"])
  BY <1>1 DEF SelectModel, Mode, Route
<1> QED BY <1>3, <1>4, <1>5

LEMMA UpdateQueryRouteSignals ==
  ASSUME SignalInv, NEW q \in Query, UpdateQueryRoute(q)
  PROVE  SignalInv'
<1>1. LedgerInv' /\ ask[q] \in Ask /\ Signalled(q) /\ ask[q].step = "route"
  BY UpdateQueryRouteKeeps, Counters DEF SignalInv, UpdateQueryRoute, AskingAt
<1>2. UNCHANGED <<cited, gap>>
  BY DEF UpdateQueryRoute, signalVars
<1>3. /\ \A p \in Query \ {q} : queryRow'[p] = queryRow[p]
      /\ queryRow'[q] = [route |-> ask[q].route, evidence |-> ask[q].evidence]
  BY DEF UpdateQueryRoute, SignalInv, LedgerInv, AnswerTypeOK
<1>4. PICK step \in {"citations", "call"} : AskTurnsTo(q, step)
  BY DEF UpdateQueryRoute
<1> DEFINE new == [ask[q] EXCEPT !.step = step]
<1>5. /\ new \in Ask /\ new.step = step /\ new.signalsLost = ask[q].signalsLost
      /\ new.citations = ask[q].citations /\ new.evidence = ask[q].evidence
      /\ new.route = ask[q].route
  <2>1. step \in AskStep
    BY DEF AskStep
  <2> QED BY <1>1, <2>1, TurnedType
<1>6. AskGoesTo(q, new)
  BY <1>4 DEF AskTurnsTo
<1> HIDE DEF new
<1>7. ask'[q] = new
  BY <1>5, <1>6, GoesType DEF SignalInv, LedgerInv
<1>8. Signalled(q)'
  BY <1>1, <1>2, <1>3, <1>5, <1>7, SMTT(30) DEF Signalled, Unsignalled, RowWritten
<1> QED BY <1>1, <1>2, <1>3, <1>5, <1>6, <1>8, SignalInvStep

LEMMA CallModelSignals ==
  ASSUME SignalInv, NEW q \in Query, CallModel(q)
  PROVE  SignalInv'
<1>1. /\ LedgerInv' /\ ask[q] \in Ask /\ Signalled(q) /\ ask[q].step = "call"
  BY CallModelKeeps, Counters DEF SignalInv, CallModel, AskingAt
<1>2. UNCHANGED <<queryRow, cited, gap>>
  BY DEF CallModel, signalVars
<1>3. CASE AskTurnsTo(q, "attempted")
  <2>1. "attempted" \in AskStep
    BY DEF AskStep
  <2> QED BY <1>1, <1>2, <1>3, <2>1, QuietSignalsTurn
<1>4. PICK tried \in 0..(MaxRetries + 1) : tried = ask[q].attempts + 1
  BY <1>1, Counters, AnswerAssumption DEF SignalInv, Ledgered
<1>5. ASSUME NEW local \in Ask, AskGoesTo(q, local),
             local.step \in {"call", "attempted"}, local.route = ask[q].route,
             local.evidence = ask[q].evidence, local.citations = ask[q].citations,
             local.signalsLost = ask[q].signalsLost
      PROVE  SignalInv'
  <2>1. local.citations = TRUE => local.evidence = "sufficient"
    BY <1>1, <1>5 DEF Signalled
  <2> QED BY <1>1, <1>2, <1>5, <2>1, QuietSignals
<1> DEFINE done == [ask[q] EXCEPT !.attempts = tried, !.success = TRUE, !.step = "attempted"]
           given == [ask[q] EXCEPT !.attempts = tried, !.step = "attempted"]
           again == [ask[q] EXCEPT !.attempts = tried]
<1>6. /\ done \in Ask /\ done.step = "attempted" /\ done.route = ask[q].route
      /\ done.evidence = ask[q].evidence /\ done.citations = ask[q].citations
      /\ done.signalsLost = ask[q].signalsLost
  BY <1>1, TriedType, ZenonT(60)
<1>7. /\ given \in Ask /\ given.step = "attempted" /\ given.route = ask[q].route
      /\ given.evidence = ask[q].evidence /\ given.citations = ask[q].citations
      /\ given.signalsLost = ask[q].signalsLost
  BY <1>1, TriedType, ZenonT(60)
<1>8. /\ again \in Ask /\ again.step = "call" /\ again.route = ask[q].route
      /\ again.evidence = ask[q].evidence /\ again.citations = ask[q].citations
      /\ again.signalsLost = ask[q].signalsLost
  BY <1>1, TriedType, ZenonT(60)
<1>9. \/ AskTurnsTo(q, "attempted")
      \/ AskGoesTo(q, done)
      \/ AskGoesTo(q, given)
      \/ AskGoesTo(q, again)
  BY <1>4 DEF CallModel
<1> HIDE DEF done, given, again
<1> QED BY <1>3, <1>5, <1>6, <1>7, <1>8, <1>9, SMTT(30)

LEMMA RecordModelAttemptsSignals ==
  ASSUME SignalInv, NEW q \in Query, RecordModelAttempts(q)
  PROVE  SignalInv'
<1>1. LedgerInv' /\ ask[q].step = "attempted"
  BY RecordModelAttemptsKeeps DEF SignalInv, RecordModelAttempts, AskingAt
<1>2. UNCHANGED <<queryRow, cited, gap>>
  BY DEF RecordModelAttempts, signalVars
<1>3. PICK step \in {"citations", "failed"} : AskTurnsTo(q, step)
  BY DEF RecordModelAttempts
<1>4. step \in AskStep
  BY DEF AskStep
<1> QED BY <1>1, <1>2, <1>3, <1>4, QuietSignalsTurn

LEMMA PersistFailsSignals ==
  ASSUME SignalInv, LedgerInv', NEW q \in Query, ask[q].step \in {"citations", "gap"},
         PersistFails(q), UNCHANGED queryRow
  PROVE  SignalInv'
<1> DEFINE new == [ask[q] EXCEPT !.signalsLost = TRUE, !.step = "answered"]
<1>1. ask[q] \in Ask /\ Signalled(q)
  BY Counters DEF SignalInv
<1>2. /\ new \in Ask /\ new.step = "answered" /\ new.signalsLost = TRUE
      /\ new.citations = ask[q].citations /\ new.evidence = ask[q].evidence
      /\ new.route = ask[q].route
  BY <1>1, SignalsLostType
<1>3. AskGoesTo(q, new) /\ UNCHANGED <<queryRow, cited, gap>>
  BY DEF PersistFails, signalVars
<1> HIDE DEF new
<1>4. ask'[q] = new
  BY <1>2, <1>3, GoesType DEF SignalInv, LedgerInv
<1>5. Signalled(q)'
  BY <1>1, <1>2, <1>3, <1>4 DEF Signalled, Unsignalled, RowWritten
<1> QED BY <1>2, <1>3, <1>5, SignalInvStep

LEMMA RecordCitationsSignals ==
  ASSUME SignalInv, NEW q \in Query, RecordCitations(q)
  PROVE  SignalInv'
<1>1. LedgerInv' /\ ask[q] \in Ask /\ Signalled(q) /\ ask[q].step = "citations"
  BY RecordCitationsKeeps, Counters DEF SignalInv, RecordCitations, AskingAt
<1>2. UNCHANGED queryRow
  BY DEF RecordCitations
<1>3. CASE PersistFails(q)
  BY <1>1, <1>2, <1>3, PersistFailsSignals
<1>4. ASSUME cited' = IF ask[q].citations THEN cited \cup {q} ELSE cited,
             AskTurnsTo(q, AfterCitations(q)), UNCHANGED gap
      PROVE  SignalInv'
  <2>1. PICK step \in {"gap", "answered"} : /\ step = AfterCitations(q)
                                            /\ step = "gap" <=> ask[q].evidence = "insufficient"
    BY DEF AfterCitations
  <2> DEFINE new == [ask[q] EXCEPT !.step = step]
  <2>2. step \in AskStep
    BY DEF AskStep
  <2>3. /\ new \in Ask /\ new.step = step /\ new.signalsLost = ask[q].signalsLost
        /\ new.citations = ask[q].citations /\ new.evidence = ask[q].evidence
        /\ new.route = ask[q].route
    BY <1>1, <2>2, TurnedType
  <2>4. AskGoesTo(q, new)
    BY <1>4, <2>1 DEF AskTurnsTo
  <2> HIDE DEF new
  <2>5. ask'[q] = new
    BY <2>3, <2>4, GoesType DEF SignalInv, LedgerInv
  <2>6. ask[q].citations \in BOOLEAN
    BY <1>1 DEF Ask
  <2>7. /\ q \in cited' <=> ask[q].citations = TRUE
        /\ \A p \in Query \ {q} : p \in cited' <=> p \in cited
    BY <1>1, <1>4, <2>6 DEF Signalled, Unsignalled
  <2>8. Unsignalled(q) /\ RowWritten(q) /\ (ask[q].citations = TRUE => ask[q].evidence = "sufficient")
    BY <1>1 DEF Signalled
  <2>9. queryRow[q].evidence = ask[q].evidence
    BY <2>8 DEF RowWritten
  <2>10. Signalled(q)'
    BY <1>2, <1>4, <2>1, <2>3, <2>5, <2>7, <2>8, <2>9 DEF Signalled, Unsignalled, RowWritten
  <2> QED BY <1>1, <1>2, <1>4, <2>3, <2>4, <2>7, <2>10, SignalInvStep
<1> QED BY <1>3, <1>4 DEF RecordCitations

LEMMA RegisterKnowledgeGapSignals ==
  ASSUME SignalInv, NEW q \in Query, RegisterKnowledgeGap(q)
  PROVE  SignalInv'
<1>1. LedgerInv' /\ ask[q] \in Ask /\ Signalled(q) /\ ask[q].step = "gap"
  BY RegisterKnowledgeGapKeeps, Counters DEF SignalInv, RegisterKnowledgeGap, AskingAt
<1>2. UNCHANGED queryRow
  BY DEF RegisterKnowledgeGap
<1>3. CASE PersistFails(q)
  BY <1>1, <1>2, <1>3, PersistFailsSignals
<1>4. ASSUME gap' = [gap EXCEPT ![q] = "open"], AskTurnsTo(q, "answered"), UNCHANGED cited
      PROVE  SignalInv'
  <2> DEFINE new == [ask[q] EXCEPT !.step = "answered"]
  <2>1. "answered" \in AskStep
    BY DEF AskStep
  <2>2. /\ new \in Ask /\ new.step = "answered" /\ new.signalsLost = ask[q].signalsLost
        /\ new.citations = ask[q].citations /\ new.evidence = ask[q].evidence
        /\ new.route = ask[q].route
    BY <1>1, <2>1, TurnedType
  <2>3. AskGoesTo(q, new)
    BY <1>4 DEF AskTurnsTo
  <2> HIDE DEF new
  <2>4. ask'[q] = new
    BY <2>2, <2>3, GoesType DEF SignalInv, LedgerInv
  <2>5. gap'[q] = "open" /\ \A p \in Query \ {q} : gap'[p] = gap[p]
    BY <1>4 DEF SignalInv, LedgerInv, AnswerTypeOK
  <2>6. queryRow[q].evidence = "insufficient"
    BY <1>1 DEF Signalled, RowWritten
  <2>7. Signalled(q)'
    BY <1>1, <1>2, <1>4, <2>2, <2>4, <2>5, <2>6 DEF Signalled, Unsignalled, RowWritten
  <2> QED BY <1>1, <1>2, <1>4, <2>2, <2>3, <2>5, <2>7, SignalInvStep
<1> QED BY <1>3, <1>4 DEF RegisterKnowledgeGap

LEMMA LoseQuerySignals ==
  ASSUME SignalInv, NEW q \in Query, LoseQuery(q)
  PROVE  SignalInv'
<1>1. LedgerInv' /\ AskTurnsTo(q, "lost") /\ "lost" \in AskStep
  BY LoseQueryKeeps DEF SignalInv, LoseQuery, AskStep
<1>2. UNCHANGED <<queryRow, cited, gap>>
  BY DEF LoseQuery, rowVars, signalVars
<1> QED BY <1>1, <1>2, QuietSignalsTurn

(* Triage changes the status of a gap that there is.                       *)
LEMMA AdministrationSignals ==
  ASSUME SignalInv, UpdateModelConfig \/ \E q \in Query : TriageKnowledgeGap(q)
  PROVE  SignalInv'
<1>1. LedgerInv'
  BY AdministrationKeeps DEF SignalInv
<1>2. /\ UNCHANGED <<queryRow, cited, ask>>
      /\ \A p \in Query : gap'[p] = "none" <=> gap[p] = "none"
  <2>1. CASE UpdateModelConfig
    BY <2>1 DEF UpdateModelConfig, rowVars, signalVars
  <2>2. ASSUME NEW q \in Query, TriageKnowledgeGap(q)
        PROVE  /\ UNCHANGED <<queryRow, cited, ask>>
               /\ \A p \in Query : gap'[p] = "none" <=> gap[p] = "none"
    <3>1. PICK status \in {"addressed", "dismissed"} :
            gap[q] # "none" /\ gap' = [gap EXCEPT ![q] = status]
      BY <2>2 DEF TriageKnowledgeGap, ResolveKnowledgeGap, DismissKnowledgeGap
    <3>2. \A p \in Query : gap'[p] = "none" <=> gap[p] = "none"
      BY <3>1 DEF SignalInv, LedgerInv, AnswerTypeOK
    <3>3. UNCHANGED <<queryRow, cited, ask>>
      BY <2>2 DEF TriageKnowledgeGap
    <3> QED BY <3>2, <3>3
  <2> QED BY <2>1, <2>2
<1>3. ASSUME NEW p \in Query PROVE Signalled(p)'
  BY <1>2 DEF SignalInv, Signalled, Unsignalled, RowWritten
<1> QED BY <1>1, <1>3 DEF SignalInv

LEMMA SignalInvInductive == AnswerSpec => []SignalInv
<1>1. AnswerInit /\ LedgerInv => SignalInv
  <2> SUFFICES ASSUME AnswerInit, LedgerInv, NEW q \in Query PROVE Signalled(q)
    BY DEF SignalInv
  <2>1. ask[q] = NewAsk /\ queryRow[q] = NoRow /\ gap[q] = "none" /\ q \notin cited
    BY DEF AnswerInit
  <2> QED BY <2>1 DEF Signalled, Unsignalled, RowWritten, NewAsk
<1>2. SignalInv /\ [AnswerNext]_answerVars => SignalInv'
  <2> SUFFICES ASSUME SignalInv, [AnswerNext]_answerVars PROVE SignalInv'
    OBVIOUS
  <2>1. CASE UNCHANGED answerVars
    BY <2>1 DEF answerVars, SignalInv, LedgerInv, AnswerTypeOK, Ledgered, Signalled, Unsignalled,
                RowWritten
  <2>2. CASE UpdateModelConfig \/ \E q \in Query : TriageKnowledgeGap(q)
    BY <2>2, AdministrationSignals
  <2>3. ASSUME NEW q \in Query, AnswerCall(q)
        PROVE  SignalInv'
    BY <2>3, RecordQuerySignals, EmbeddingSignals, SearchSignals, RerankSignals, ReadStrategySignals,
       SelectModelSignals, UpdateQueryRouteSignals, CallModelSignals,
       RecordModelAttemptsSignals, RecordCitationsSignals, RegisterKnowledgeGapSignals,
       LoseQuerySignals DEF AnswerCall
  <2> QED BY <2>1, <2>2, <2>3 DEF AnswerNext
<1> QED BY <1>1, <1>2, LedgerInvInductive, PTL DEF AnswerSpec

-----------------------------------------------------------------------------
(* Theorems.                                                               *)

(* The variables of the answer pipeline keep their types.                  *)
THEOREM AnswerTypesHold == AnswerSpec => []AnswerTypeOK
<1>1. LedgerInv => AnswerTypeOK
  BY DEF LedgerInv
<1> QED BY <1>1, LedgerInvInductive, PTL

(* Every call of the embedding and the model provider has its row on the   *)
(* ledger, however often the gateway retries and however many queries are  *)
(* answered at once; only the call of a reranking provider has none.       *)
THEOREM LedgerCompletes == AnswerSpec => []LedgerIsComplete
<1>1. ASSUME LedgerInv PROVE LedgerIsComplete
  <2>1. ASSUME NEW q \in Query
        PROVE  /\ ledger[q] + ask[q].reranks <= calls[q]
               /\ ask[q].step \in Ended \ {"lost"} => ledger[q] + ask[q].reranks = calls[q]
    BY <1>1, Counters DEF Ledgered, Ended
  <2> QED BY <2>1 DEF LedgerIsComplete
<1> QED BY <1>1, LedgerInvInductive, PTL

(* An answer that went out has its row, its citations and its gap, unless  *)
(* writing them failed; and a gap that administrators triage belongs to a  *)
(* query recorded with insufficient evidence.                              *)
THEOREM AnswersStayAccounted == AnswerSpec => []AnswersAreAccounted
<1>1. ASSUME SignalInv, NEW q \in Query
      PROVE  /\ ask[q].step = "answered" =>
                  queryRow[q] = [route |-> ask[q].route, evidence |-> ask[q].evidence]
             /\ ask[q].step = "answered" /\ ~ask[q].signalsLost =>
                  /\ q \in cited <=> ask[q].citations
                  /\ gap[q] # "none" <=> ask[q].evidence = "insufficient"
             /\ q \in cited => queryRow[q].evidence = "sufficient"
             /\ gap[q] # "none" => queryRow[q].evidence = "insufficient"
  <2>1. Signalled(q) /\ ask[q].citations \in BOOLEAN /\ ask[q].signalsLost \in BOOLEAN
    BY <1>1, Counters DEF SignalInv, Ask
  <2> QED BY <2>1 DEF Signalled, RowWritten
<1>2. SignalInv => AnswersAreAccounted
  BY <1>1 DEF AnswersAreAccounted
<1> QED BY <1>2, SignalInvInductive, PTL

-----------------------------------------------------------------------------
(***************************************************************************)
(* Feedback.                                                               *)
(***************************************************************************)
Submitted == [step : {"idle", "selected", "accepted", "failed"},
              given : Content, loaded : Content \cup {Unseen}]

(* There is a row once a submission was accepted, and a submission that    *)
(* has seen a row saw it there.                                            *)
FeedbackTypes ==
  /\ feedbackRows \subseteq [id : Submission, content : Content]
  /\ submission \in [Submission -> Submitted]
  /\ staleUpdate \in BOOLEAN

OneRow == \/ feedbackRows = {} /\ Accepted = {}
          \/ Accepted # {} /\ \E row : feedbackRows = {row}

SeenIsThere ==
  \A s \in Submission : submission[s].loaded # Unseen => feedbackRows # {}

GivenTogether ==
  ~staleUpdate => \A row \in feedbackRows : \E s \in Accepted :
                    row.content = submission[s].given

FeedbackInv == FeedbackTypes /\ OneRow /\ SeenIsThere /\ GivenTogether

(* A submission moves on without touching what it or the others were given.*)
LEMMA SubmissionMoves ==
  ASSUME FeedbackTypes, NEW s \in Submission,
         NEW next \in {"selected", "accepted", "failed"}, SubmissionGoes(s, next)
  PROVE  /\ submission' \in [Submission -> Submitted]
         /\ submission'[s].step = next
         /\ \A u \in Submission : /\ submission'[u].given = submission[u].given
                                  /\ submission'[u].loaded = submission[u].loaded
                                  /\ u # s => submission'[u] = submission[u]
<1>1. [submission[s] EXCEPT !.step = next] \in Submitted
  BY DEF FeedbackTypes, Submitted
<1>2. submission' = [submission EXCEPT ![s] = [submission[s] EXCEPT !.step = next]]
  BY DEF SubmissionGoes
<1>3. submission[s] \in Submitted
  BY DEF FeedbackTypes
<1> QED BY <1>1, <1>2, <1>3 DEF FeedbackTypes, Submitted

LEMMA SelectKeeps ==
  ASSUME FeedbackInv, NEW s \in Submission, SelectFeedback(s)
  PROVE  FeedbackInv'
<1>1. PICK seen \in {row.content : row \in feedbackRows} \cup
                    (IF feedbackRows = {} THEN {Unseen} ELSE {}) :
        submission' = [submission EXCEPT ![s].step = "selected", ![s].loaded = seen]
  BY DEF SelectFeedback
<1>2. /\ submission[s].step = "idle" /\ feedbackRows' = feedbackRows
      /\ staleUpdate' = staleUpdate
  BY DEF SelectFeedback
<1>3. seen \in Content \cup {Unseen} /\ (seen # Unseen => feedbackRows # {})
  BY <1>1 DEF FeedbackInv, FeedbackTypes
<1>4. submission[s] \in Submitted
  BY DEF FeedbackInv, FeedbackTypes
<1>5. [submission[s] EXCEPT !.step = "selected", !.loaded = seen] \in Submitted
  BY <1>3, <1>4 DEF Submitted
<1>6. /\ submission' \in [Submission -> Submitted]
      /\ submission'[s].step = "selected" /\ submission'[s].loaded = seen
      /\ \A u \in Submission : /\ submission'[u].given = submission[u].given
                               /\ u # s => submission'[u] = submission[u]
  BY <1>1, <1>4, <1>5 DEF FeedbackInv, FeedbackTypes, Submitted
<1>7. Accepted' = Accepted
  BY <1>2, <1>6 DEF Accepted
<1>8. Accepted \subseteq Submission
  BY DEF Accepted
<1> QED BY <1>2, <1>3, <1>6, <1>7, <1>8, ZenonT(60)
        DEF FeedbackInv, FeedbackTypes, OneRow, SeenIsThere, GivenTogether

LEMMA InsertKeeps ==
  ASSUME FeedbackInv, NEW s \in Submission, InsertFeedback(s)
  PROVE  FeedbackInv'
<1>1. /\ submission[s].step = "selected" /\ feedbackRows = {}
      /\ SubmissionGoes(s, "accepted") /\ staleUpdate' = staleUpdate
      /\ feedbackRows' = {[id |-> s, content |-> submission[s].given]}
  BY DEF InsertFeedback, MayInsert
<1>2. /\ submission' \in [Submission -> Submitted]
      /\ s \in Accepted'
      /\ submission'[s].given = submission[s].given /\ submission[s].given \in Content
  BY <1>1, SubmissionMoves DEF FeedbackInv, FeedbackTypes, Accepted, Submitted
<1>3. FeedbackTypes'
  BY <1>1, <1>2 DEF FeedbackInv, FeedbackTypes
<1>4. PICK row : feedbackRows' = {row} /\ row.content = submission[s].given
  <2>1. [id |-> s, content |-> submission[s].given].content = submission[s].given
    OBVIOUS
  <2> QED BY <1>1, <2>1
<1>5. OneRow' /\ SeenIsThere'
  BY <1>2, <1>4 DEF OneRow, SeenIsThere
<1>6. GivenTogether'
  BY <1>2, <1>4 DEF GivenTogether
<1> QED BY <1>3, <1>5, <1>6 DEF FeedbackInv

(* An update of a row that has not changed leaves what was submitted.      *)
LEMMA UpdateOfSeen ==
  ASSUME NEW s \in Submission, NEW content \in Content, submission[s].given \in Content,
         submission[s].loaded = content
  PROVE  Updated(s, content) = submission[s].given
BY DEF Updated, Content

LEMMA UpdateType ==
  ASSUME NEW s \in Submission, NEW content \in Content, submission[s].given \in Content
  PROVE  Updated(s, content) \in Content
BY DEF Updated, Content

LEMMA UpdateKeeps ==
  ASSUME FeedbackInv, NEW s \in Submission, UpdateFeedback(s)
  PROVE  FeedbackInv'
<1>1. /\ submission[s].step = "selected" /\ submission[s].loaded # Unseen
      /\ feedbackRows' = {[row EXCEPT !.content = Updated(s, row.content)] : row \in feedbackRows}
      /\ staleUpdate' = \/ staleUpdate
                        \/ \E row \in feedbackRows : row.content # submission[s].loaded
      /\ SubmissionGoes(s, "accepted")
  BY DEF UpdateFeedback
<1>2. PICK row : feedbackRows = {row}
  BY <1>1 DEF FeedbackInv, SeenIsThere, OneRow
<1>3. row \in [id : Submission, content : Content] /\ submission[s].given \in Content
  BY <1>2 DEF FeedbackInv, FeedbackTypes, Submitted
<1>4. Updated(s, row.content) \in Content
  BY <1>3, UpdateType
<1>5. PICK new : /\ new = [row EXCEPT !.content = Updated(s, row.content)]
                 /\ new \in [id : Submission, content : Content]
                 /\ new.content = Updated(s, row.content)
  <2>1. \A content \in Content :
          /\ [row EXCEPT !.content = content] \in [id : Submission, content : Content]
          /\ [row EXCEPT !.content = content].content = content
    BY <1>3
  <2> QED BY <1>4, <2>1
<1>6. feedbackRows' = {new}
  BY <1>1, <1>2, <1>5
<1>7. /\ submission' \in [Submission -> Submitted]
      /\ s \in Accepted'
      /\ submission'[s].given = submission[s].given
  BY <1>1, SubmissionMoves DEF FeedbackInv, FeedbackTypes, Accepted, Submitted
<1>8. FeedbackTypes'
  <2>1. staleUpdate' \in BOOLEAN
    BY <1>1
  <2> QED BY <1>5, <1>6, <1>7, <2>1 DEF FeedbackTypes
<1>9. GivenTogether'
  <2> SUFFICES ASSUME ~staleUpdate' PROVE new.content = submission[s].given
    BY <1>6, <1>7 DEF GivenTogether
  <2>1. row.content = submission[s].loaded
    BY <1>1, <1>2
  <2> QED BY <1>3, <1>5, <2>1, UpdateOfSeen
<1> QED BY <1>6, <1>7, <1>8, <1>9 DEF FeedbackInv, OneRow, SeenIsThere

LEMMA FailKeeps ==
  ASSUME FeedbackInv, NEW s \in Submission, FeedbackFails(s)
  PROVE  FeedbackInv'
<1>1. /\ submission[s].step = "selected" /\ SubmissionGoes(s, "failed")
      /\ feedbackRows' = feedbackRows /\ staleUpdate' = staleUpdate
  BY DEF FeedbackFails
<1>2. /\ submission' \in [Submission -> Submitted]
      /\ submission'[s].step = "failed"
      /\ \A u \in Submission : /\ submission'[u].given = submission[u].given
                               /\ submission'[u].loaded = submission[u].loaded
                               /\ u # s => submission'[u] = submission[u]
  BY <1>1, SubmissionMoves DEF FeedbackInv
<1>3. Accepted' = Accepted /\ Accepted \subseteq Submission
  BY <1>1, <1>2 DEF Accepted
<1> QED BY <1>1, <1>2, <1>3, ZenonT(60)
        DEF FeedbackInv, FeedbackTypes, OneRow, SeenIsThere, GivenTogether

LEMMA InitFeedbackInv == FeedbackInit => FeedbackInv
<1> SUFFICES ASSUME FeedbackInit PROVE FeedbackInv
  OBVIOUS
<1>1. PICK given \in [Submission -> Content] :
        submission = [s \in Submission |->
                        [step |-> "idle", given |-> given[s], loaded |-> Unseen]]
  BY DEF FeedbackInit
<1>2. submission \in [Submission -> Submitted]
  BY <1>1 DEF Submitted
<1>3. Accepted = {}
  BY <1>1 DEF Accepted
<1> QED BY <1>1, <1>2, <1>3
        DEF FeedbackInit, FeedbackInv, FeedbackTypes, OneRow, SeenIsThere, GivenTogether

LEMMA NextFeedbackInv == FeedbackInv /\ [FeedbackNext]_feedbackVars => FeedbackInv'
<1> SUFFICES ASSUME FeedbackInv, [FeedbackNext]_feedbackVars PROVE FeedbackInv'
  OBVIOUS
<1>1. CASE UNCHANGED feedbackVars
  BY <1>1 DEF feedbackVars, FeedbackInv, FeedbackTypes, OneRow, SeenIsThere, GivenTogether, Accepted
<1> QED BY <1>1, SelectKeeps, InsertKeeps, UpdateKeeps, FailKeeps DEF FeedbackNext

LEMMA FeedbackInvInductive == FeedbackSpec => []FeedbackInv
BY InitFeedbackInv, NextFeedbackInv, PTL DEF FeedbackSpec

(* The row and the calls in progress have their types.                     *)
THEOREM FeedbackTypesHold == FeedbackSpec => []FeedbackTypeOK
<1>1. FeedbackInv => FeedbackTypeOK
  BY DEF FeedbackInv, FeedbackTypes, FeedbackTypeOK, Submitted
<1> QED BY <1>1, FeedbackInvInductive, PTL

(* However the submissions of a user overlap there is one row, and what it *)
(* says was submitted together, unless a row changed under an update.      *)
THEOREM FeedbackIsWhole == FeedbackSpec => []FeedbackIsOneSubmission
<1>1. FeedbackInv => FeedbackIsOneSubmission
  <2> SUFFICES ASSUME FeedbackInv
               PROVE  Cardinality(feedbackRows) = IF Accepted = {} THEN 0 ELSE 1
    BY DEF FeedbackInv, GivenTogether, FeedbackIsOneSubmission
  <2>1. Cardinality({}) = 0 /\ \A row : Cardinality({row}) = 1
    BY FS_EmptySet, FS_Singleton
  <2> QED BY <2>1 DEF FeedbackInv, OneRow
<1> QED BY <1>1, FeedbackInvInductive, PTL

-----------------------------------------------------------------------------
(***************************************************************************)
(* The daily quota.                                                        *)
(***************************************************************************)
Limiter == [day : 0..LastDay, counts : [Asker -> 0..DailyQuota]]
Asking == [step : {"idle", "lock", "admitted", "refused", "lost"},
           subject : Asker, now : 0..LastDay]

(* What the counters say of the queries admitted: never more than there    *)
(* were, and exactly as many unless the day went back.                     *)
Counted(s) ==
  /\ limiter.counts[s] <= admitted[s][limiter.day]
  /\ \/ setBack = TRUE
     \/ /\ admitted[s][limiter.day] = limiter.counts[s]
        /\ \A d \in 0..LastDay : /\ d > limiter.day => admitted[s][d] = 0
                                 /\ admitted[s][d] <= DailyQuota

QuotaInv == QuotaTypeOK /\ \A s \in Asker : Counted(s)

LEMMA QuotaTypes ==
  ASSUME QuotaTypeOK
  PROVE  /\ day \in 0..LastDay /\ LastDay \in Nat /\ DailyQuota \in Nat \ {0}
         /\ limiter \in Limiter /\ limiter.day \in 0..LastDay
         /\ limiter.counts \in [Asker -> 0..DailyQuota]
         /\ admitted \in [Asker -> [0..LastDay -> Nat]]
         /\ asking \in [QuotaCall -> Asking]
         /\ \A c \in QuotaCall : /\ asking[c].subject \in Asker
                                 /\ asking[c].now \in 0..LastDay
BY QuotaAssumption DEF QuotaTypeOK, Limiter, Asking

LEMMA NewLimiterType ==
  ASSUME NEW d \in 0..LastDay
  PROVE  /\ NewLimiter(d) \in Limiter /\ NewLimiter(d).day = d
         /\ NewLimiter(d).counts = NoCounts
         /\ NoCounts \in [Asker -> 0..DailyQuota]
         /\ \A s \in Asker : NoCounts[s] = 0
BY QuotaAssumption DEF NewLimiter, NoCounts, Limiter

LEMMA NoneAdmittedType ==
  /\ NoneAdmitted \in [Asker -> [0..LastDay -> Nat]]
  /\ \A s \in Asker, d \in 0..LastDay : NoneAdmitted[s][d] = 0
BY DEF NoneAdmitted

LEMMA SteppedType ==
  ASSUME NEW old \in Asking,
         NEW step \in {"idle", "lock", "admitted", "refused", "lost"}
  PROVE  LET new == [old EXCEPT !.step = step] IN
         new \in Asking /\ new.step = step
BY DEF Asking

(* What hit does with the counters of the day that the query read.         *)
LEMMA HitCounts ==
  ASSUME QuotaInv, NEW c \in QuotaCall, Hit(c),
         NEW s, s = asking[c].subject, NEW today, today = asking[c].now,
         NEW counts, counts = CountsOn(today)
  PROVE  /\ s \in Asker /\ today \in 0..LastDay
         /\ counts \in [Asker -> 0..DailyQuota]
         /\ today = limiter.day => counts = limiter.counts
         /\ today # limiter.day => \A p \in Asker : counts[p] = 0
<1>1. QuotaTypeOK
  BY DEF QuotaInv
<1>2. s \in Asker /\ today \in 0..LastDay
  BY <1>1, QuotaTypes
<1>3. CASE today = limiter.day
  BY <1>1, <1>2, <1>3, QuotaTypes DEF CountsOn
<1>4. CASE today # limiter.day
  BY <1>2, <1>4, NewLimiterType DEF CountsOn
<1> QED BY <1>2, <1>3, <1>4

LEMMA HitKeeps ==
  ASSUME QuotaInv, NEW c \in QuotaCall, Hit(c)
  PROVE  QuotaInv'
<1> DEFINE s == asking[c].subject
           today == asking[c].now
           counts == CountsOn(today)
           allowed == counts[s] < DailyQuota
           after == IF allowed THEN [counts EXCEPT ![s] = @ + 1] ELSE counts
<1>1. /\ QuotaTypeOK /\ LastDay \in Nat /\ DailyQuota \in Nat \ {0}
      /\ limiter.day \in 0..LastDay /\ limiter.counts \in [Asker -> 0..DailyQuota]
      /\ admitted \in [Asker -> [0..LastDay -> Nat]]
      /\ asking \in [QuotaCall -> Asking] /\ setBack \in BOOLEAN
  BY QuotaTypes DEF QuotaInv, QuotaTypeOK
<1>2. /\ s \in Asker /\ today \in 0..LastDay /\ counts \in [Asker -> 0..DailyQuota]
      /\ today = limiter.day => counts = limiter.counts
      /\ today # limiter.day => \A p \in Asker : counts[p] = 0
  BY HitCounts
<1>3. /\ limiter' = [day |-> today, counts |-> after]
      /\ setBack' = (setBack \/ today < limiter.day)
      /\ admitted' = IF allowed THEN [admitted EXCEPT ![s][today] = @ + 1] ELSE admitted
      /\ day' = day
  BY DEF Hit
<1>4. PICK step \in {"admitted", "refused"} : asking' = [asking EXCEPT ![c].step = step]
  BY DEF Hit
<1>5. asking' \in [QuotaCall -> Asking]
  <2>1. [asking[c] EXCEPT !.step = step] \in Asking
    BY <1>1, SteppedType
  <2> QED BY <1>1, <1>4, <2>1
<1> HIDE DEF s, today, counts
<1>6. /\ after \in [Asker -> 0..DailyQuota]
      /\ \A p \in Asker \ {s} : after[p] = counts[p]
      /\ after[s] = IF allowed THEN counts[s] + 1 ELSE counts[s]
  BY <1>1, <1>2
<1>7. /\ admitted' \in [Asker -> [0..LastDay -> Nat]]
      /\ \A p \in Asker, d \in 0..LastDay :
           admitted'[p][d] = IF p = s /\ d = today /\ allowed THEN admitted[p][d] + 1
                                                              ELSE admitted[p][d]
  <2>1. CASE allowed
    <3>1. admitted' = [admitted EXCEPT ![s][today] = @ + 1]
      BY <1>3, <2>1
    <3> HIDE DEF after, allowed
    <3>2. admitted' \in [Asker -> [0..LastDay -> Nat]]
      BY <1>1, <1>2, <3>1
    <3>3. \A p \in Asker, d \in 0..LastDay :
            admitted'[p][d] = IF p = s /\ d = today THEN admitted[p][d] + 1
                                                    ELSE admitted[p][d]
      BY <1>1, <1>2, <3>1
    <3> QED BY <2>1, <3>2, <3>3
  <2>2. CASE ~allowed
    <3>1. admitted' = admitted
      BY <1>3, <2>2
    <3> HIDE DEF after, allowed
    <3> QED BY <1>1, <2>2, <3>1
  <2> QED BY <2>1, <2>2
<1> HIDE DEF after, allowed
<1>8. /\ limiter' \in Limiter /\ limiter'.day = today /\ limiter'.counts = after
  BY <1>2, <1>3, <1>6 DEF Limiter
<1>9. setBack' \in BOOLEAN /\ (setBack' = TRUE <=> setBack = TRUE \/ today < limiter.day)
  BY <1>1, <1>3
<1>10. QuotaTypeOK'
  BY <1>1, <1>3, <1>5, <1>7, <1>8, <1>9 DEF QuotaTypeOK, Limiter, Asking
<1>11. ASSUME NEW p \in Asker PROVE Counted(p)'
  <2>1. /\ after[p] \in 0..DailyQuota /\ counts[p] \in 0..DailyQuota
        /\ after[p] = IF p = s /\ allowed THEN counts[p] + 1 ELSE counts[p]
    BY <1>2, <1>6
  <2>2. /\ admitted[p][today] \in Nat /\ admitted'[p][today] \in Nat
        /\ admitted'[p][today] = IF p = s /\ allowed THEN admitted[p][today] + 1
                                                     ELSE admitted[p][today]
    <3>1. today \in 0..LastDay
      BY <1>2
    <3>2. admitted[p] \in [0..LastDay -> Nat] /\ admitted'[p] \in [0..LastDay -> Nat]
      BY <1>1, <1>7
    <3>3. admitted'[p][today] = IF p = s /\ allowed THEN admitted[p][today] + 1
                                                    ELSE admitted[p][today]
      BY <1>7, <3>1
    <3> QED BY <3>1, <3>2, <3>3
  <2>3. Counted(p)
    BY DEF QuotaInv
  <2>4. counts[p] <= admitted[p][today]
    <3>1. CASE today = limiter.day
      BY <1>2, <2>3, <3>1 DEF Counted
    <3>2. CASE today # limiter.day
      BY <1>2, <2>2, <3>2
    <3> QED BY <3>1, <3>2
  <2>5. after[p] <= admitted'[p][today]
    BY <1>1, <2>1, <2>2, <2>4
  <2>6. ASSUME setBack' # TRUE
        PROVE  /\ admitted'[p][today] = after[p]
               /\ \A d \in 0..LastDay : /\ d > today => admitted'[p][d] = 0
                                        /\ admitted'[p][d] <= DailyQuota
    <3>1. /\ limiter.day <= today /\ admitted[p][limiter.day] = limiter.counts[p]
          /\ \A d \in 0..LastDay : /\ d > limiter.day => admitted[p][d] = 0
                                   /\ admitted[p][d] <= DailyQuota
      <4>1. setBack # TRUE /\ ~(today < limiter.day)
        BY <1>9, <2>6
      <4>2. limiter.day <= today
        BY <1>1, <1>2, <4>1
      <4> QED BY <2>3, <4>1, <4>2 DEF Counted
    <3>2. admitted[p][today] = counts[p]
      <4>1. CASE today = limiter.day
        BY <1>2, <3>1, <4>1
      <4>2. CASE today # limiter.day
        <5>1. today > limiter.day
          BY <1>1, <1>2, <3>1, <4>2
        <5> QED BY <1>2, <3>1, <4>2, <5>1
      <4> QED BY <4>1, <4>2
    <3>3. admitted'[p][today] = after[p]
      BY <2>1, <2>2, <3>2
    <3>4. ASSUME NEW d \in 0..LastDay
          PROVE  /\ d > today => admitted'[p][d] = 0
                 /\ admitted'[p][d] <= DailyQuota
      <4>1. CASE d = today
        BY <1>1, <2>1, <3>3, <4>1
      <4>2. CASE d # today
        <5>1. admitted'[p][d] = admitted[p][d]
          BY <1>7, <4>2
        <5> QED BY <1>1, <1>2, <3>1, <5>1, SMTT(30)
      <4> QED BY <4>1, <4>2
    <3> QED BY <3>3, <3>4
  <2> QED BY <1>8, <2>5, <2>6 DEF Counted
<1> QED BY <1>10, <1>11 DEF QuotaInv

LEMMA InitQuotaInv == QuotaInit => QuotaInv
<1> SUFFICES ASSUME QuotaInit PROVE QuotaInv
  OBVIOUS
<1>1. 0 \in 0..LastDay
  BY QuotaAssumption
<1>2. /\ limiter \in Limiter /\ limiter.day = 0 /\ admitted = NoneAdmitted
      /\ \A s \in Asker : limiter.counts[s] = 0
  BY <1>1, NewLimiterType DEF QuotaInit
<1>3. PICK who \in [QuotaCall -> Asker] :
        asking = [c \in QuotaCall |-> [step |-> "idle", subject |-> who[c], now |-> 0]]
  BY DEF QuotaInit
<1>4. asking \in [QuotaCall -> Asking]
  BY <1>1, <1>3 DEF Asking
<1>5. QuotaTypeOK
  BY <1>1, <1>2, <1>4, NoneAdmittedType DEF QuotaInit, QuotaTypeOK, Limiter, Asking
<1>6. ASSUME NEW s \in Asker PROVE Counted(s)
  BY <1>1, <1>2, NoneAdmittedType, QuotaAssumption DEF Counted
<1> QED BY <1>5, <1>6 DEF QuotaInv

LEMMA NextQuotaInv == QuotaInv /\ [QuotaNext]_quotaVars => QuotaInv'
<1> SUFFICES ASSUME QuotaInv, [QuotaNext]_quotaVars PROVE QuotaInv'
  OBVIOUS
<1>1. /\ QuotaTypeOK /\ LastDay \in Nat /\ day \in 0..LastDay
      /\ asking \in [QuotaCall -> Asking]
  BY QuotaTypes DEF QuotaInv
<1>2. CASE UNCHANGED quotaVars
  BY <1>2 DEF QuotaInv, QuotaTypeOK, Counted, quotaVars
<1>3. CASE NextDay
  <2>1. day' \in 0..LastDay
    BY <1>1, <1>3 DEF NextDay
  <2> QED BY <1>3, <2>1 DEF NextDay, QuotaInv, QuotaTypeOK, Counted
<1>4. CASE RestartService
  <2>1. /\ limiter' \in Limiter /\ limiter'.day = day /\ admitted' = NoneAdmitted
        /\ \A s \in Asker : limiter'.counts[s] = 0
        /\ setBack' = FALSE /\ day' = day
    BY <1>1, <1>4, NewLimiterType DEF RestartService
  <2>2. asking' \in [QuotaCall -> Asking]
    <3>1. ASSUME NEW c \in QuotaCall
          PROVE  [asking[c] EXCEPT !.step = "lost"] \in Asking /\ asking[c] \in Asking
      BY <1>1, SteppedType
    <3> QED BY <1>4, <3>1 DEF RestartService
  <2>3. QuotaTypeOK'
    BY <1>1, <2>1, <2>2, NoneAdmittedType DEF QuotaTypeOK, Limiter, Asking
  <2>4. ASSUME NEW s \in Asker PROVE Counted(s)'
    BY <1>1, <2>1, NoneAdmittedType, QuotaAssumption DEF Counted
  <2> QED BY <2>3, <2>4 DEF QuotaInv
<1>5. ASSUME NEW c \in QuotaCall, ReadClock(c)
      PROVE  QuotaInv'
  <2>1. asking' \in [QuotaCall -> Asking]
    BY <1>1, <1>5 DEF ReadClock, Asking
  <2> QED BY <1>5, <2>1, SMTT(30) DEF ReadClock, QuotaInv, QuotaTypeOK, Counted, Asking
<1>6. ASSUME NEW c \in QuotaCall, Hit(c)
      PROVE  QuotaInv'
  BY <1>6, HitKeeps
<1> QED BY <1>2, <1>3, <1>4, <1>5, <1>6 DEF QuotaNext

LEMMA QuotaInvInductive == QuotaSpec => []QuotaInv
BY InitQuotaInv, NextQuotaInv, PTL DEF QuotaSpec

-----------------------------------------------------------------------------
(* Theorems.                                                               *)

(* No subject is admitted more queries for a day than the quota while the  *)
(* limiter's day has not gone back, however many queries overlap midnight. *)
THEOREM QuotaIsKept == QuotaSpec => []QuotaHolds
<1>1. ASSUME QuotaInv PROVE QuotaHolds
  BY <1>1 DEF QuotaInv, Counted, QuotaHolds
<1> QED BY <1>1, QuotaInvInductive, PTL

(* Whoever is refused had the whole quota of the day it was counted for,   *)
(* also after the limiter's day went back.                                 *)
THEOREM RefusalIsEarned == QuotaSpec => RefusedOnlyAtTheQuota
<1> DEFINE Earned == \A c \in QuotaCall :
             asking[c].step = "lock" /\ asking'[c].step = "refused" =>
               admitted[asking[c].subject][asking[c].now] >= DailyQuota
<1>1. ASSUME QuotaInv, [QuotaNext]_quotaVars PROVE Earned \/ UNCHANGED quotaVars
  <2> SUFFICES ASSUME QuotaNext, NEW c \in QuotaCall,
                      asking[c].step = "lock", asking'[c].step = "refused"
               PROVE  admitted[asking[c].subject][asking[c].now] >= DailyQuota
    BY <1>1
  <2>1. QuotaTypeOK /\ asking \in [QuotaCall -> Asking]
    BY <1>1, QuotaTypes DEF QuotaInv
  <2>2. ~NextDay
    BY <2>1 DEF NextDay
  <2>3. ~RestartService
    <3>1. [asking[c] EXCEPT !.step = "lost"].step = "lost"
      BY <2>1, SteppedType
    <3> QED BY <2>1, <3>1 DEF RestartService
  <2>4. PICK e \in QuotaCall : ReadClock(e) \/ Hit(e)
    BY <2>2, <2>3 DEF QuotaNext
  <2>5. e = c /\ Hit(c)
    BY <2>1, <2>4 DEF ReadClock, Hit
  <2> DEFINE s == asking[c].subject
             today == asking[c].now
             counts == CountsOn(today)
  <2>6. /\ s \in Asker /\ today \in 0..LastDay
        /\ counts \in [Asker -> 0..DailyQuota]
        /\ today = limiter.day => counts = limiter.counts
        /\ today # limiter.day => \A p \in Asker : counts[p] = 0
    BY <1>1, <2>5, HitCounts
  <2>7. ~(counts[s] < DailyQuota)
    BY <2>1, <2>5 DEF Hit, Asking
  <2> HIDE DEF s, today, counts
  <2>8. counts[s] >= DailyQuota /\ today = limiter.day
    BY <2>6, <2>7, QuotaAssumption
  <2>9. /\ limiter.counts[s] \in Nat /\ admitted[s][today] \in Nat /\ Counted(s)
    BY <1>1, <2>1, <2>6, <2>8, QuotaTypes DEF QuotaInv
  <2>10. admitted[s][today] >= DailyQuota
    BY <2>6, <2>8, <2>9, QuotaAssumption DEF Counted
  <2> QED BY <2>10 DEF s, today
<1>2. QuotaSpec => [][Earned]_quotaVars
  BY <1>1, QuotaInvInductive, PTL DEF QuotaSpec
<1> QED BY <1>2 DEF RefusedOnlyAtTheQuota

-----------------------------------------------------------------------------
(* The parts together.                                                     *)

(* A behaviour of the query side is one of each of its parts, since a step *)
(* of one leaves the others alone; so what is shown of a part above, and   *)
(* in Access_proofs, holds in it.                                          *)
THEOREM AnsweringImplementsParts ==
  AnsweringSpec => AccessSpec /\ AnswerSpec /\ FeedbackSpec /\ QuotaSpec /\ SessionsSpec
<1>1. AnsweringInit => AccessInit /\ AnswerInit /\ FeedbackInit /\ QuotaInit /\ SessionsInit
  BY DEF AnsweringInit
<1>2. [AnsweringNext]_answeringVars =>
        /\ [AccessNext]_accessVars /\ [AnswerNext]_answerVars /\ [FeedbackNext]_feedbackVars
        /\ [QuotaNext]_quotaVars /\ [SessionsNext]_sessionVars
  BY DEF AnsweringNext, answeringVars
<1> QED BY <1>1, <1>2, PTL
        DEF AnsweringSpec, AccessSpec, AnswerSpec, FeedbackSpec, QuotaSpec, SessionsSpec

(* The parts of the query side have their types in one behaviour too.      *)
THEOREM AnsweringTypesHold == AnsweringSpec => []AnsweringTypeOK
<1>1. QuotaSpec => []QuotaTypeOK
  <2>1. QuotaInv => QuotaTypeOK
    BY DEF QuotaInv
  <2> QED BY <2>1, QuotaInvInductive, PTL
<1>2. AccessTypeOK /\ AnswerTypeOK /\ FeedbackTypeOK /\ QuotaTypeOK /\ SessionsTypeOK
      => AnsweringTypeOK
  BY DEF AnsweringTypeOK
<1> QED BY <1>1, <1>2, AnsweringImplementsParts, AccessTypesHold, AnswerTypesHold,
           FeedbackTypesHold, SignInTypeCorrect, PTL
=============================================================================
