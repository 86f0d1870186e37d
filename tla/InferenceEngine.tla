-------------------------- MODULE InferenceEngine --------------------------
(***************************************************************************)
(* InferenceEngine (inference/engine.py) serving analyze_batch: one        *)
(* asyncio task per pending transaction, at most MaxConcurrent of them     *)
(* inside the semaphore.  analyze runs without suspending except at        *)
(* asyncio.wait_for(_simulate_transaction(tx)), where the task waits for   *)
(* the replay or for the timeout; reset_stats may run between any two      *)
(* steps of the tasks.  HeuristicFilter.filter and extract_from_pending    *)
(* are operators here; _make_decision and the rest of the pipeline come    *)
(* from RiskScoring.                                                       *)
(***************************************************************************)
EXTENDS RiskScoring, FiniteSets

CONSTANTS
    SafeSelectors,         \* SAFE_SELECTORS
    SuspiciousSelectors,   \* SUSPICIOUS_SELECTORS
    WhitelistedContracts,  \* WHITELISTED_CONTRACTS
    FlashLoanSignatures,   \* FLASH_LOAN_SIGNATURES
    IndicatorHashOrder,    \* order list(set(...)) gives indicators under
                           \* this process's string hash seed
    Requests,              \* request id -> [tx, replays]: the transaction
                           \* and what _simulate_transaction may return
    DecisionValues,        \* forest decision_function values, thousandths
    HasModel,              \* InferenceEngine(model_path=...) given
    EnableSimulation,      \* enable_simulation (a ForkReplayer exists)
    MaxConcurrent,         \* analyze_batch(max_concurrent=...)
    MaxResets,             \* bound on reset_stats calls
    NoTrace,               \* model value: _simulate_transaction gave None
    NoResult               \* model value: the request has no result yet

ASSUME /\ MaxConcurrent \in Nat \ {0}
       /\ \A d \in DecisionValues : d % 2 = 0

RequestIds == DOMAIN Requests

(* PendingTransaction properties.                                          *)
IsSimpleTransfer(tx) == tx.input = "empty"
IsContractCreation(tx) == tx.to = NoAddress /\ tx.input # "empty"
TxSelector(tx) == IF tx.input = "empty" THEN NoSelector ELSE tx.selector

TxHeuristicResult(result, confidence, indicators, shouldAnalyze) ==
    [result |-> result, confidence |-> confidence, indicators |-> indicators,
     should_analyze |-> shouldAnalyze]

(* HeuristicFilter.filter on a pending transaction; gas in thousands,      *)
(* value in ether.                                                         *)
FilterTx(tx) ==
    LET reasons ==
            (IF tx.gas < 100 /\ tx.value = 0 THEN {"low_gas_no_value"} ELSE {})
            \cup (IF tx.to \in WhitelistedContracts THEN {"whitelisted_contract"} ELSE {})
            \cup (IF TxSelector(tx) \in SafeSelectors THEN {"safe_selector"} ELSE {})
        indicators ==
            Tag(TxSelector(tx) \notin SafeSelectors
                /\ TxSelector(tx) \in SuspiciousSelectors, "suspicious_selector")
            \o Tag(IsContractCreation(tx), "contract_creation")
            \o Tag(tx.value >= 1, "large_value_transfer")
            \o Tag(tx.gas > 1000, "high_gas_limit")
    IN  CASE IsSimpleTransfer(tx) ->
               TxHeuristicResult("safe", 990, <<>>, FALSE)
          [] Cardinality(reasons) >= 2 /\ indicators = <<>> ->
               TxHeuristicResult("safe", 900, <<>>, FALSE)
          [] Len(indicators) >= 2 ->
               TxHeuristicResult("suspicious", 700, indicators, TRUE)
          [] OTHER ->
               TxHeuristicResult("unknown", 500, indicators, TRUE)

(* FeatureAggregator.extract_from_pending: the flash-loan summary from the *)
(* selector, empty state and call-tree summaries, bytecode only for a      *)
(* creation.                                                               *)
ExtractFromPending(tx) ==
    [fl |-> [has |-> TxSelector(tx) \in FlashLoanSignatures, nested |-> FALSE,
             borrowed |-> 0],
     sv |-> [changes |-> 0, contracts |-> 0, large |-> 0, maxDelta |-> 0,
             highVariance |-> FALSE],
     op |-> [delegatecall |-> 0, create2 |-> 0, depth |-> 0, calls |-> 0],
     gasUsed |-> 0,
     bc |-> IF IsContractCreation(tx) THEN ExtractFromBytecode(tx.code)
            ELSE EmptyBytecode]

(* list(set(xs)): the distinct elements, in the order of their hashes.     *)
ListOfSet(S) == SelectSeq(IndicatorHashOrder, LAMBDA x : x \in S)

SeqElems(s) == {s[k] : k \in DOMAIN s}
-----------------------------------------------------------------------------
VARIABLES
    pc,       \* per request: "queued" (waiting for the semaphore),
              \* "simulating" (suspended in wait_for), "done"
    stats,    \* self._stats (without the latency sum)
    results,  \* per request: the InferenceResult analyze returned
    resets    \* reset_stats calls made

vars == <<pc, stats, results, resets>>

EmptyStats == [total_analyzed |-> 0, safe_filtered |-> 0,
               suspicious_detected |-> 0, ml_analyzed |-> 0]

Init ==
    /\ pc = [r \in RequestIds |-> "queued"]
    /\ stats = EmptyStats
    /\ results = [r \in RequestIds |-> NoResult]
    /\ resets = 0

InFlight == {r \in RequestIds : pc[r] = "simulating"}

(* Mutant: the semaphore admits one task more than max_concurrent.        *)
SemaphoreFreeOffByOne == Cardinality(InFlight) <= MaxConcurrent

(* async with semaphore: a task enters analyze only while fewer than       *)
(* max_concurrent tasks hold the semaphore; a task holds it until analyze  *)
(* returns, so across its suspension in wait_for.                          *)
SemaphoreFree == Cardinality(InFlight) < MaxConcurrent

Result(dec, indicators, heuristic) ==
    [is_suspicious |-> dec.is_suspicious, risk_level |-> dec.risk_level,
     recommendation |-> dec.recommendation, risk_indicators |-> indicators,
     heuristic_result |-> heuristic]

(* The rest of analyze once the features are known: filter_with_features, *)
(* ml_analyzed and predict, _make_decision, suspicious_detected, the       *)
(* indicator list; s is the counter dict the step starts from.             *)
Complete(r, s, features, timeout, d) ==
    LET h0 == FilterTx(Requests[r].tx)
        h == FilterWithFeatures(features)
        ml == IF HasModel THEN Predict(d) ELSE NoDetection
        dec == MakeDecision(h, ml, timeout)
        indicators == ListOfSet(SeqElems(h0.indicators) \cup SeqElems(h.indicators))
                      \o Tag(timeout, "simulation_timeout")
    IN  /\ stats' = [s EXCEPT !.ml_analyzed = @ + (IF HasModel THEN 1 ELSE 0),
                             !.suspicious_detected = @ + (IF dec.is_suspicious THEN 1 ELSE 0)]
        /\ results' = [results EXCEPT ![r] = Result(dec, indicators, h.result)]
        /\ pc' = [pc EXCEPT ![r] = "done"]

(* The first statement of analyze.                                         *)
CountStart(s) == [s EXCEPT !.total_analyzed = @ + 1]

(* analyze_with_semaphore(tx) up to the first suspension: acquire the      *)
(* semaphore, total_analyzed, HeuristicFilter.filter and the SAFE early    *)
(* return, extract_from_pending, then either suspend in wait_for or, with  *)
(* simulation disabled, finish.                                            *)
Start(r) ==
    /\ pc[r] = "queued"
    /\ SemaphoreFree
    /\ LET tx == Requests[r].tx
           h0 == FilterTx(tx)
           counted == CountStart(stats)
       IN  IF h0.result = "safe" /\ ~h0.should_analyze
           THEN /\ stats' = [counted EXCEPT !.safe_filtered = @ + 1]
                /\ results' = [results EXCEPT ![r] =
                        Result(Decision(FALSE, "low", "allow"), <<>>, h0.result)]
                /\ pc' = [pc EXCEPT ![r] = "done"]
           ELSE IF EnableSimulation
           THEN /\ stats' = counted
                /\ pc' = [pc EXCEPT ![r] = "simulating"]
                /\ UNCHANGED results
           ELSE \E d \in DecisionValues :
                   Complete(r, counted, ExtractFromPending(tx), FALSE, d)
    /\ UNCHANGED resets

(* The features analyze may hold once wait_for returns a value: a trace    *)
(* replaces the pending features through extract_from_trace, None (no w3,  *)
(* or replay_transaction raised) keeps them.  Computed once per request.   *)
SimulatedFeatures ==
    [r \in RequestIds |->
        {IF t = NoTrace THEN ExtractFromPending(Requests[r].tx)
         ELSE ExtractFromTrace(t) : t \in Requests[r].replays}]

(* Mutant: a replay that answers after the timeout is still applied.       *)
SimulationReturnsLate(r, d) ==
    /\ pc[r] # "queued"
    /\ \E f \in SimulatedFeatures[r] : Complete(r, stats, f, FALSE, d)
    /\ UNCHANGED resets

(* wait_for returns _simulate_transaction's value before the timeout.     *)
SimulationReturns(r, d) ==
    /\ pc[r] = "simulating"
    /\ \E f \in SimulatedFeatures[r] : Complete(r, stats, f, FALSE, d)
    /\ UNCHANGED resets

(* wait_for raises TimeoutError: simulation_timeout, pending features.     *)
SimulationTimesOut(r, d) ==
    /\ pc[r] = "simulating"
    /\ Complete(r, stats, ExtractFromPending(Requests[r].tx), TRUE, d)
    /\ UNCHANGED resets

(* reset_stats                                                             *)
ResetStats ==
    /\ resets < MaxResets
    /\ stats' = EmptyStats
    /\ resets' = resets + 1
    /\ UNCHANGED <<pc, results>>

Resolve(r) ==
    \E d \in DecisionValues : SimulationReturns(r, d) \/ SimulationTimesOut(r, d)

Next ==
    \/ \E r \in RequestIds : Start(r) \/ Resolve(r)
    \/ ResetStats

(* The event loop runs every ready task, and wait_for's timer ends every   *)
(* wait; so each task that can start or resume eventually does.            *)
Spec == Init /\ [][Next]_vars
        /\ \A r \in RequestIds : WF_vars(Start(r)) /\ WF_vars(Resolve(r))
-----------------------------------------------------------------------------
(* Properties.                                                             *)

ResultType ==
    [is_suspicious : BOOLEAN, risk_level : {"low", "medium", "high", "critical"},
     recommendation : {"allow", "monitor", "flag", "block"},
     risk_indicators : Seq(STRING),
     heuristic_result : {"safe", "suspicious", "unknown"}]

(* Every variable has its type, and no more than max_concurrent analyses   *)
(* are inside the semaphore at once.                                       *)
TypeOK ==
    /\ pc \in [RequestIds -> {"queued", "simulating", "done"}]
    /\ stats \in [total_analyzed : Nat, safe_filtered : Nat,
                  suspicious_detected : Nat, ml_analyzed : Nat]
    /\ \A r \in RequestIds : results[r] = NoResult \/ results[r] \in ResultType
    /\ resets \in 0..MaxResets
    /\ Cardinality(InFlight) <= MaxConcurrent

(* The counters get_stats reports describe one population: the analyses   *)
(* filtered as safe and the analyses that reached the detector are among   *)
(* those counted in total_analyzed, and so are the suspicious ones.        *)
StatsConsistent ==
    /\ stats.safe_filtered + stats.ml_analyzed <= stats.total_analyzed
    /\ stats.suspicious_detected <= stats.total_analyzed - stats.safe_filtered

(* analyze_batch refines AnalyzeCalls: each request gets exactly one       *)
(* result, eventually, and a returned result is never replaced, whatever   *)
(* the order in which replays answer, time out and take the semaphore.     *)
Calls == INSTANCE AnalyzeCalls
            WITH Calls <- RequestIds, Answers <- ResultType,
                 NoAnswer <- NoResult, answer <- results
AnalyzeReturnsOnce == Calls!Spec

=============================================================================
