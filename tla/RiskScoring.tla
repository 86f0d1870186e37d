---------------------------- MODULE RiskScoring ----------------------------
(***************************************************************************)
(* The scoring pipeline of sentinel_brain, as pure operators:              *)
(*   FeatureAggregator.extract_from_trace without a chain handle           *)
(*                                       (features/aggregator.py)          *)
(*   HeuristicFilter.filter_with_features (models/heuristics.py)           *)
(*   IsolationForestDetector score and confidence                          *)
(*                                       (models/isolation_forest.py)      *)
(*   SignalEngine._compute_risk and _score_to_level (inference/signal.py)  *)
(*   ProtocolFilter identify/check_bounds/adjustment/filter                *)
(*                                       (models/protocol_filter.py)       *)
(*                                                                         *)
(* Numbers are fixed point so that every product the code forms is exact:  *)
(* confidences and the detector score in thousandths, the raw risk score   *)
(* and the raw confidence in ten-thousandths, the adjusted risk score in   *)
(* millionths, the risk adjustment in hundredths.  Wei amounts are in      *)
(* units of 10^21 wei and gas in units of 100000.                          *)
(*                                                                         *)
(* A trace reaches this module with its flash-loan, state-variance and     *)
(* call-tree summaries already extracted (fields fl, sv, op); the          *)
(* bytecode summary is computed here, as the aggregator does.              *)
(***************************************************************************)
EXTENDS Integers, Sequences, TLC

CONSTANTS
    ProtocolAddresses,   \* PROTOCOL_ADDRESSES: address -> protocol tag
    OperationSelectors,  \* OPERATION_SELECTORS: selector -> operation tag
    AnomalyThreshold,    \* IsolationForestDetector.threshold, thousandths
    EnableBoundsCheck    \* ProtocolFilter(enable_bounds_check=...)

ASSUME AnomalyThreshold \in 0..1000
ASSUME EnableBoundsCheck \in BOOLEAN

Unknown == "unknown"      \* Protocol.UNKNOWN / OperationType.UNKNOWN
NoAddress == "none"       \* to_address is None (contract creation)
NoSelector == "short"     \* input shorter than a 4-byte selector
\* input_data "0x": no creation code
NoCode == [present |-> FALSE, matchesExploit |-> FALSE, selfdestruct |-> FALSE]
\* ml_result is None (no ml_detector)
NoDetection == [present |-> FALSE, score |-> 0, isAnomaly |-> FALSE, confidence |-> 0]

Levels == {"safe", "low", "medium", "high", "critical"}
RiskPriority == [l \in Levels |->
                   CASE l = "safe" -> 0 [] l = "low" -> 1 [] l = "medium" -> 2
                     [] l = "high" -> 3 [] l = "critical" -> 4]

MinOf(a, b) == IF a <= b THEN a ELSE b
Clip(x, lo, hi) == IF x < lo THEN lo ELSE IF x > hi THEN hi ELSE x
Abs(x) == IF x < 0 THEN -x ELSE x
Tag(cond, t) == IF cond THEN <<t>> ELSE <<>>

-----------------------------------------------------------------------------
(* Thresholds of filter_with_features, in the units above.                 *)
LargeFlashLoan == 1000     \* total_borrowed > 10**24
ExtremeValueDelta == 10    \* max_value_delta > 10**22

(* BytecodeExtractor: no chain handle gives _empty_features, input "0x"    *)
(* gives _eoa_features (the same record, age 0);                           *)
(* extract_from_bytecode never sets an age, and with no exploit registry   *)
(* _calculate_max_jaccard is 0.                                            *)
EmptyBytecode ==
    [isContract |-> FALSE, matchesExploit |-> FALSE, jaccard |-> 0,
     age |-> 0, selfdestruct |-> FALSE]

ExtractFromBytecode(code) ==
    IF ~code.present THEN EmptyBytecode
    ELSE [isContract |-> TRUE, matchesExploit |-> code.matchesExploit,
          jaccard |-> 0, age |-> 0, selfdestruct |-> code.selfdestruct]

(* FeatureAggregator.extract_from_trace(trace) with w3 = None.             *)
ExtractFromTrace(t) ==
    [fl |-> t.fl, sv |-> t.sv, op |-> t.op, gasUsed |-> t.gasUsed,
     bc |-> IF t.to = NoAddress THEN ExtractFromBytecode(t.code)
            ELSE EmptyBytecode]

-----------------------------------------------------------------------------
HeuristicResult(result, confidence, indicators) ==
    [result |-> result, confidence |-> confidence, indicators |-> indicators]

(* HeuristicFilter.filter_with_features: indicators in the order the       *)
(* checks run; a known-exploit match returns before the bytecode and       *)
(* call-tree checks.                                                       *)
FilterWithFeatures(f) ==
    LET hasFlashLoan == f.fl.has
        hasLargeChanges == f.sv.large > 3
        hasManyTransfers == f.sv.changes > 10
        hasHighValue == f.sv.maxDelta > ExtremeValueDelta
        early == Tag(hasFlashLoan, "flash_loan_detected")
              \o Tag(hasFlashLoan /\ f.fl.nested, "nested_flash_loans")
              \o Tag(hasFlashLoan /\ f.fl.borrowed > LargeFlashLoan,
                     "large_flash_loan")
              \o Tag(hasFlashLoan /\ (hasLargeChanges \/ hasManyTransfers
                                      \/ hasHighValue),
                     "flash_loan_with_complex_activity")
              \o Tag(f.sv.highVariance, "high_state_variance")
              \o Tag(hasLargeChanges, "multiple_large_changes")
              \o Tag(hasHighValue, "extreme_value_movement")
        late == Tag(f.bc.jaccard > 700, "high_bytecode_similarity")
             \o Tag(f.bc.age < 100, "new_contract")
             \o Tag(f.bc.selfdestruct, "selfdestruct_opcode")
             \o Tag(f.op.delegatecall > 0, "uses_delegatecall")
             \o Tag(f.op.create2 > 0, "uses_create2")
             \o Tag(f.op.depth > 10, "deep_call_stack")
             \o Tag(f.op.calls > 50, "high_call_count")
        all == early \o late
        n == Len(all)
    IN  CASE f.bc.matchesExploit ->
               HeuristicResult("suspicious", 950,
                               early \o <<"matches_known_exploit">>)
          [] n = 0  -> HeuristicResult("safe", 800, <<>>)
          [] n >= 3 -> HeuristicResult("suspicious", MinOf(500 + 100 * n, 950), all)
          [] OTHER  -> HeuristicResult("unknown", 500, all)

-----------------------------------------------------------------------------
(* IsolationForestDetector.predict from the forest's decision value d      *)
(* (thousandths, even): _normalize_score and _calculate_confidence.        *)
NormalizeScore(d) == Clip(500 - d \div 2, 0, 1000)

DetectorConfidence(s) == MinOf(500 + Abs(s - AnomalyThreshold), 1000)

Predict(d) ==
    LET s == NormalizeScore(d)
    IN  [present |-> TRUE, score |-> s, isAnomaly |-> s >= AnomalyThreshold,
         confidence |-> DetectorConfidence(s)]

(* SignalEngine._compute_risk: weighted score and confidence, then the     *)
(* level cascade (first match wins).                                       *)
ComputeRisk(h, ml) ==
    LET hScore == 100 * Len(h.indicators)
        hasMl == ml.present
        anomaly == hasMl /\ ml.isAnomaly
        score == IF hasMl THEN 4 * hScore + 6 * ml.score ELSE 10 * hScore
        conf == IF hasMl THEN 4 * h.confidence + 6 * ml.confidence
                ELSE 10 * h.confidence
        level == CASE h.result = "suspicious" /\ h.confidence > 900 -> "critical"
                   [] h.result = "suspicious" /\ anomaly -> "high"
                   [] h.result = "suspicious" -> "medium"
                   [] anomaly -> IF ml.confidence > 700 THEN "medium" ELSE "low"
                   [] Len(h.indicators) >= 2 -> "low"
                   [] OTHER -> "safe"
    IN  [level |-> level, score |-> MinOf(score, 10000),
         confidence |-> MinOf(conf, 10000)]

Decision(suspicious, level, recommendation) ==
    [is_suspicious |-> suspicious, risk_level |-> level,
     recommendation |-> recommendation]

(* InferenceEngine._make_decision (first match wins).                      *)
MakeDecision(h, ml, timeout) ==
    CASE h.result = "suspicious" /\ h.confidence > 900 -> Decision(TRUE, "critical", "block")
      [] ml.present /\ ml.isAnomaly /\ ml.confidence > 800 -> Decision(TRUE, "high", "block")
      [] h.result = "suspicious" ->
           IF ml.present /\ ml.score > 500 THEN Decision(TRUE, "high", "block")
           ELSE Decision(TRUE, "medium", "flag")
      [] timeout /\ ((ml.present /\ ml.score > 300) \/ Len(h.indicators) >= 1) ->
           Decision(TRUE, "medium", "flag")
      [] ml.present /\ ml.isAnomaly ->
           IF h.result = "unknown" THEN Decision(TRUE, "medium", "flag")
           ELSE Decision(FALSE, "low", "monitor")
      [] Len(h.indicators) >= 2 -> Decision(FALSE, "low", "monitor")
      [] OTHER -> Decision(FALSE, "low", "allow")

(* Mutant: anomaly_score >= 0.5 in the suspicious branch.                  *)
ScriptMakeDecisionGeq(h, ml) ==
    CASE h.result = "suspicious" /\ h.confidence > 900 -> Decision(TRUE, "critical", "BLOCK")
      [] ml.isAnomaly /\ ml.confidence > 800 -> Decision(TRUE, "high", "BLOCK")
      [] h.result = "suspicious" ->
           IF ml.score >= 500 THEN Decision(TRUE, "high", "BLOCK")
           ELSE Decision(TRUE, "medium", "FLAG")
      [] ml.isAnomaly ->
           IF h.result = "unknown" THEN Decision(TRUE, "medium", "FLAG")
           ELSE Decision(FALSE, "low", "MONITOR")
      [] OTHER -> Decision(FALSE, "low", "ALLOW")

(* make_decision of scripts/validate_real_traces.py, the "replica" of the  *)
(* engine's decision: no timeout branch, no two-indicator monitor branch,  *)
(* upper-case actions.  The model always predicts, so ml_result is set.    *)
ScriptMakeDecision(h, ml) ==
    CASE h.result = "suspicious" /\ h.confidence > 900 -> Decision(TRUE, "critical", "BLOCK")
      [] ml.isAnomaly /\ ml.confidence > 800 -> Decision(TRUE, "high", "BLOCK")
      [] h.result = "suspicious" ->
           IF ml.score > 500 THEN Decision(TRUE, "high", "BLOCK")
           ELSE Decision(TRUE, "medium", "FLAG")
      [] ml.isAnomaly ->
           IF h.result = "unknown" THEN Decision(TRUE, "medium", "FLAG")
           ELSE Decision(FALSE, "low", "MONITOR")
      [] OTHER -> Decision(FALSE, "low", "ALLOW")

(* validate_trace on a trace's features and the model's prediction:        *)
(* filter_with_features, then make_decision; the rest is printing.         *)
ValidateTrace(f, ml) == ScriptMakeDecision(FilterWithFeatures(f), ml)

(* SignalEngine._score_to_level on a score in millionths.                  *)
ScoreToLevel(s) ==
    CASE s >= 700000 -> "critical"
      [] s >= 500000 -> "high"
      [] s >= 350000 -> "medium"
      [] s >= 200000 -> "low"
      [] OTHER -> "safe"

-----------------------------------------------------------------------------
(* ProtocolFilter.                                                         *)
FlashLoanOperations == {"flash_loan_arbitrage", "flash_loan_collateral_swap",
                        "liquidate"}
SafeOperations == {"swap", "add_liquidity", "deposit", "stake",
                   "claim_rewards", "governance"}

(* OPERATION_BOUNDS; 0 stands for a bound the operation does not have.     *)
OperationBounds ==
    ("swap" :> [maxGas |-> 10, maxContracts |-> 15, maxValueUsd |-> 10000000])
 @@ ("add_liquidity" :> [maxGas |-> 5, maxContracts |-> 10, maxValueUsd |-> 50000000])
 @@ ("deposit" :> [maxGas |-> 5, maxContracts |-> 10, maxValueUsd |-> 100000000])
 @@ ("borrow" :> [maxGas |-> 8, maxContracts |-> 15, maxValueUsd |-> 50000000])
 @@ ("flash_loan_arbitrage" :> [maxGas |-> 20, maxContracts |-> 0, maxValueUsd |-> 0])

IdentifyProtocol(to) ==
    IF to \in DOMAIN ProtocolAddresses THEN ProtocolAddresses[to] ELSE Unknown

IdentifyOperation(sel) ==
    IF sel \in DOMAIN OperationSelectors THEN OperationSelectors[sel] ELSE Unknown

(* check_bounds: the names of the violated bounds.  The value bound        *)
(* converts max_value_delta to USD at 2000 per ETH: one unit of 10^21 wei  *)
(* is 2 000 000 USD.                                                       *)
BoundViolations(op, f) ==
    IF ~EnableBoundsCheck \/ op \notin DOMAIN OperationBounds THEN {}
    ELSE LET b == OperationBounds[op]
         IN  (IF b.maxGas > 0 /\ f.gasUsed > b.maxGas THEN {"gas"} ELSE {})
             \cup (IF b.maxContracts > 0 /\ f.sv.contracts > b.maxContracts
                   THEN {"contracts"} ELSE {})
             \cup (IF b.maxValueUsd > 0 /\ f.sv.maxDelta * 2000000 > b.maxValueUsd
                   THEN {"value"} ELSE {})

CheckBounds(op, f) == BoundViolations(op, f) = {}

(* Mutant: the safe-operation discount without its no-flash-loan guard.    *)
CalculateRiskAdjustmentNoFlashGuard(protocol, op, knownProtocol, knownOperation, within, f) ==
    LET base == IF knownProtocol /\ knownOperation
                THEN -20 + (IF within THEN -10 ELSE 25)
                ELSE (IF knownProtocol THEN -5 ELSE 0)
                     + (IF knownOperation THEN -5 ELSE 0)
        flash == IF f.fl.has /\ op \notin FlashLoanOperations THEN 35 ELSE 0
        safe == IF knownProtocol /\ op \in SafeOperations /\ within THEN -10 ELSE 0
    IN  Clip(base + flash + safe, -50, 50)

(* _calculate_risk_adjustment, in hundredths, clamped to [-0.5, 0.5].      *)
CalculateRiskAdjustment(protocol, op, knownProtocol, knownOperation, within, f) ==
    LET base == IF knownProtocol /\ knownOperation
                THEN -20 + (IF within THEN -10 ELSE 25)
                ELSE (IF knownProtocol THEN -5 ELSE 0)
                     + (IF knownOperation THEN -5 ELSE 0)
        flash == IF f.fl.has /\ op \notin FlashLoanOperations THEN 35 ELSE 0
        safe == IF knownProtocol /\ op \in SafeOperations /\ within /\ ~f.fl.has
                THEN -10 ELSE 0
    IN  Clip(base + flash + safe, -50, 50)

(* Mutant: the adjusted score is not clamped to [0, 1].                    *)
FilterProtocolUnclamped(f, raw, to, sel) ==
    LET protocol == IdentifyProtocol(to)
        operation == IdentifyOperation(sel)
        within == CheckBounds(operation, f)
        adj == CalculateRiskAdjustment(protocol, operation, protocol # Unknown,
                                       operation # Unknown, within, f)
    IN  [protocol |-> protocol, operation |-> operation, adjustment |-> adj,
         adjusted |-> raw * (100 + adj)]

(* ProtocolFilter.filter: get_context, then raw + adjustment * raw clamped *)
(* to [0, 1]; raw in ten-thousandths, the result in millionths.            *)
FilterProtocol(f, raw, to, sel) ==
    LET protocol == IdentifyProtocol(to)
        operation == IdentifyOperation(sel)
        within == CheckBounds(operation, f)
        adj == CalculateRiskAdjustment(protocol, operation, protocol # Unknown,
                                       operation # Unknown, within, f)
    IN  [protocol |-> protocol, operation |-> operation, adjustment |-> adj,
         adjusted |-> Clip(raw * (100 + adj), 0, 1000000)]
=============================================================================
