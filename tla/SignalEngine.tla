--------------------------- MODULE SignalEngine ---------------------------
(***************************************************************************)
(* SignalEngine (inference/signal.py): the signal-only engine.  One        *)
(* analyze_async call is one atomic step: it runs on the event loop and    *)
(* awaits only extract_from_trace, which without a chain handle completes  *)
(* without suspending, so two analyses never interleave inside it.         *)
(* Callbacks are identified by model values; RaisingCallbacks are the ones *)
(* whose call raises an Exception.                                         *)
(***************************************************************************)
EXTENDS RiskScoring

CONSTANTS
    Traces,               \* the TransactionTraces that may arrive
    DecisionValues,       \* forest decision_function values, thousandths
    HasModel,             \* SignalEngine(model_path=...) given
    EnableProtocolFilter, \* SignalEngine(enable_protocol_filter=...)
    MinAlertLevel,        \* SignalEngine(min_alert_level=...)
    Callbacks,            \* the alert callbacks that may be registered
    RaisingCallbacks,     \* callbacks whose call raises
    InitialCallbacks,     \* SignalEngine(alert_callbacks=...)
    MaxAnalyses,          \* bound on analyze_async calls
    MaxCallbacks,         \* bound on the length of alert_callbacks
    NoSignal              \* model value: no signal returned yet

ASSUME /\ \A d \in DecisionValues : d % 2 = 0
       /\ RaisingCallbacks \subseteq Callbacks
       /\ MinAlertLevel \in Levels
       /\ Len(InitialCallbacks) <= MaxCallbacks

VARIABLES
    alert_callbacks,  \* self.alert_callbacks, a sequence of callbacks
    stats,            \* self._stats (without the latency sum)
    deliveries,       \* every callback(signal) call made: [sig, cb]
    signals,          \* auxiliary: per returned signal, its level and the
                      \* number of callbacks registered when it was emitted
    lastSignal,       \* the RiskSignal the last analyze_async returned
    lastFeatures      \* auxiliary: the features that signal was built from

vars == <<alert_callbacks, stats, deliveries, signals, lastSignal, lastFeatures>>

Init ==
    /\ alert_callbacks = InitialCallbacks
    /\ stats = [total_analyzed |-> 0, byLevel |-> [l \in Levels |-> 0],
                protocol_adjustments |-> 0]
    /\ deliveries = <<>>
    /\ signals = <<>>
    /\ lastSignal = NoSignal
    /\ lastFeatures = NoSignal

-----------------------------------------------------------------------------
(* Mutant: the try/except moved outside the loop, so the first raising    *)
(* callback ends the fan-out.                                              *)
EmitAlertsStopOnRaise(sig, level, cbs) ==
    LET raising == {k \in 1..Len(cbs) : cbs[k] \in RaisingCallbacks}
        last == IF raising = {} THEN Len(cbs)
                ELSE CHOOSE k \in raising : \A j \in raising : k <= j
    IN  IF RiskPriority[level] >= RiskPriority[MinAlertLevel]
        THEN [k \in 1..last |-> [sig |-> sig, cb |-> cbs[k]]]
        ELSE <<>>

(* _emit_alerts: every registered callback is called in order; an         *)
(* exception is logged and the loop goes on.                               *)
EmitAlerts(sig, level, cbs) ==
    IF RiskPriority[level] >= RiskPriority[MinAlertLevel]
    THEN [k \in 1..Len(cbs) |-> [sig |-> sig, cb |-> cbs[k]]]
    ELSE <<>>

(* The counter updates of analyze_async; with the filter disabled the      *)
(* adjustment is 0.                                                        *)
CountAnalysis(s, level, adjustment) ==
    [total_analyzed |-> s.total_analyzed + 1,
     byLevel |-> [s.byLevel EXCEPT ![level] = @ + 1],
     protocol_adjustments |->
         s.protocol_adjustments + (IF adjustment # 0 THEN 1 ELSE 0)]

(* analyze_async(trace): extract, heuristics, detector, _compute_risk,     *)
(* protocol filter and _score_to_level, stats, _emit_alerts.               *)
AnalyzeAsync(t, d) ==
    /\ stats.total_analyzed < MaxAnalyses
    /\ LET features == ExtractFromTrace(t)
           heuristic == FilterWithFeatures(features)
           ml == IF HasModel THEN Predict(d) ELSE NoDetection
           risk == ComputeRisk(heuristic, ml)
           pf == FilterProtocol(features, risk.score, t.to, t.selector)
           filtered == EnableProtocolFilter
           adjustment == IF filtered THEN pf.adjustment ELSE 0
           score == IF filtered THEN pf.adjusted ELSE 100 * risk.score
           level == IF filtered THEN ScoreToLevel(score) ELSE risk.level
           n == stats.total_analyzed + 1
           signal == [risk_level |-> level, risk_score |-> score,
                      raw_risk_score |-> 100 * risk.score,
                      risk_adjustment |-> adjustment,
                      protocol |-> IF filtered THEN pf.protocol ELSE Unknown,
                      operation |-> IF filtered THEN pf.operation ELSE Unknown,
                      heuristic_result |-> heuristic.result,
                      risk_indicators |-> heuristic.indicators,
                      ml_score |-> IF HasModel THEN ml.score ELSE 0,
                      has_flash_loan |-> features.fl.has]
       IN  /\ stats' = CountAnalysis(stats, level, adjustment)
           /\ deliveries' = deliveries \o EmitAlerts(n, level, alert_callbacks)
           /\ signals' = Append(signals, [level |-> level,
                                          callbacks |-> Len(alert_callbacks)])
           /\ lastSignal' = signal
           /\ lastFeatures' = features
    /\ UNCHANGED alert_callbacks

(* add_alert_callback(callback)                                            *)
AddAlertCallback(c) ==
    /\ Len(alert_callbacks) < MaxCallbacks
    /\ alert_callbacks' = Append(alert_callbacks, c)
    /\ UNCHANGED <<stats, deliveries, signals, lastSignal, lastFeatures>>

Next ==
    \/ \E t \in Traces, d \in DecisionValues : AnalyzeAsync(t, d)
    \/ \E c \in Callbacks : AddAlertCallback(c)

Spec == Init /\ [][Next]_vars

-----------------------------------------------------------------------------
(* Properties.                                                             *)

SignalType ==
    [risk_level : Levels, risk_score : 0..1000000, raw_risk_score : 0..1000000,
     risk_adjustment : -50..50, protocol : STRING, operation : STRING,
     heuristic_result : {"safe", "suspicious", "unknown"},
     risk_indicators : Seq(STRING), ml_score : 0..1000, has_flash_loan : BOOLEAN]

(* Every state variable holds a value of its type; in particular every     *)
(* signal's adjustment lies in [-0.5, 0.5] and its scores in [0, 1], the   *)
(* clamps of _calculate_risk_adjustment and ProtocolFilter.filter.         *)
TypeOK ==
    /\ alert_callbacks \in Seq(Callbacks)
    /\ Len(alert_callbacks) <= MaxCallbacks
    /\ stats.total_analyzed \in 0..MaxAnalyses
    /\ stats.byLevel \in [Levels -> 0..MaxAnalyses]
    /\ stats.protocol_adjustments \in 0..MaxAnalyses
    /\ lastSignal = NoSignal \/ lastSignal \in SignalType

(* No combination of the protocol filter's discounts lowers the score of   *)
(* a transaction that took a flash loan inside an operation that is not a  *)
(* flash-loan operation: the +0.35 penalty outweighs every discount of     *)
(* _calculate_risk_adjustment.                                             *)
FlashLoanNeverDiscounted ==
    lastSignal # NoSignal
    /\ lastSignal.has_flash_loan
    /\ lastSignal.operation \notin FlashLoanOperations
    => lastSignal.risk_score >= lastSignal.raw_risk_score

(* _emit_alerts: every signal at or above min_alert_level is handed to     *)
(* every callback registered when it was emitted, once each and in         *)
(* registration order, even when an earlier callback raised; a signal      *)
(* below the minimum reaches no callback.                                  *)
AlertsReachEveryCallback ==
    \A i \in 1..Len(signals) :
        LET got == SelectSeq(deliveries, LAMBDA e : e.sig = i)
            due == IF RiskPriority[signals[i].level] >= RiskPriority[MinAlertLevel]
                   THEN SubSeq(alert_callbacks, 1, signals[i].callbacks)
                   ELSE <<>>
        IN  [k \in 1..Len(got) |-> got[k].cb] = due

(* scripts/validate_real_traces.py reports, for each exploit trace, the   *)
(* decision of its own copy of the engine's _make_decision.  On the       *)
(* features and detector result of the signal just returned, the copy     *)
(* agrees with InferenceEngine._make_decision (no replay timeout) on      *)
(* is_suspicious and risk_level, and reports BLOCK or FLAG (the counts    *)
(* main prints) exactly when the engine recommends block or flag.  The    *)
(* detector result is a function of the score the signal carries.         *)
ValidationMatchesEngine ==
    HasModel /\ lastSignal # NoSignal =>
        LET s == lastSignal.ml_score
            ml == [present |-> TRUE, score |-> s, isAnomaly |-> s >= AnomalyThreshold,
                   confidence |-> DetectorConfidence(s)]
            eng == MakeDecision(FilterWithFeatures(lastFeatures), ml, FALSE)
            scr == ValidateTrace(lastFeatures, ml)
        IN  /\ scr.is_suspicious = eng.is_suspicious
            /\ scr.risk_level = eng.risk_level
            /\ (scr.recommendation \in {"BLOCK", "FLAG"}
                   <=> eng.recommendation \in {"block", "flag"})

=============================================================================
