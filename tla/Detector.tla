------------------------------- MODULE Detector -------------------------------
(***************************************************************************)
(* The life of an IsolationForestDetector (models/isolation_forest.py) and *)
(* of the artifact it saves: a training process (scripts/train_model.py,   *)
(* or any caller of the class) constructs a detector, trains it, changes   *)
(* its threshold and saves it with joblib; engine processes               *)
(* (InferenceEngine, SignalEngine) load the artifact once, when they are  *)
(* constructed, and predict with it.  A training matrix is a model value; *)
(* a fitted forest is known by the matrix it was fitted on, and its        *)
(* decision_function on an input is DecisionOf[matrix][input], in         *)
(* thousandths.  The StandardScaler is fitted on the same matrix, so a     *)
(* fitted scaler and forest agree; the scaling itself is in DecisionOf.    *)
(***************************************************************************)
EXTENDS Integers, TLC

CONSTANTS
    DataSets,          \* training matrices with at least one row
    Inputs,            \* feature vectors predict is called on
    DecisionOf,        \* matrix -> input -> decision_function, thousandths
    Thresholds,        \* thresholds in [0, 1] given to __init__ or update_threshold
    DefaultThreshold,  \* __init__'s default threshold, 0.65
    FitOutcomes,       \* what fitting may do: "ok", "scaler_raises", "forest_raises"
    EngineThresholds,  \* anomaly_threshold values given to InferenceEngine
    Engines,           \* engine processes that load the artifact
    MaxTrains,         \* bound on train calls
    BenchSamples,      \* the synthetic benchmark's transactions: the input,
                       \* the label, tx_type and the vector fields read back
    None               \* Python None, and a missing artifact file

ASSUME /\ Thresholds \cup {DefaultThreshold} \subseteq 0..1000
       /\ \A m \in DataSets, x \in Inputs : DecisionOf[m][x] % 2 = 0

Fitted(m) == [data |-> m, fitted |-> TRUE]
Unfitted(m) == [data |-> m, fitted |-> FALSE]

VARIABLES
    det,       \* the training process's detector: threshold, model, scaler, is_trained
    trains,    \* train calls made
    artifact,  \* the joblib file: the saved fields, or None
    engines    \* per engine process: the detector it loaded, or None

vars == <<det, trains, artifact, engines>>

(* __init__: no model, no scaler, not trained.                              *)
NewDetector(th) == [threshold |-> th, model |-> None, scaler |-> None, trained |-> FALSE]

Init ==
    /\ det = NewDetector(DefaultThreshold)
    /\ trains = 0
    /\ artifact = None
    /\ engines = [e \in Engines |-> None]

-----------------------------------------------------------------------------
(* _normalize_score: 0.5 - raw / 2, clipped to [0, 1].                     *)
NormalizeScore(raw) ==
    LET s == 500 - raw \div 2 IN IF s < 0 THEN 0 ELSE IF s > 1000 THEN 1000 ELSE s

(* Mutant: the min(..., 1.0) dropped.                                      *)
CalculateConfidenceUnclipped(s, th) == 500 + (IF s >= th THEN s - th ELSE th - s)

(* _calculate_confidence: min(0.5 + |score - threshold|, 1.0).             *)
CalculateConfidence(s, th) ==
    LET c == 500 + (IF s >= th THEN s - th ELSE th - s) IN IF c > 1000 THEN 1000 ELSE c

(* predict(features): RuntimeError unless is_trained and a model and a     *)
(* scaler are set; an unfitted scaler or forest raises sklearn's           *)
(* NotFittedError; otherwise the score, is_anomaly and confidence.  An     *)
(* error outcome carries zero fields.                                      *)
Raised(err) == [error |-> err, score |-> 0, is_anomaly |-> FALSE, confidence |-> 0]

PredictOutcome(d, x) ==
    IF ~d.trained \/ d.model = None \/ d.scaler = None THEN Raised("not_trained")
    ELSE IF ~d.scaler.fitted \/ ~d.model.fitted THEN Raised("not_fitted")
    ELSE LET s == NormalizeScore(DecisionOf[d.model.data][x])
         IN [error |-> "none", score |-> s, is_anomaly |-> s >= d.threshold,
             confidence |-> CalculateConfidence(s, d.threshold)]

-----------------------------------------------------------------------------
(* IsolationForestDetector(contamination, threshold): a training run       *)
(* starts from a new object.                                               *)
Construct(th) ==
    /\ det' = NewDetector(th)
    /\ UNCHANGED <<trains, artifact, engines>>

(* train(X) on a non-empty matrix: self.scaler is replaced by a new        *)
(* StandardScaler before fit_transform, self.model by a new forest before  *)
(* fit, and is_trained is set only after fit returns.  A step that raises  *)
(* leaves what was assigned before it.  (An empty X raises ValueError      *)
(* before any assignment and changes nothing.)                             *)
Train(m, outcome) ==
    /\ trains < MaxTrains
    /\ trains' = trains + 1
    /\ det' = CASE outcome = "scaler_raises" -> [det EXCEPT !.scaler = Unfitted(m)]
                [] outcome = "forest_raises" -> [det EXCEPT !.scaler = Fitted(m),
                                                             !.model = Unfitted(m)]
                [] outcome = "ok" -> [det EXCEPT !.scaler = Fitted(m), !.model = Fitted(m),
                                                 !.trained = TRUE]
    /\ UNCHANGED <<artifact, engines>>

(* update_threshold(t) with 0 <= t <= 1 (others raise ValueError).         *)
UpdateThreshold(th) ==
    /\ det' = [det EXCEPT !.threshold = th]
    /\ UNCHANGED <<trains, artifact, engines>>

(* save(path): RuntimeError unless is_trained; joblib.dump of the model,   *)
(* the scaler and the threshold, replacing the file.  from records which   *)
(* detector wrote it.                                                      *)
Save ==
    /\ det.trained
    /\ artifact' = [model |-> det.model, scaler |-> det.scaler,
                    threshold |-> det.threshold, from |-> det]
    /\ UNCHANGED <<det, trains, engines>>

(* scripts/train_model.py, run as its own process: train_and_evaluate     *)
(* builds IsolationForestDetector(contamination, threshold=--threshold),   *)
(* trains it on the benign split, evaluates it and re-predicts the test     *)
(* split (neither changes the detector), and main saves it.  A train that  *)
(* raises ends the process before the save and changes no file.            *)
TrainModelMain(th, m) ==
    /\ artifact' = LET d == [NewDetector(th) EXCEPT !.scaler = Fitted(m),
                                                    !.model = Fitted(m), !.trained = TRUE]
                   IN [model |-> d.model, scaler |-> d.scaler, threshold |-> th, from |-> d]
    /\ UNCHANGED <<det, trains, engines>>

(* Mutant: load builds the detector with the default threshold.            *)
LoadDefaultThreshold(a) ==
    [threshold |-> DefaultThreshold, model |-> a.model, scaler |-> a.scaler, trained |-> TRUE]

(* IsolationForestDetector.load: cls(threshold=saved threshold), then the  *)
(* saved model and scaler, and is_trained = True.                          *)
Load(a) == [threshold |-> a.threshold, model |-> a.model, scaler |-> a.scaler, trained |-> TRUE]

(* InferenceEngine(model_path=..., anomaly_threshold=at).__init__ loads    *)
(* the artifact (FileNotFoundError when there is none: no engine) and      *)
(* keeps anomaly_threshold in a field nothing reads.                       *)
EngineStart(e, at) ==
    /\ engines[e] = None
    /\ artifact # None
    /\ engines' = [engines EXCEPT ![e] = [det |-> Load(artifact), from |-> artifact.from,
                                          anomaly_threshold |-> at]]
    /\ UNCHANGED <<det, trains, artifact>>

(* scripts/benchmark_with_protocol_filter.py, a process of its own: it    *)
(* loads the artifact, scores every benign and attack vector with         *)
(* predict_single, and runs each score through a ProtocolFilter().  The   *)
(* filter is RiskScoring's, with the one table entry the script's calls   *)
(* reach.                                                                 *)
UniswapV2Router == "0x7a250d5630b4cf539739df2c5dacb4c659f2488d"
SwapSelector == "0x38ed1739"

Filter == INSTANCE RiskScoring WITH
    ProtocolAddresses <- UniswapV2Router :> "uniswap_v2",
    OperationSelectors <- SwapSelector :> "swap",
    AnomalyThreshold <- DefaultThreshold,
    EnableBoundsCheck <- TRUE

(* TX_TYPE_TO_CONTEXT: the benign types whose protocol is not UNKNOWN, the*)
(* only part of the table main reads to choose the filter's inputs.       *)
ContextTypes == {"dex_swap", "dex_add_liquidity", "lending_deposit", "lending_borrow",
                 "staking", "bridge_deposit"}

(* is_flagged = adjusted_score >= 0.49, in thousandths.                   *)
FlagCut == 490

(* features_from_vector: the fields the filter reads; a flag is vector[i] *)
(* > 0.5 and gas_used is tx_data's, 100000 when absent (gas in units of   *)
(* 100000, value in units of 10^21 wei).                                  *)
FeaturesFromVector(v, gas) ==
    [fl |-> [has |-> v.flash > 500], sv |-> [contracts |-> v.contracts, maxDelta |-> v.delta],
     gasUsed |-> gas]

(* Mutant: every transaction filtered with the router and the swap        *)
(* selector.                                                              *)
BenchFilterAlwaysContext(s, score) ==
    Filter!FilterProtocol(FeaturesFromVector(s.vector, s.gas), 10 * score,
                          UniswapV2Router, SwapSelector)

(* One transaction of main's second pass: a benign one of a type with     *)
(* protocol context is filtered as a Uniswap V2 swap (the router and      *)
(* swapExactTokensForTokens, whatever its type), every other one with no  *)
(* address and no input.                                                  *)
BenchFilter(s, score) ==
    IF s.label = "benign" /\ s.tx_type \in ContextTypes
    THEN Filter!FilterProtocol(FeaturesFromVector(s.vector, s.gas), 10 * score,
                               UniswapV2Router, SwapSelector)
    ELSE Filter!FilterProtocol(FeaturesFromVector(s.vector, s.gas), 10 * score,
                               Filter!NoAddress, Filter!NoSelector)

(* main on a loaded detector d: ml_flagged is predict_single's is_anomaly,*)
(* is_flagged the filtered score against the cut.  A predict_single that  *)
(* raises ends the script before it writes its results.                   *)
BenchmarkMain(d) ==
    LET out(s) == PredictOutcome(d, s.input)
        crashed == \E s \in BenchSamples : out(s).error # "none"
    IN  [crashed |-> crashed,
         mlFlagged |-> IF crashed THEN {} ELSE {s \in BenchSamples : out(s).is_anomaly},
         flagged |-> IF crashed THEN {}
                     ELSE {s \in BenchSamples : BenchFilter(s, out(s).score).adjusted
                                                   >= FlagCut * 1000}]

Next ==
    \/ \E th \in Thresholds : Construct(th) \/ UpdateThreshold(th)
    \/ \E m \in DataSets, o \in FitOutcomes : Train(m, o)
    \/ Save
    \/ \E th \in Thresholds, m \in DataSets : TrainModelMain(th, m)
    \/ \E e \in Engines, at \in EngineThresholds : EngineStart(e, at)

Spec == Init /\ [][Next]_vars
-----------------------------------------------------------------------------
Outcomes == {Raised("not_trained"), Raised("not_fitted")} \cup
            [error : {"none"}, score : 0..1000, is_anomaly : BOOLEAN, confidence : 500..1000]

DetectorState == [threshold : Thresholds \cup {DefaultThreshold},
                  model : {None} \cup [data : DataSets, fitted : BOOLEAN],
                  scaler : {None} \cup [data : DataSets, fitted : BOOLEAN],
                  trained : BOOLEAN]

TypeOK ==
    /\ det \in DetectorState
    /\ trains \in 0..MaxTrains
    /\ artifact = None \/ artifact.from \in DetectorState
    /\ \A e \in Engines : engines[e] = None \/ engines[e].det \in DetectorState
    /\ \A x \in Inputs : PredictOutcome(det, x) \in Outcomes

(* An engine that loaded the artifact answers every predict exactly as the *)
(* detector that saved it did at the moment of the save (same score, same  *)
(* is_anomaly, same confidence, or the same error), whatever the training  *)
(* process did afterwards: save writes the threshold and load passes it to *)
(* the constructor.                                                        *)
LoadedDetectorPredictsAsSaved ==
    \A e \in Engines : engines[e] # None =>
        \A x \in Inputs : PredictOutcome(engines[e].det, x) = PredictOutcome(engines[e].from, x)

(* save refuses an untrained detector, so an engine that starts from the   *)
(* saved artifact can score every transaction: its predict neither raises  *)
(* "Model not trained" nor finds an unfitted scaler or forest.             *)
EngineDetectorCanPredict ==
    \A e \in Engines : engines[e] # None =>
        \A x \in Inputs : PredictOutcome(engines[e].det, x).error = "none"

(* The benchmark's "Recall Preserved": for an artifact whose threshold is *)
(* at least the script's 0.49 cut, every attack the detector flags on its *)
(* own is still flagged after the protocol filter, whatever detector was  *)
(* saved and re-thresholded: attacks get no protocol context, so no       *)
(* discount applies and the flash-loan penalty only raises the score.     *)
BenchmarkRecallPreserved ==
    artifact # None /\ artifact.threshold >= FlagCut =>
        LET b == BenchmarkMain(Load(artifact))
        IN  ~b.crashed => {s \in b.mlFlagged : s.label = "attack"} \subseteq b.flagged
====
