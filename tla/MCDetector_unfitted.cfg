\* An engine that loads the artifact of a detector whose retrain failed.
\* save checks is_trained only.
CONSTANTS
    X1 = X1
    X2 = X2
    Tx1 = Tx1
    Tx2 = Tx2
    DataSets = {X1, X2}
    Inputs = {Tx1, Tx2}
    DecisionOf <- MCDecisionOf
    Thresholds = {500, 650, 1000}
    DefaultThreshold = 650
    FitOutcomes = {"ok", "scaler_raises", "forest_raises"}
    EngineThresholds = {650, 900}
    Engines = {e1, e2}
    MaxTrains = 2
    BenchSamples <- MCBenchSamples
    None = None
SPECIFICATION Spec
INVARIANTS

    EngineDetectorCanPredict
