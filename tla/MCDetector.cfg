\* The detector's lifecycle with two engine processes and up to three
\* train calls, so that a retrain can fail after a good one.
CONSTANTS
    X1 = X1
    X2 = X2
    Tx1 = Tx1
    Tx2 = Tx2
    DataSets = {X1, X2}
    Inputs = {Tx1, Tx2}
    DecisionOf <- MCDecisionOf
    Thresholds = {300, 500, 1000}
    DefaultThreshold = 650
    FitOutcomes = {"ok", "scaler_raises", "forest_raises"}
    EngineThresholds = {650, 900}
    Engines = {e1, e2}
    MaxTrains = 3
    BenchSamples <- MCBenchSamples
    None = None
SPECIFICATION Spec
INVARIANTS
    TypeOK
    LoadedDetectorPredictsAsSaved
    BenchmarkRecallPreserved
