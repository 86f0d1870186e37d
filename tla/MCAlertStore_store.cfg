\* Alerts, analysis records and metrics under every order of calls.
CONSTANTS
    AlertIds <- MCAlertIds
    RecordIds <- MCRecordIds
    r1 = r1
    r2 = r2
    r3 = r3
    tx1 = tx1
    tx2 = tx2
    MetricIds <- MCMetricIds
    TxHashes <- MCTxHashes
    Clients = {c1}
    Reviewers = {alice}
    Notes = {n1}
    HistoryDays = {1}
    StartHour = 24
    HourStep = 12
    MaxHour = 72
    None = None
SPECIFICATION Spec
SYMMETRY MCSymmetry
INVARIANT TypeOK AnalysisByTxIsLatest MetricsHistoryComplete LatestMetricsInHistory
