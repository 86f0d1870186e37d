\* Every trace class and detector value as the first analysis, then a few
\* more analyses interleaved with callback registrations.
CONSTANTS
    ProtocolAddresses <- MCProtocolAddresses
    OperationSelectors <- MCOperationSelectors
    AnomalyThreshold = 650
    EnableBoundsCheck = TRUE
    Traces <- FullTraces
    DecisionValues <- MCDecisionValues
    HasModel = TRUE
    EnableProtocolFilter = TRUE
    MinAlertLevel = "medium"
    Callbacks = {"console", "webhook"}
    RaisingCallbacks = {"webhook"}
    InitialCallbacks <- MCInitialCallbacks
    MaxAnalyses = 3
    MaxCallbacks = 3
    NoSignal = NoSignal
SPECIFICATION MCSpec
INVARIANT TypeOK FlashLoanNeverDiscounted AlertsReachEveryCallback ValidationMatchesEngine
CHECK_DEADLOCK FALSE
