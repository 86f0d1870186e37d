\* A batch of four analyses through a semaphore of two, with one reset_stats.
CONSTANTS
    ProtocolAddresses <- MCProtocolAddresses
    OperationSelectors <- MCOperationSelectors
    AnomalyThreshold = 650
    EnableBoundsCheck = TRUE
    SafeSelectors <- MCSafeSelectors
    SuspiciousSelectors <- MCSuspiciousSelectors
    WhitelistedContracts <- MCWhitelistedContracts
    FlashLoanSignatures <- MCFlashLoanSignatures
    IndicatorHashOrder <- MCIndicatorHashOrder
    Requests <- MCRequests
    DecisionValues <- MCDecisionValues
    HasModel = TRUE
    EnableSimulation = TRUE
    MaxConcurrent = 2
    MaxResets = 1
    NoTrace = NoTrace
    NoResult = NoResult
SPECIFICATION Spec
INVARIANT TypeOK
PROPERTY AnalyzeReturnsOnce
CHECK_DEADLOCK FALSE
