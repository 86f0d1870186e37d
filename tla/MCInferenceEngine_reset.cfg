\* The batch with one reset_stats while analyses are in flight.
CONSTANTS
    ProtocolAddresses <- MCProtocolAddresses
    OperationSelectors <- MCOperationSelectors
    AnomalyThreshold = 650
    EnableBoundsCheck = TRUE
    SafeSelectors <- MCSafeSelectors
    SuspiciousSelectors <- MCSuspiciousSelectors
    WhitelistedContracts <- MCWhitelistedContracts
    FlashLoanSignatures <- MCFlashLoanSignatures
    IndicatorHashOrder <- MCIndicatorHashOrder
    Requests <- MCRequests
    DecisionValues <- MCDecisionValues
    HasModel = TRUE
    EnableSimulation = TRUE
    MaxConcurrent = 2
    MaxResets = 1
    NoTrace = NoTrace
    NoResult = NoResult
SPECIFICATION Spec
CHECK_DEADLOCK FALSE
INVARIANT StatsConsistent
