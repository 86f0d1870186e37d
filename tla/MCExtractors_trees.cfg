\* Every call tree of up to three calls under every receipt, and every
\* contract-creation code of up to three bytes plus the proxy codes, and
\* every storage-change list of one change and some of two; the traced
\* ones as _build_trace makes them and as loaded back from their JSON.
CONSTANTS
    Aave = Aave
    Other = Other
    FlashSel = FlashSel
    CallbackSel = CallbackSel
    TransferSel = TransferSel
    TransferTopicV = TransferTopicV
    AaveEvent = AaveEvent
    NoCallV = NoCallV
    NoTraceV = NoTraceV
    FlashLoanSigs = {FlashSel}
    CallbackSigs = {CallbackSel}
    TransferSigs = {TransferSel}
    ProviderOf <- MCProviderOf
    FlashEventTopics <- MCFlashEventTopics
    TransferTopic = TransferTopicV
    Traces <- MCTraces
    NoCall = NoCallV
    NoTrace = NoTraceV
    NoCodeV = NoCodeV
    AbsentV = AbsentV
    Absent = AbsentV
    EmptyJsonV = EmptyJsonV
    EmptyJson = EmptyJsonV
    NoCode = NoCodeV
    MalformedV = MalformedV
    Malformed = MalformedV
    LargeChange = 2
    ProxySlots <- MCProxySlots
    CloneDigits <- MCCloneDigits
SPECIFICATION Spec
\* extract_from_trace is stateless: one call is the whole behaviour.
CHECK_DEADLOCK FALSE
INVARIANT TypeOK OpcodeCountsMatchTree FlashFeaturesMatchTree BytecodeFeaturesMatchCode StateFeaturesMatchChanges CallCountsSurviveReload
