\* Two starts, a queue of two over four transactions, failing connects.
CONSTANTS
    BufferSize = 2
    MaxTx = 4
    MaxStarts = 2
    ConnectFails = TRUE
SPECIFICATION Spec
INVARIANT TypeOK StatsConserved

CHECK_DEADLOCK FALSE
