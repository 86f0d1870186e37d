\* Three replays with distinct ports, cancelled by the caller's wait_for at any await.
CONSTANTS
    r1 = r1
    r2 = r2
    r3 = r3
    Replays = {r1, r2, r3}
    TxHash <- DistinctHashes
    OnOrigin <- MCOnOrigin
    CallerTimeout = TRUE
    NoReplay = NoReplay
SPECIFICATION Spec
INVARIANT TypeOK
INVARIANT AnvilStoppedAfterBody
PROPERTY ReplayTerminates
CHECK_DEADLOCK FALSE
