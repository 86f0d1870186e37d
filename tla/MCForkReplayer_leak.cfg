\* Replays under the caller's wait_for: does any anvil outlive its call?
CONSTANTS
    r1 = r1
    r2 = r2
    r3 = r3
    Replays = {r1, r2, r3}
    TxHash <- DistinctHashes
    OnOrigin <- MCOnOrigin
    CallerTimeout = TRUE
    NoReplay = NoReplay
SPECIFICATION Spec
INVARIANT NoLeakedAnvil
CHECK_DEADLOCK FALSE
