\* Two replays whose hashes give the same port, no caller timeout.
CONSTANTS
    r1 = r1
    r2 = r2
    r3 = r3
    Replays = {r1, r2, r3}
    TxHash <- CollidingHashes
    OnOrigin <- MCOnOrigin
    CallerTimeout = FALSE
    NoReplay = NoReplay
SPECIFICATION Spec
INVARIANT TraceFromOwnFork
CHECK_DEADLOCK FALSE
