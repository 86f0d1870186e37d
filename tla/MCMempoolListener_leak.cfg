\* A second start before stop: the first task's session and websocket.
CONSTANTS
    BufferSize = 2
    MaxTx = 4
    MaxStarts = 2
    ConnectFails = FALSE
SPECIFICATION Spec
INVARIANT NoLeakedConnection
CHECK_DEADLOCK FALSE
