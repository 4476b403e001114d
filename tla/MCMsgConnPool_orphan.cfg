\* NewConn's first store of connData racing the first reconnect goroutine.
CONSTANTS
    AutoReconnect = TRUE
    ConnTryTimes = 2
    MaxConns = 3
SPECIFICATION Spec
INVARIANT NoOrphanConnection
CHECK_DEADLOCK FALSE
