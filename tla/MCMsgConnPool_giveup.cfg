\* A close event racing the reset of the try counter.
CONSTANTS
    AutoReconnect = TRUE
    ConnTryTimes = 1
    MaxConns = 3
SPECIFICATION Spec
INVARIANT NoSilentGiveUp
CHECK_DEADLOCK FALSE
