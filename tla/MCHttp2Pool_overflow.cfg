\* Two callers admitted against a limit of one request.
CONSTANTS
    t1 = t1
    t2 = t2
    Callers <- MCCallers
    MaxRequests = 1
    MaxClients = 2
SPECIFICATION Spec
INVARIANT RequestsWithinLimit
CHECK_DEADLOCK FALSE
