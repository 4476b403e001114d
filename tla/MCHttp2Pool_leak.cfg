\* A close event racing GOAWAY and a NewStream that replaces the client.
CONSTANTS
    t1 = t1
    t2 = t2
    Callers <- MCCallers
    MaxRequests = 1
    MaxClients = 3
SPECIFICATION Spec
INVARIANT NoLeakedClient
CHECK_DEADLOCK FALSE
