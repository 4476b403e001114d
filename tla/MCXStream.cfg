\* Two downstream request ids, counter bounded at 5.
CONSTANTS
    r1 = r1
    r2 = r2
    ReqIds <- MCReqIds
    MaxIds = 5
SPECIFICATION Spec
INVARIANT InFlightRouted
CHECK_DEADLOCK FALSE
