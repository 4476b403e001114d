\* Two downstream request ids, counter bounded at 4.
CONSTANTS
    r1 = r1
    r2 = r2
    ReqIds <- MCReqIds
    MaxIds = 4
SPECIFICATION Spec
INVARIANT ResponsesCarryRequestId
CHECK_DEADLOCK FALSE
