---------------------------- MODULE MCHttp2Pool ----------------------------
(* Model-checking instance of Http2Pool: two NewStream callers.            *)
EXTENDS Http2Pool

CONSTANTS t1, t2

MCCallers == {t1, t2}

=============================================================================
