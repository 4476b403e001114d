----------------------------- MODULE MCXStream -----------------------------
(* Model-checking instance of XStream: two downstream request ids.         *)
EXTENDS XStream

CONSTANTS r1, r2

MCReqIds == {r1, r2}

=============================================================================
