---------------------------- MODULE MCBufferPool ----------------------------
(* Model-checking instance of BufferPool: three requests.                   *)
EXTENDS BufferPool

CONSTANTS q1, q2, q3

MCRequests == {q1, q2, q3}

=============================================================================
