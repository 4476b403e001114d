--------------------------- MODULE MCGrpcFactory ---------------------------
(* Model-checking instance of GrpcFactory: two server names, two        *)
(* listeners.                                                              *)
EXTENDS GrpcFactory

CONSTANTS s1, s2, l1, l2

MCNames == {s1, s2}
MCFactories == {l1, l2}

=============================================================================
