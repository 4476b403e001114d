-------------------------- MODULE MCClusterManager --------------------------
(* Model-checking instance of ClusterManager: one static cluster with two  *)
(* hosts, one dynamic cluster, three addresses and two request goroutines. *)
EXTENDS ClusterManager

CONSTANTS c1, c2, a1, a2, a3, w1, w2

MCClusters == {c1, c2}
MCStatic == {c1}
MCInitHosts == [c \in MCStatic |-> <<a1, a2>>]
MCHostLists == {<<a3>>, <<a1, a2, a3>>}
MCHostListsSmall == {<<a3>>}
MCAddrs == {a1, a2, a3}
MCWorkers == {w1, w2}

=============================================================================
