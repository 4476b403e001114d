---------------------------- MODULE ReconnectChain ----------------------------
(***************************************************************************)
(* What the message pool's auto-reconnect promises, abstractly (spec       *)
(* 4.5.b): the pool is always in one phase of a single reconnect chain -   *)
(* dialling, connected, backing off before the next try, or down - and it  *)
(* counts its tries.  A lost connection or a failed dial schedules a       *)
(* reconnect only while a try is left; each reconnect counts one try when  *)
(* it wakes; a successful connection resets the count.  MsgConnPool        *)
(* implements this specification.                                          *)
(***************************************************************************)
EXTENDS Naturals

CONSTANT Limit   \* the number of tries NewConn allows

VARIABLES
    phase,   \* "dialing", "connected", "backoff" or "down"
    tries    \* tries counted since the last successful connection

vars == <<phase, tries>>

Init == phase = "dialing" /\ tries = 0

(* The dial succeeds.                                                      *)
Connect ==
    /\ phase = "dialing"
    /\ phase' = "connected"
    /\ UNCHANGED tries

(* The dial fails or the connection is lost: a reconnect is scheduled      *)
(* only while a try is left.                                               *)
Lose ==
    /\ phase \in {"dialing", "connected"}
    /\ \/ phase' = "down"
       \/ tries < Limit /\ phase' = "backoff"
    /\ UNCHANGED tries

(* The scheduled reconnect wakes and counts a try: it dials, or stops.    *)
Wake ==
    /\ phase = "backoff"
    /\ tries' = tries + 1
    /\ phase' \in {"dialing", "down"}

(* "clear retry times" after a successful connection.                     *)
ResetTries ==
    /\ tries' = 0
    /\ UNCHANGED phase

Next == Connect \/ Lose \/ Wake \/ ResetTries

Spec == Init /\ [][Next]_vars
=============================================================================
