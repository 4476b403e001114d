------------------------------ MODULE Http2Pool ------------------------------
(***************************************************************************)
(* The HTTP/2 connection pool (src/pkg/stream/http2/connpool.go).          *)
(*                                                                         *)
(* A pool keeps one activeClient, a multiplexed connection, behind p.mux.  *)
(* NewStream callers take the mux to find or replace the active client,    *)
(* then, outside the mux, ask the cluster's resource manager whether a     *)
(* request may be created (CanCreate) and later count it (Increase).       *)
(* Stream destruction gives the request back (Decrease).  A GOAWAY frame,  *)
(* read by the connection's read loop, marks a client goaway; NewStream    *)
(* then replaces it.  A close event reads the goaway flag and, if it is    *)
(* unset, takes the mux and clears p.activeClient - whichever client that  *)
(* is by then.                                                             *)
(*                                                                         *)
(* Clients are numbered in creation order 1..MaxClients.  Statistics      *)
(* counters (HostStats, ClusterInfo().Stats()) are left out; the resource *)
(* manager's request count is kept, as it decides admission.               *)
(***************************************************************************)
EXTENDS Integers

CONSTANTS
    Callers,      \* goroutines calling NewStream
    MaxRequests,  \* the resource manager's max requests
    MaxClients    \* bound: number of clients the model may create

Clients == 1..MaxClients
NoClient == 0

VARIABLES
    active,        \* p.activeClient (NoClient: nil)
    nClients,      \* clients created so far
    cstate,        \* cstate[c]: "unused", "open" or "closed" connection of client c
    goaway,        \* goaway[c]: activeClient.goaway = 1
    closeWithActiveReq, \* activeClient.closeWithActiveReq
    clearing,      \* clearing[c]: c's close event passed the goaway check (line 151)
    requests,      \* the resource manager's request count
    streams,       \* streams[c]: live streams created on client c
    caller,        \* caller[t]: where NewStream caller t is
    callerClient   \* callerClient[t]: the activeClient t obtained

vars == <<active, nClients, cstate, goaway, closeWithActiveReq, clearing,
          requests, streams, caller, callerClient>>

-----------------------------------------------------------------------------
(* NewConnPool: no client yet.                                             *)
Init ==
    /\ active = NoClient
    /\ nClients = 0
    /\ cstate = [c \in Clients |-> "unused"]
    /\ goaway = [c \in Clients |-> FALSE]
    /\ closeWithActiveReq = [c \in Clients |-> FALSE]
    /\ clearing = [c \in Clients |-> FALSE]
    /\ requests = 0
    /\ streams = [c \in Clients |-> 0]
    /\ caller = [t \in Callers |-> "idle"]
    /\ callerClient = [t \in Callers |-> NoClient]

(* newActiveClient: CreateConnection, the client registered as connection *)
(* listener, then Connect.  On a Connect error it returns nil (the        *)
(* connection's ConnectFailed/ConnectTimeout events only count);          *)
(* otherwise the client gets its stream client (createStreamClient).       *)
(* The outcomes: the state of the new connection and the client returned. *)
NewActiveClient(c) ==
    {[conn |-> "open", ac |-> c], [conn |-> "closed", ac |-> NoClient]}

(* NewStream, the closure under p.mux: drop a goaway client, create one    *)
(* with newActiveClient if there is none.  A nil client makes NewStream    *)
(* return ConnectionFailure.                                               *)
Acquire(t) ==
    /\ caller[t] = "idle"
    /\ LET cur == IF active # NoClient /\ goaway[active] THEN NoClient ELSE active
       IN IF cur # NoClient
          THEN /\ caller' = [caller EXCEPT ![t] = "admit"]
               /\ callerClient' = [callerClient EXCEPT ![t] = cur]
               /\ UNCHANGED <<active, nClients, cstate>>
          ELSE /\ nClients < MaxClients
               /\ LET c == nClients + 1 IN
                  /\ nClients' = c
                  /\ \E o \in NewActiveClient(c) :
                        /\ cstate' = [cstate EXCEPT ![c] = o.conn]
                        /\ active' = o.ac
                        /\ caller' = [caller EXCEPT ![t] = IF o.ac = NoClient THEN "idle" ELSE "admit"]
                        /\ callerClient' = [callerClient EXCEPT ![t] = IF o.ac = NoClient THEN @ ELSE c]
    /\ UNCHANGED <<goaway, closeWithActiveReq, clearing, requests, streams>>

(* NewStream: ResourceManager().Requests().CanCreate(), or Overflow.       *)
Admit(t) ==
    /\ caller[t] = "admit"
    /\ caller' = [caller EXCEPT ![t] = IF requests < MaxRequests THEN "increase" ELSE "idle"]
    /\ UNCHANGED <<active, nClients, cstate, goaway, closeWithActiveReq, clearing,
                   requests, streams, callerClient>>

(* NewStream: Requests().Increase(), then client.NewStream on the client   *)
(* obtained under the mux, with the client as stream event listener.      *)
Increase(t) ==
    /\ caller[t] = "increase"
    /\ requests' = requests + 1
    /\ streams' = [streams EXCEPT ![callerClient[t]] = @ + 1]
    /\ caller' = [caller EXCEPT ![t] = "idle"]
    /\ UNCHANGED <<active, nClients, cstate, goaway, closeWithActiveReq, clearing,
                   callerClient>>

(* OnDestroyStream -> onStreamDestroy: Requests().Decrease().              *)
StreamDestroy(c) ==
    /\ streams[c] > 0
    /\ streams' = [streams EXCEPT ![c] = @ - 1]
    /\ requests' = requests - 1
    /\ UNCHANGED <<active, nClients, cstate, goaway, closeWithActiveReq, clearing,
                   caller, callerClient>>

(* OnResetStream -> onStreamReset with StreamConnectionTermination or     *)
(* StreamConnectionFailed: the client is marked closeWithActiveReq.  The  *)
(* local and remote reset reasons only increment statistics.             *)
StreamReset(c) ==
    /\ streams[c] > 0
    /\ closeWithActiveReq' = [closeWithActiveReq EXCEPT ![c] = TRUE]
    /\ UNCHANGED <<active, nClients, cstate, goaway, clearing, requests, streams,
                   caller, callerClient>>

(* OnGoAway, from c's read loop: a frame read while the connection was    *)
(* open, delivered possibly while its close event is being handled.       *)
GoAway(c) ==
    /\ cstate[c] = "open" \/ clearing[c]
    /\ ~goaway[c]
    /\ goaway' = [goaway EXCEPT ![c] = TRUE]
    /\ UNCHANGED <<active, nClients, cstate, closeWithActiveReq, clearing, requests,
                   streams, caller, callerClient>>

(* c's connection closes (remote close, I/O error, or a local Close) and  *)
(* onConnectionEvent runs: "if goaway == 1 { return }".                    *)
CloseClient(c) ==
    /\ cstate' = [cstate EXCEPT ![c] = "closed"]
    /\ clearing' = [clearing EXCEPT ![c] = ~goaway[c]]

CloseEvent(c) ==
    /\ cstate[c] = "open"
    /\ CloseClient(c)
    /\ UNCHANGED <<active, nClients, goaway, closeWithActiveReq, requests, streams,
                   caller, callerClient>>

(* onConnectionEvent: p.mux.Lock(); p.activeClient = nil; Unlock().        *)
ClearActive(c) ==
    /\ clearing[c]
    /\ active' = NoClient
    /\ clearing' = [clearing EXCEPT ![c] = FALSE]
    /\ UNCHANGED <<nClients, cstate, goaway, closeWithActiveReq, requests, streams,
                   caller, callerClient>>

(* ConnPool.Close: activeClient.client.Close() on the active client; the   *)
(* close event runs in the closing thread.                                 *)
PoolClose ==
    /\ active # NoClient
    /\ cstate[active] = "open"
    /\ CloseClient(active)
    /\ UNCHANGED <<active, nClients, goaway, closeWithActiveReq, requests, streams,
                   caller, callerClient>>

Next ==
    \/ \E t \in Callers : Acquire(t) \/ Admit(t) \/ Increase(t)
    \/ \E c \in Clients :
          \/ StreamDestroy(c) \/ StreamReset(c) \/ GoAway(c)
          \/ CloseEvent(c) \/ ClearActive(c)
    \/ PoolClose

Spec == Init /\ [][Next]_vars

-----------------------------------------------------------------------------
TypeOK ==
    /\ active \in Clients \cup {NoClient}
    /\ nClients \in 0..MaxClients
    /\ cstate \in [Clients -> {"unused", "open", "closed"}]
    /\ goaway \in [Clients -> BOOLEAN]
    /\ closeWithActiveReq \in [Clients -> BOOLEAN]
    /\ clearing \in [Clients -> BOOLEAN]
    /\ requests \in Int
    /\ streams \in [Clients -> Nat]
    /\ caller \in [Callers -> {"idle", "admit", "increase"}]
    /\ callerClient \in [Callers -> Clients \cup {NoClient}]

(* The pool never admits more requests than the resource manager allows   *)
(* (spec 4.5.a: new_stream checks request_active < max).                  *)
RequestsWithinLimit == requests <= MaxRequests

(* Every open client that has not received GOAWAY is the pool's active    *)
(* client, or its close event is about to clear it: otherwise NewStream   *)
(* never uses it again and ConnPool.Close never closes it.                 *)
NoLeakedClient ==
    \A c \in Clients :
        cstate[c] = "open" /\ ~goaway[c] => c = active \/ clearing[c]

=============================================================================
