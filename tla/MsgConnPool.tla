----------------------------- MODULE MsgConnPool -----------------------------
(***************************************************************************)
(* The message connection pool with auto-reconnect                          *)
(* (src/pkg/stream/connpool/msgconnpool/connpool.go).                       *)
(*                                                                         *)
(* One pool owns one activeClient, which owns the current connection       *)
(* (connData).  Every connection the client creates has the client as an   *)
(* event listener; a close event on any of them runs OnEvent, which either *)
(* schedules a reconnect goroutine (autoReconnectWhenClose) or removes the *)
(* client from the pool.  A reconnect goroutine sleeps for its backoff,    *)
(* takes reconnectLock, counts the try and runs initConnection.            *)
(*                                                                         *)
(* Actors.  Actor 0 is the thread that runs NewConn, whose first           *)
(* initConnection runs without the lock.  Reconnect goroutines are named   *)
(* by the connection whose close event spawned them: a connection closes   *)
(* at most once (Close is idempotent in the connection layer), so the      *)
(* names never collide.  Backoff durations are not modelled: a sleeping    *)
(* goroutine may wake at any time, which covers every backoff.             *)
(*                                                                         *)
(* Connections are numbered in creation order 1..MaxConns; a connection   *)
(* is "unused" (not created yet), "open" or "closed".  Dial failure,      *)
(* remote close, read/write errors and keepalive failure all close a      *)
(* connection and deliver one close event to its listeners, synchronously *)
(* in the closing thread, as the connection layer does.                   *)
(***************************************************************************)
EXTENDS Integers, FiniteSets

CONSTANTS
    AutoReconnect,   \* connpool.autoReconnectWhenClose
    ConnTryTimes,    \* the connectTryTimes argument of NewConn (-1: unlimited)
    MaxConns         \* bound: number of connections the model may create

ASSUME ConstantsAssumption ==
    /\ AutoReconnect \in BOOLEAN
    /\ ConnTryTimes \in Nat \cup {-1}
    /\ MaxConns \in Nat \ {0}

MaxInt32 == 2147483647  \* math.MaxInt32

\* NewConn: "if user configure this to -1, then retry is unlimited".
TryLimit == IF ConnTryTimes = -1 THEN MaxInt32 ELSE ConnTryTimes

Conns == 1..MaxConns
Actors == {0} \cup Conns
NoConn == 0

\* The steps of the code an actor can be at.  "sleep": a reconnect goroutine
\* before its lock; "dial" .. "reset": inside initConnection.
PCs == {"idle", "sleep", "dial", "failCheck", "failStore",
        "store", "destroyCheck", "reset", "done"}

CloseEvents == {"RemoteClose", "OnReadErrClose", "OnWriteErrClose",
                "OnWriteTimeout", "ConnectTimeout", "ConnectFailed", "LocalClose"}

VARIABLES
    conn,            \* conn[c]: state of connection c
    nConns,          \* connections created so far
    connData,        \* activeClient.connData (NoConn: nil)
    client,          \* connpool.client # nil
    destroyed,       \* connpool.destroyed = 1
    connectTryTimes, \* activeClient.connectTryTimes
    reconnectLock,   \* holder of activeClient.reconnectLock (NoConn: free)
    pc,              \* pc[a]: where actor a is
    created,         \* created[a]: createConnData of a's running initConnection
    destroyState,    \* progress of the user's Destroy call
    lastEvent        \* the last event activeClient.OnEvent received

vars == <<conn, nConns, connData, client, destroyed, connectTryTimes,
          reconnectLock, pc, created, destroyState, lastEvent>>

-----------------------------------------------------------------------------
(* Variant of OnEvent whose switch falls through to RECONN for every event *)
(* (a `default: goto RECONN`), including Connected and OnReadTimeout.      *)
HandlesEventAny(e) == e \in CloseEvents \cup {"Connected"}

(* OnEvent: which events send the client to RECONN.                        *)
HandlesEvent(e) == e \in CloseEvents

(* Variant of reconnect() with the limit test off by one (> for >=).       *)
SpawnsReconnectAtLimit == ~destroyed /\ connectTryTimes <= TryLimit

(* reconnect(): the guards before GoWithRecover.                           *)
SpawnsReconnect == ~destroyed /\ connectTryTimes < TryLimit

(* The effect of delivering event e of connection c to activeClient.OnEvent *)
(* on the actors (a reconnect goroutine named c may be spawned) and on the *)
(* pool's client (removeFromPool).                                         *)
PcAfterEvent(p, c, e) ==
    IF HandlesEvent(e) /\ AutoReconnect /\ SpawnsReconnect
    THEN [p EXCEPT ![c] = "sleep"] ELSE p

ClientAfterEvent(e) ==
    IF HandlesEvent(e) /\ ~AutoReconnect THEN FALSE ELSE client

(* Connection.Close(c, e) called with actors p: an open connection closes  *)
(* and delivers e; closing a closed connection does nothing.               *)
CloseConn(c, e, p) ==
    IF conn[c] = "open"
    THEN /\ conn' = [conn EXCEPT ![c] = "closed"]
         /\ pc' = PcAfterEvent(p, c, e)
         /\ client' = ClientAfterEvent(e)
         /\ lastEvent' = e
    ELSE /\ conn' = conn
         /\ pc' = p
         /\ client' = client
         /\ lastEvent' = lastEvent

(* initConnection returns: a reconnect goroutine releases reconnectLock    *)
(* (deferred Unlock).                                                      *)
Release(a) == reconnectLock' = IF a = 0 THEN reconnectLock ELSE NoConn

-----------------------------------------------------------------------------
(* NewConn: the pool with its client; actor 0 is about to dial.            *)
Init ==
    /\ conn = [c \in Conns |-> "unused"]
    /\ nConns = 0
    /\ connData = NoConn
    /\ client = TRUE
    /\ destroyed = FALSE
    /\ connectTryTimes = 0
    /\ reconnectLock = NoConn
    /\ pc = [a \in Actors |-> IF a = 0 THEN "dial" ELSE "idle"]
    /\ created = [a \in Actors |-> NoConn]
    /\ destroyState = "none"
    /\ lastEvent = "none"

(* Variant of Wake that forgets to count the try (no connectTryTimes++).   *)
WakeNoCount(g) ==
    /\ pc[g] = "sleep"
    /\ reconnectLock = NoConn
    /\ IF destroyed
       THEN pc' = [pc EXCEPT ![g] = "done"] /\ reconnectLock' = NoConn
       ELSE pc' = [pc EXCEPT ![g] = "dial"] /\ reconnectLock' = g
    /\ UNCHANGED <<conn, nConns, connData, client, destroyed, connectTryTimes,
                   created, destroyState, lastEvent>>

(* Reconnect goroutine g: sleep, Lock, connectTryTimes++, and stop if the  *)
(* pool was destroyed meanwhile.                                           *)
Wake(g) ==
    /\ pc[g] = "sleep"
    /\ reconnectLock = NoConn
    /\ connectTryTimes' = connectTryTimes + 1
    /\ IF destroyed
       THEN pc' = [pc EXCEPT ![g] = "done"] /\ reconnectLock' = NoConn
       ELSE pc' = [pc EXCEPT ![g] = "dial"] /\ reconnectLock' = g
    /\ UNCHANGED <<conn, nConns, connData, client, destroyed, created, destroyState,
                   lastEvent>>

(* initConnection: CreateConnection, AddConnectionEventListener, Connect.  *)
(* A failed Connect closes the new connection and delivers ConnectFailed   *)
(* or ConnectTimeout to the client before Connect returns.                 *)
Dial(a) ==
    /\ pc[a] = "dial"
    /\ nConns < MaxConns
    /\ LET c == nConns + 1 IN
       /\ nConns' = c
       /\ created' = [created EXCEPT ![a] = c]
       /\ \/ /\ conn' = [conn EXCEPT ![c] = "open"]
             /\ pc' = PcAfterEvent([pc EXCEPT ![a] = "store"], c, "Connected")
             /\ lastEvent' = "Connected"
             /\ UNCHANGED client
          \/ \E e \in {"ConnectFailed", "ConnectTimeout"} :
             /\ conn' = [conn EXCEPT ![c] = "closed"]
             /\ pc' = PcAfterEvent([pc EXCEPT ![a] = "failCheck"], c, e)
             /\ client' = ClientAfterEvent(e)
             /\ lastEvent' = e
    /\ UNCHANGED <<connData, destroyed, connectTryTimes, reconnectLock, destroyState>>

(* Variant of FailCheck whose early return forgets reconnectLock.Unlock().  *)
FailCheckKeepLock(a) ==
    /\ pc[a] = "failCheck"
    /\ IF connData = NoConn
       THEN pc' = [pc EXCEPT ![a] = "failStore"]
       ELSE pc' = [pc EXCEPT ![a] = "done"]
    /\ UNCHANGED <<conn, nConns, connData, client, destroyed, connectTryTimes,
                   reconnectLock, created, destroyState, lastEvent>>

(* Connect failed: "if ac.getConnData() == nil { // the first time".       *)
FailCheck(a) ==
    /\ pc[a] = "failCheck"
    /\ IF connData = NoConn
       THEN pc' = [pc EXCEPT ![a] = "failStore"] /\ UNCHANGED reconnectLock
       ELSE pc' = [pc EXCEPT ![a] = "done"] /\ Release(a)
    /\ UNCHANGED <<conn, nConns, connData, client, destroyed, connectTryTimes,
                   created, destroyState, lastEvent>>

(* ac.connData.Store(&createConnData) of the failed connection.            *)
FailStore(a) ==
    /\ pc[a] = "failStore"
    /\ connData' = created[a]
    /\ pc' = [pc EXCEPT ![a] = "done"]
    /\ Release(a)
    /\ UNCHANGED <<conn, nConns, client, destroyed, connectTryTimes, created,
                   destroyState, lastEvent>>

(* Connect succeeded: ac.connData.Store(&createConnData).                  *)
Store(a) ==
    /\ pc[a] = "store"
    /\ connData' = created[a]
    /\ pc' = [pc EXCEPT ![a] = "destroyCheck"]
    /\ UNCHANGED <<conn, nConns, client, destroyed, connectTryTimes,
                   reconnectLock, created, destroyState, lastEvent>>

(* "if pool was destroyed, but connection was connected, we need to close  *)
(* it"; otherwise install the read filters and the new heartbeat, which    *)
(* touch no pool state.                                                    *)
DestroyCheck(a) ==
    /\ pc[a] = "destroyCheck"
    /\ IF destroyed
       THEN /\ CloseConn(connData, "LocalClose", [pc EXCEPT ![a] = "done"])
            /\ Release(a)
       ELSE /\ pc' = [pc EXCEPT ![a] = "reset"]
            /\ UNCHANGED <<conn, client, reconnectLock, lastEvent>>
    /\ UNCHANGED <<nConns, connData, destroyed, connectTryTimes, created,
                   destroyState>>

(* "clear retry times", and initConnection returns.                        *)
Reset(a) ==
    /\ pc[a] = "reset"
    /\ connectTryTimes' = 0
    /\ pc' = [pc EXCEPT ![a] = "done"]
    /\ Release(a)
    /\ UNCHANGED <<conn, nConns, connData, client, destroyed, created,
                   destroyState, lastEvent>>

(* The peer or the network closes connection c: RemoteClose, a read error, *)
(* a write timeout, or the keepalive's heartbeat failing (OnReadErrClose). *)
RemoteClose(c) ==
    /\ conn[c] = "open"
    /\ \E e \in {"RemoteClose", "OnReadErrClose", "OnWriteTimeout"} :
          CloseConn(c, e, pc)
    /\ UNCHANGED <<nConns, connData, destroyed, connectTryTimes, reconnectLock,
                   created, destroyState>>

(* connpool.isActive.  A nil connData counts as active, as in the code.    *)
IsActive ==
    /\ ~destroyed
    /\ client
    /\ connData # NoConn => conn[connData] = "open"

(* connpool.Write, once NewConn has returned, on an active pool whose      *)
(* write fails: the connection closes with OnWriteErrClose.  A successful  *)
(* or refused Write changes no state.                                      *)
Write ==
    /\ pc[0] = "done"
    /\ IsActive
    /\ connData # NoConn
    /\ CloseConn(connData, "OnWriteErrClose", pc)
    /\ UNCHANGED <<nConns, connData, destroyed, connectTryTimes, reconnectLock,
                   created, destroyState>>

(* connpool.Destroy, first statement: atomic.StoreUint64(&p.destroyed, 1). *)
DestroyFlag ==
    /\ pc[0] = "done"
    /\ destroyState = "none"
    /\ destroyed' = TRUE
    /\ destroyState' = "flagged"
    /\ UNCHANGED <<conn, nConns, connData, client, connectTryTimes,
                   reconnectLock, pc, created, lastEvent>>

(* connpool.Destroy, second statement: p.client.getConnData().Connection   *)
(* .Close(NoFlush, LocalClose).  With p.client nil the call dereferences   *)
(* nil and panics.                                                         *)
DestroyClose ==
    /\ destroyState = "flagged"
    /\ IF client
       THEN /\ CloseConn(connData, "LocalClose", pc)
            /\ destroyState' = "done"
       ELSE /\ destroyState' = "panicked"
            /\ UNCHANGED <<conn, pc, client, lastEvent>>
    /\ UNCHANGED <<nConns, connData, destroyed, connectTryTimes, reconnectLock,
                   created>>

Next ==
    \/ \E g \in Conns : Wake(g)
    \/ \E a \in Actors :
          \/ Dial(a) \/ FailCheck(a) \/ FailStore(a)
          \/ Store(a) \/ DestroyCheck(a) \/ Reset(a)
    \/ \E c \in Conns : RemoteClose(c)
    \/ Write
    \/ DestroyFlag
    \/ DestroyClose

Spec == Init /\ [][Next]_vars

(* The steps of actor a: the NewConn thread or reconnect goroutine a.      *)
ActorStep(a) ==
    \/ Wake(a) \/ Dial(a) \/ FailCheck(a) \/ FailStore(a)
    \/ Store(a) \/ DestroyCheck(a) \/ Reset(a)

(* Go's scheduler runs every runnable goroutine eventually, so an actor    *)
(* whose next step is enabled takes it.  Closes, writes and Destroy are    *)
(* the peer's and the user's, and need not happen.                         *)
FairSpec == Spec /\ \A a \in Actors : WF_vars(ActorStep(a))

-----------------------------------------------------------------------------
(* No actor is running or waiting: every goroutine has returned.          *)
Quiescent == \A a \in Actors : pc[a] \in {"idle", "done"}

OpenConns == {c \in Conns : conn[c] = "open"}

TypeOK ==
    /\ conn \in [Conns -> {"unused", "open", "closed"}]
    /\ nConns \in 0..MaxConns
    /\ connData \in Conns \cup {NoConn}
    /\ client \in BOOLEAN
    /\ destroyed \in BOOLEAN
    /\ connectTryTimes \in Nat
    /\ reconnectLock \in Conns \cup {NoConn}
    /\ pc \in [Actors -> PCs]
    /\ created \in [Actors -> Conns \cup {NoConn}]
    /\ destroyState \in {"none", "flagged", "done", "panicked"}
    /\ lastEvent \in {"none", "Connected"} \cup CloseEvents

(* The try counter never passes the configured limit: reconnect() checks   *)
(* connectTryTimes >= connTryTimes before spawning, and the spawned        *)
(* goroutine increments it later, under the lock, when other goroutines    *)
(* or a reset may have changed it.                                         *)
TriesBounded == connectTryTimes <= TryLimit

(* An actor that is reconnecting or dialling: a reconnect goroutine         *)
(* waiting for its backoff and lock, or any actor inside Connect.           *)
Busy(a) == pc[a] \in {"sleep", "dial"}

(* Reconnection is a single chain: at any moment at most one of the        *)
(* following exists - an open connection, a reconnect goroutine waiting   *)
(* for its backoff and lock, an actor dialling.  So the pool never holds   *)
(* two connections to the endpoint and never dials while one is open,     *)
(* although close events, reconnect goroutines and NewConn interleave.    *)
SingleChain ==
    /\ \A c, d \in OpenConns : c = d
    /\ \A a, b \in Actors : Busy(a) /\ Busy(b) => a = b
    /\ \A a \in Actors : Busy(a) => OpenConns = {}

(* The inductive strengthening of TriesBounded and SingleChain that the   *)
(* proofs use, one conjunct per fact.                                     *)
\* Connections are created in order 1, 2, ...
CreatedInOrder == \A c \in Conns : conn[c] = "unused" <=> c > nConns
\* A reconnect goroutine named c runs only after connection c closed.
SpawnedAfterClose == \A c \in Conns : conn[c] # "closed" => pc[c] = "idle"
\* An actor past Connect holds the connection it created.
PastConnect ==
    \A a \in Actors : pc[a] \in {"failCheck", "failStore", "store", "destroyCheck", "reset"}
                        => created[a] \in Conns
\* connData is set once an actor has stored it, and when NewConn returns.
Stored(a) == pc[a] \in {"destroyCheck", "reset"} \/ (a = 0 /\ pc[a] = "done")
ConnDataSet == (\E a \in Actors : Stored(a)) => connData \in Conns
\* Destroy is called on the pool NewConn returned.
DestroyAfterNew == destroyState # "none" => pc[0] = "done" /\ destroyed
\* Actor 0 is the NewConn thread, never a reconnect goroutine.
NewConnRunning == pc[0] \notin {"idle", "sleep"}
\* A waiting goroutine was spawned with a try to spare, and no try has
\* been spent since.
SleeperHasTry == \A g \in Conns : pc[g] = "sleep" => connectTryTimes < TryLimit

IInv ==
    /\ TypeOK
    /\ TriesBounded
    /\ SingleChain
    /\ CreatedInOrder
    /\ SpawnedAfterClose
    /\ PastConnect
    /\ ConnDataSet
    /\ DestroyAfterNew
    /\ NewConnRunning
    /\ SleeperHasTry

(* The phase of the reconnect chain (ReconnectChain) the pool is in: an   *)
(* actor inside Connect, a reconnect goroutine in its backoff, an open     *)
(* connection, or none of them.  SingleChain makes these exclusive.        *)
ChainPhase ==
    IF \E a \in Actors : pc[a] = "dial" THEN "dialing"
    ELSE IF \E g \in Conns : pc[g] = "sleep" THEN "backoff"
    ELSE IF OpenConns # {} THEN "connected"
    ELSE "down"

Chain == INSTANCE ReconnectChain
            WITH Limit <- TryLimit, phase <- ChainPhase, tries <- connectTryTimes

(* The pool implements the abstract reconnect chain: a close event or a    *)
(* failed dial schedules a reconnect only with a try to spare, every      *)
(* reconnect goroutine counts exactly one try when it takes the lock, a   *)
(* dial happens only from the first NewConn call or a reconnect, and only *)
(* "clear retry times" lowers the count - across every interleaving of    *)
(* close events, reconnect goroutines, NewConn and Destroy.                *)
ChainRefined == Chain!Spec

(* A reconnect goroutine waiting for its backoff and reconnectLock        *)
(* eventually gets the lock and runs: every path out of initConnection     *)
(* releases the lock, and no two reconnect goroutines wait at once.        *)
SleeperWakes == \A g \in Conns : pc[g] = "sleep" ~> pc[g] # "sleep"

(* A pool that is not destroyed, reconnects on close, has no open          *)
(* connection and still has tries left is never left with nobody trying  *)
(* to reconnect (spec 4.5.b: on any close event the pool schedules a      *)
(* reconnect unless try_count exceeds max_tries).                          *)
NoSilentGiveUp ==
    ~ ( /\ Quiescent
        /\ pc[0] = "done"
        /\ ~destroyed
        /\ AutoReconnect
        /\ client
        /\ OpenConns = {}
        /\ connectTryTimes < TryLimit )

(* Every open connection is tracked by the pool: it is connData, or an     *)
(* actor has just connected it and is about to store it.  An untracked    *)
(* open connection is never used by Write and never closed by Destroy.    *)
NoOrphanConnection ==
    \A c \in OpenConns :
        \/ c = connData
        \/ \E a \in Actors : pc[a] = "store" /\ created[a] = c

=============================================================================
