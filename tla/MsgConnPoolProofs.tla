--------------------------- MODULE MsgConnPoolProofs ---------------------------
(***************************************************************************)
(* Proofs about the message connection pool: its type invariant, and that *)
(* the reconnect try counter stays within the configured limit and the    *)
(* reconnection is a single chain, for every limit, every setting of      *)
(* autoReconnectWhenClose and every number of connections.  Both follow   *)
(* from the inductive invariant IInv, proved one lemma per action.        *)
(***************************************************************************)
EXTENDS MsgConnPool, TLAPS

USE ConstantsAssumption

(* The limit set by NewConn (math.MaxInt32 for -1) is a natural number.   *)
LEMMA TryLimitNat == TryLimit \in Nat
  BY DEF TryLimit, MaxInt32

USE DEF Conns, Actors, NoConn, PCs, CloseEvents

(* Delivering an event to the client keeps the actors' steps typed.       *)
LEMMA PcAfterEventType ==
  ASSUME NEW p \in [Actors -> PCs], NEW c \in Conns, NEW e
  PROVE  PcAfterEvent(p, c, e) \in [Actors -> PCs]
  BY DEF PcAfterEvent

-----------------------------------------------------------------------------
(* NewConn's pool is well typed.                                           *)
LEMMA TypeOKInit == Init => TypeOK
<1> SUFFICES ASSUME Init PROVE TypeOK
  OBVIOUS
<1>1. conn \in [Conns -> {"unused", "open", "closed"}] BY DEF Init
<1>2. nConns \in 0..MaxConns BY DEF Init
<1>3. pc \in [Actors -> PCs] BY DEF Init
<1>4. created \in [Actors -> Conns \cup {NoConn}] BY DEF Init
<1>5. lastEvent \in {"none", "Connected"} \cup CloseEvents BY DEF Init
<1>6. QED BY <1>1, <1>2, <1>3, <1>4, <1>5 DEF Init, TypeOK

(* Every step of the pool keeps every variable in its type.                *)
LEMMA TypeOKStep == TypeOK /\ [Next]_vars => TypeOK'
<1> SUFFICES ASSUME TypeOK, [Next]_vars PROVE TypeOK'
  OBVIOUS
<1> USE DEF TypeOK
<1>1. ASSUME NEW g \in Conns, Wake(g) PROVE TypeOK'
  BY <1>1 DEF Wake
<1>2. ASSUME NEW a \in Actors, Dial(a) PROVE TypeOK'
  <2> DEFINE c == nConns + 1
  <2>1. /\ c \in Conns /\ nConns' = c /\ created' = [created EXCEPT ![a] = c]
        /\ connData' = connData /\ destroyed' = destroyed
        /\ connectTryTimes' = connectTryTimes
        /\ reconnectLock' = reconnectLock /\ destroyState' = destroyState
    BY <1>2 DEF Dial
  <2>2. CASE /\ conn' = [conn EXCEPT ![c] = "open"]
             /\ pc' = PcAfterEvent([pc EXCEPT ![a] = "store"], c, "Connected")
             /\ lastEvent' = "Connected"
             /\ UNCHANGED client
    <3>1. pc' \in [Actors -> PCs]
      BY <2>1, <2>2, PcAfterEventType
    <3>2. conn' \in [Conns -> {"unused", "open", "closed"}] BY <2>1, <2>2
    <3>3. created' \in [Actors -> Conns \cup {NoConn}] BY <2>1
    <3>4. nConns' \in 0..MaxConns BY <2>1
    <3>5. client' \in BOOLEAN BY <2>2
    <3>6. lastEvent' \in {"none", "Connected"} \cup CloseEvents BY <2>2
    <3>7. /\ connData' \in Conns \cup {NoConn} /\ destroyed' \in BOOLEAN
          /\ connectTryTimes' \in Nat /\ reconnectLock' \in Conns \cup {NoConn}
          /\ destroyState' \in {"none", "flagged", "done", "panicked"}
      BY <2>1
    <3>8. QED BY <3>1, <3>2, <3>3, <3>4, <3>5, <3>6, <3>7
  <2>3. ASSUME NEW e \in {"ConnectFailed", "ConnectTimeout"},
               /\ conn' = [conn EXCEPT ![c] = "closed"]
               /\ pc' = PcAfterEvent([pc EXCEPT ![a] = "failCheck"], c, e)
               /\ client' = ClientAfterEvent(e)
               /\ lastEvent' = e
        PROVE TypeOK'
    <3>1. pc' \in [Actors -> PCs]
      BY <2>1, <2>3, PcAfterEventType
    <3>2. conn' \in [Conns -> {"unused", "open", "closed"}] BY <2>1, <2>3
    <3>3. created' \in [Actors -> Conns \cup {NoConn}] BY <2>1
    <3>4. client' \in BOOLEAN BY <2>3 DEF ClientAfterEvent
    <3>5. nConns' \in 0..MaxConns BY <2>1
    <3>6. lastEvent' \in {"none", "Connected"} \cup CloseEvents BY <2>3
    <3>7. /\ connData' \in Conns \cup {NoConn} /\ destroyed' \in BOOLEAN
          /\ connectTryTimes' \in Nat /\ reconnectLock' \in Conns \cup {NoConn}
          /\ destroyState' \in {"none", "flagged", "done", "panicked"}
      BY <2>1
    <3>8. QED BY <3>1, <3>2, <3>3, <3>4, <3>5, <3>6, <3>7
  <2>4. QED BY <1>2, <2>2, <2>3 DEF Dial
<1>3. ASSUME NEW a \in Actors, FailCheck(a) PROVE TypeOK'
  BY <1>3 DEF FailCheck, Release
<1>4. ASSUME NEW a \in Actors, FailStore(a) PROVE TypeOK'
  BY <1>4 DEF FailStore, Release
<1>5. ASSUME NEW a \in Actors, Store(a) PROVE TypeOK'
  BY <1>5 DEF Store
<1>6. ASSUME NEW a \in Actors, DestroyCheck(a) PROVE TypeOK'
  BY <1>6 DEF DestroyCheck, CloseConn, PcAfterEvent, ClientAfterEvent, Release
<1>7. ASSUME NEW a \in Actors, Reset(a) PROVE TypeOK'
  BY <1>7 DEF Reset, Release
<1>8. ASSUME NEW c \in Conns, RemoteClose(c) PROVE TypeOK'
  BY <1>8 DEF RemoteClose, CloseConn, PcAfterEvent, ClientAfterEvent
<1>9. CASE Write
  BY <1>9 DEF Write, CloseConn, PcAfterEvent, ClientAfterEvent
<1>10. CASE DestroyFlag
  BY <1>10 DEF DestroyFlag
<1>11. CASE DestroyClose
  BY <1>11 DEF DestroyClose, CloseConn, PcAfterEvent, ClientAfterEvent
<1>12. CASE UNCHANGED vars
  BY <1>12 DEF vars
<1>13. QED
  BY <1>1, <1>2, <1>3, <1>4, <1>5, <1>6, <1>7, <1>8, <1>9, <1>10, <1>11, <1>12
  DEF Next

-----------------------------------------------------------------------------
(* What delivering event e of connection c does to the actors: nothing, or *)
(* (reconnect() passing its guards) a goroutine named c starts sleeping.   *)
LEMMA PcAfterEventCases ==
  ASSUME NEW p, NEW c, NEW e
  PROVE  \/ PcAfterEvent(p, c, e) = p
         \/ /\ PcAfterEvent(p, c, e) = [p EXCEPT ![c] = "sleep"]
            /\ ~destroyed
            /\ connectTryTimes < TryLimit
  BY DEF PcAfterEvent, SpawnsReconnect

(* On a destroyed pool, and for a Connected event, no goroutine starts.    *)
LEMMA PcAfterEventQuiet ==
  ASSUME NEW p, NEW c, NEW e, destroyed \/ e = "Connected"
  PROVE  PcAfterEvent(p, c, e) = p
  BY DEF PcAfterEvent, SpawnsReconnect, HandlesEvent

(* NewConn's pool satisfies the inductive invariant.                       *)
LEMMA IInvInit == Init => IInv
<1> SUFFICES ASSUME Init PROVE IInv
  OBVIOUS
<1>1. TypeOK BY TypeOKInit
<1>2. TriesBounded BY TryLimitNat DEF Init, TriesBounded
<1>3. SingleChain BY DEF Init, SingleChain, OpenConns, Busy
<1>4. /\ CreatedInOrder /\ SpawnedAfterClose /\ PastConnect /\ ConnDataSet
      /\ DestroyAfterNew /\ NewConnRunning /\ SleeperHasTry
  BY DEF Init, CreatedInOrder, SpawnedAfterClose, PastConnect, ConnDataSet,
         Stored, DestroyAfterNew, NewConnRunning, SleeperHasTry
<1>5. QED BY <1>1, <1>2, <1>3, <1>4 DEF IInv

(* Wake: the only sleeping goroutine takes the lock and spends its try.    *)
LEMMA WakeInv ==
  ASSUME IInv, TypeOK', NEW g \in Conns, Wake(g)
  PROVE  IInv'
<1> USE DEF IInv, TypeOK
<1>1. pc' \in [Actors -> PCs] /\ pc[g] = "sleep" /\ pc'[g] \in {"dial", "done"}
      /\ \A a \in Actors \ {g} : pc'[a] = pc[a]
  BY DEF Wake
<1>2. \A a \in Actors : pc[a] = "sleep" => a = g
  BY <1>1 DEF SingleChain, Busy
<1>3. UNCHANGED <<conn, nConns, connData, created, destroyState, destroyed>>
      /\ connectTryTimes' = connectTryTimes + 1
  BY DEF Wake
<1>4. TriesBounded' BY <1>1, <1>3, TryLimitNat DEF SleeperHasTry, TriesBounded
<1>5. SingleChain' BY <1>1, <1>3 DEF SingleChain, Busy, OpenConns
<1>6. SleeperHasTry' BY <1>1, <1>2 DEF SleeperHasTry
<1>7. /\ CreatedInOrder' /\ SpawnedAfterClose' /\ PastConnect' /\ ConnDataSet'
      /\ DestroyAfterNew' /\ NewConnRunning'
  BY <1>1, <1>3 DEF CreatedInOrder, SpawnedAfterClose, PastConnect, ConnDataSet,
                    Stored, DestroyAfterNew, NewConnRunning
<1>8. QED BY <1>4, <1>5, <1>6, <1>7

(* Dial: the only busy actor creates connection nConns + 1; it either      *)
(* opens, or fails and its close event may spawn the next goroutine.       *)
LEMMA DialInv ==
  ASSUME IInv, TypeOK', NEW a \in Actors, Dial(a)
  PROVE  IInv'
<1> USE DEF IInv, TypeOK
<1> DEFINE c == nConns + 1
<1>1. /\ c \in Conns /\ nConns' = c /\ created' = [created EXCEPT ![a] = c]
      /\ connData' = connData /\ destroyed' = destroyed
      /\ connectTryTimes' = connectTryTimes /\ destroyState' = destroyState
  BY DEF Dial
<1>2. conn[c] = "unused" /\ pc[c] = "idle"
  BY <1>1 DEF CreatedInOrder, SpawnedAfterClose
<1>3. pc[a] = "dial" /\ a # c
  BY <1>2 DEF Dial, SpawnedAfterClose
<1>4. /\ \A b \in Actors \ {a} : pc[b] \notin {"sleep", "dial"}
      /\ \A d \in Conns : conn[d] # "open"
  BY <1>3 DEF SingleChain, Busy, OpenConns
<1>5. a = 0 => destroyState = "none"
  BY <1>3 DEF DestroyAfterNew
<1>6. a \in Conns => conn[a] = "closed"
  BY <1>3 DEF SpawnedAfterClose
<1>7. ASSUME NEW r \in {"store", "failCheck"}, NEW v \in {"open", "closed"},
             conn' = [conn EXCEPT ![c] = v],
             \/ pc' = [pc EXCEPT ![a] = r]
             \/ /\ pc' = [[pc EXCEPT ![a] = r] EXCEPT ![c] = "sleep"]
                /\ v = "closed" /\ connectTryTimes < TryLimit
      PROVE  IInv'
  <2>1. TriesBounded' BY <1>1 DEF TriesBounded
  <2>0. \A b \in Actors \ {a, c} : pc'[b] = pc[b]
    BY <1>7
  <2>2. SingleChain'
    <3>1. \A d \in Conns : conn'[d] = "open" => d = c /\ v = "open"
      BY <1>4, <1>7
    <3>2. \A b \in Actors : pc'[b] \in {"sleep", "dial"} => b = c /\ v = "closed"
      BY <1>3, <1>4, <1>7, <2>0
    <3>3. QED BY <3>1, <3>2 DEF SingleChain, Busy, OpenConns
  <2>3. CreatedInOrder' BY <1>1, <1>7 DEF CreatedInOrder
  <2>4. SpawnedAfterClose' BY <1>1, <1>2, <1>3, <1>6, <1>7 DEF SpawnedAfterClose
  <2>5. PastConnect' BY <1>1, <1>3, <1>7 DEF PastConnect
  <2>6. ConnDataSet'
    <3> SUFFICES ASSUME NEW b \in Actors, Stored(b)' PROVE connData' \in Conns
      BY DEF ConnDataSet
    <3>0. pc'[a] = r /\ pc'[c] \in {"idle", "sleep"}
      BY <1>2, <1>3, <1>7
    <3>1. b # a /\ b # c BY <3>0 DEF Stored
    <3>2. Stored(b) BY <2>0, <3>1 DEF Stored
    <3>3. QED BY <1>1, <3>2 DEF ConnDataSet
  <2>7. DestroyAfterNew' BY <1>1, <1>3, <1>5, <1>7 DEF DestroyAfterNew
  <2>8. NewConnRunning' BY <1>3, <1>7 DEF NewConnRunning
  <2>9. SleeperHasTry' BY <1>1, <1>3, <1>4, <1>7 DEF SleeperHasTry
  <2>10. QED BY <2>1, <2>2, <2>3, <2>4, <2>5, <2>6, <2>7, <2>8, <2>9
<1>8. CASE /\ conn' = [conn EXCEPT ![c] = "open"]
           /\ pc' = PcAfterEvent([pc EXCEPT ![a] = "store"], c, "Connected")
  BY <1>7, <1>8, PcAfterEventQuiet
<1>9. ASSUME NEW e \in {"ConnectFailed", "ConnectTimeout"},
             /\ conn' = [conn EXCEPT ![c] = "closed"]
             /\ pc' = PcAfterEvent([pc EXCEPT ![a] = "failCheck"], c, e)
      PROVE  IInv'
  <2>1. \/ pc' = [pc EXCEPT ![a] = "failCheck"]
        \/ /\ pc' = [[pc EXCEPT ![a] = "failCheck"] EXCEPT ![c] = "sleep"]
           /\ connectTryTimes < TryLimit
    BY <1>9, PcAfterEventCases
  <2>2. QED BY <1>7, <1>9, <2>1
<1>10. QED BY <1>8, <1>9 DEF Dial

(* An actor past Connect moves to a later step (not "idle", not busy);     *)
(* connections, the counter of connections and what was created stay.    *)
LEMMA StepAfterConnect ==
  ASSUME IInv, TypeOK', NEW a \in Actors, NEW r \in PCs \ {"idle", "sleep", "dial"},
         pc[a] \in {"failCheck", "failStore", "store", "destroyCheck", "reset"},
         pc' = [pc EXCEPT ![a] = r],
         UNCHANGED <<conn, nConns, created, destroyed, destroyState>>,
         connectTryTimes' \in {connectTryTimes, 0},
         Stored(a)' => connData' \in Conns,
         connData' # connData => connData' \in Conns,
         r \in {"failStore", "store", "destroyCheck", "reset"} => created[a] \in Conns
  PROVE  IInv'
<1> USE DEF IInv, TypeOK
<1>1. \A b \in Actors \ {a} : pc'[b] = pc[b]
  OBVIOUS
<1>2. a \in Conns => conn[a] = "closed"
  BY DEF SpawnedAfterClose
<1>3. TriesBounded' BY TryLimitNat DEF TriesBounded
<1>4. SingleChain' BY <1>1 DEF SingleChain, Busy, OpenConns
<1>5. CreatedInOrder' BY DEF CreatedInOrder
<1>6. SpawnedAfterClose' BY <1>1, <1>2 DEF SpawnedAfterClose
<1>7. PastConnect' BY <1>1 DEF PastConnect
<1>8. ConnDataSet'
  <2> SUFFICES ASSUME NEW b \in Actors, Stored(b)' PROVE connData' \in Conns
    BY DEF ConnDataSet
  <2>1. CASE b = a BY <2>1
  <2>2. CASE b # a BY <1>1, <2>2 DEF Stored, ConnDataSet
  <2>3. QED BY <2>1, <2>2
<1>9. DestroyAfterNew' BY DEF DestroyAfterNew
<1>10. NewConnRunning' BY DEF NewConnRunning
<1>11. SleeperHasTry'
  <2>1. \A g \in Conns : pc'[g] = "sleep" => pc[g] = "sleep"
    BY <1>1
  <2>2. QED BY <2>1, TryLimitNat DEF SleeperHasTry
<1>12. QED BY <1>3, <1>4, <1>5, <1>6, <1>7, <1>8, <1>9, <1>10, <1>11

(* A failed Connect checks whether connData was ever set (line 135).       *)
LEMMA FailCheckInv ==
  ASSUME IInv, TypeOK', NEW a \in Actors, FailCheck(a)
  PROVE  IInv'
<1>1. CASE connData = NoConn
  <2>1. pc' = [pc EXCEPT ![a] = "failStore"] /\ pc[a] = "failCheck"
        /\ UNCHANGED <<conn, nConns, created, destroyed, destroyState, connData,
                       connectTryTimes>>
    BY <1>1 DEF FailCheck
  <2>2. created[a] \in Conns BY <2>1 DEF IInv, PastConnect
  <2>3. ~Stored(a)' BY <2>1 DEF Stored, IInv, TypeOK
  <2>4. /\ connectTryTimes' \in {connectTryTimes, 0}
        /\ pc[a] \in {"failCheck", "failStore", "store", "destroyCheck", "reset"}
        /\ "failStore" \in PCs \ {"idle", "sleep", "dial"}
    BY <2>1
  <2>5. QED BY <2>1, <2>2, <2>3, <2>4, StepAfterConnect
<1>2. CASE connData # NoConn
  <2>1. pc' = [pc EXCEPT ![a] = "done"] /\ pc[a] = "failCheck"
        /\ UNCHANGED <<conn, nConns, created, destroyed, destroyState, connData,
                       connectTryTimes>>
    BY <1>2 DEF FailCheck
  <2>2. connData \in Conns BY <1>2 DEF IInv, TypeOK
  <2>3. /\ connectTryTimes' \in {connectTryTimes, 0}
        /\ pc[a] \in {"failCheck", "failStore", "store", "destroyCheck", "reset"}
        /\ "done" \in PCs \ {"idle", "sleep", "dial"}
    BY <2>1
  <2>4. QED BY <2>1, <2>2, <2>3, StepAfterConnect
<1>3. QED BY <1>1, <1>2

(* The first failed connection is stored as connData (line 138).         *)
LEMMA FailStoreInv ==
  ASSUME IInv, TypeOK', NEW a \in Actors, FailStore(a)
  PROVE  IInv'
  BY StepAfterConnect DEF FailStore, IInv, TypeOK, PastConnect, Stored

(* A connected connection is stored as connData (line 150).              *)
LEMMA StoreInv ==
  ASSUME IInv, TypeOK', NEW a \in Actors, Store(a)
  PROVE  IInv'
  BY StepAfterConnect DEF Store, IInv, TypeOK, PastConnect, Stored

(* initConnection clears the try counter (line 171) and returns.         *)
LEMMA ResetInv ==
  ASSUME IInv, TypeOK', NEW a \in Actors, Reset(a)
  PROVE  IInv'
  BY StepAfterConnect DEF Reset, IInv, TypeOK, ConnDataSet, Stored

(* The open connection c closes and its close event may spawn the         *)
(* goroutine named c: the open connection becomes the sleeping goroutine. *)
LEMMA CloseOpenInv ==
  ASSUME IInv, TypeOK', NEW c \in Conns, NEW e, conn[c] = "open",
         conn' = [conn EXCEPT ![c] = "closed"],
         pc' = PcAfterEvent(pc, c, e),
         UNCHANGED <<nConns, connData, destroyed, connectTryTimes, created, destroyState>>
  PROVE  IInv'
<1> USE DEF IInv, TypeOK
<1>1. pc[c] = "idle" BY DEF SpawnedAfterClose
<1>2. /\ \A a \in Actors : pc[a] \notin {"sleep", "dial"}
      /\ \A d \in Conns : conn[d] = "open" => d = c
  BY DEF SingleChain, Busy, OpenConns
<1>3. \/ pc' = pc
      \/ pc' = [pc EXCEPT ![c] = "sleep"] /\ connectTryTimes < TryLimit
  BY PcAfterEventCases
<1>4. \A b \in Actors \ {c} : pc'[b] = pc[b]
  BY <1>3
<1>5. TriesBounded' BY DEF TriesBounded
<1>6. SingleChain'
  <2>1. \A d \in Conns : conn'[d] # "open" BY <1>2
  <2>2. \A b \in Actors : pc'[b] \in {"sleep", "dial"} => b = c
    BY <1>2, <1>4
  <2>3. QED BY <2>1, <2>2 DEF SingleChain, Busy, OpenConns
<1>7. CreatedInOrder' BY DEF CreatedInOrder
<1>8. SpawnedAfterClose' BY <1>4 DEF SpawnedAfterClose
<1>9. PastConnect' BY <1>1, <1>3, <1>4 DEF PastConnect
<1>10. ConnDataSet'
  <2> SUFFICES ASSUME NEW b \in Actors, Stored(b)' PROVE connData' \in Conns
    BY DEF ConnDataSet
  <2>1. b # c BY <1>1, <1>3 DEF Stored
  <2>2. QED BY <1>4, <2>1 DEF Stored, ConnDataSet
<1>11. DestroyAfterNew' BY <1>4 DEF DestroyAfterNew
<1>12. NewConnRunning' BY <1>4 DEF NewConnRunning
<1>13. SleeperHasTry' BY <1>2, <1>3, <1>4 DEF SleeperHasTry
<1>14. QED BY <1>5, <1>6, <1>7, <1>8, <1>9, <1>10, <1>11, <1>12, <1>13

(* The peer, a read error, a write timeout or the heartbeat closes the    *)
(* open connection.                                                        *)
LEMMA RemoteCloseInv ==
  ASSUME IInv, TypeOK', NEW c \in Conns, RemoteClose(c)
  PROVE  IInv'
<1>1. PICK e \in {"RemoteClose", "OnReadErrClose", "OnWriteTimeout"} : CloseConn(c, e, pc)
  BY DEF RemoteClose
<1>2. /\ conn[c] = "open" /\ conn' = [conn EXCEPT ![c] = "closed"]
      /\ pc' = PcAfterEvent(pc, c, e)
      /\ UNCHANGED <<nConns, connData, destroyed, connectTryTimes, created, destroyState>>
  BY <1>1 DEF RemoteClose, CloseConn
<1>3. QED BY <1>2, CloseOpenInv

(* A failing Write closes the open connData with OnWriteErrClose.         *)
LEMMA WriteInv ==
  ASSUME IInv, TypeOK', Write
  PROVE  IInv'
<1>1. connData \in Conns /\ conn[connData] = "open"
  BY DEF Write, IsActive, IInv, TypeOK
<1>2. /\ conn' = [conn EXCEPT ![connData] = "closed"]
      /\ pc' = PcAfterEvent(pc, connData, "OnWriteErrClose")
      /\ UNCHANGED <<nConns, connData, destroyed, connectTryTimes, created, destroyState>>
  BY <1>1 DEF Write, CloseConn
<1>3. QED BY <1>1, <1>2, CloseOpenInv

(* On a destroyed pool a LocalClose closes connection c (if it is open)    *)
(* and spawns nothing; the actor a, if any, returns.                      *)
LEMMA DestroyedCloseInv ==
  ASSUME IInv, TypeOK', destroyed, NEW c \in Conns, NEW A \in SUBSET Actors,
         \A a \in A : pc[a] = "destroyCheck",
         pc' = [b \in Actors |-> IF b \in A THEN "done" ELSE pc[b]],
         \/ conn' = conn
         \/ conn[c] = "open" /\ conn' = [conn EXCEPT ![c] = "closed"],
         UNCHANGED <<nConns, connData, destroyed, connectTryTimes, created>>,
         destroyState' # "none" => pc[0] = "done"
  PROVE  IInv'
<1> USE DEF IInv, TypeOK
<1>1. \A d \in Conns : conn'[d] = "open" => conn[d] = "open"
  OBVIOUS
<1>2. \A d \in Conns : /\ conn'[d] = "unused" <=> conn[d] = "unused"
                       /\ conn'[d] # "closed" => conn[d] # "closed"
  OBVIOUS
<1>3. \A b \in Actors : /\ pc'[b] \in {"sleep", "dial"} => pc'[b] = pc[b]
                        /\ pc'[b] = "idle" => pc[b] = "idle"
  OBVIOUS
<1>4. \A b \in A : b \in Conns => conn[b] = "closed"
  BY DEF SpawnedAfterClose
<1>6. TriesBounded' BY DEF TriesBounded
<1>7. SingleChain' BY <1>1, <1>3 DEF SingleChain, Busy, OpenConns
<1>8. CreatedInOrder' BY <1>2 DEF CreatedInOrder
<1>9. SpawnedAfterClose'
  <2> SUFFICES ASSUME NEW d \in Conns, conn'[d] # "closed" PROVE pc'[d] = "idle"
    BY DEF SpawnedAfterClose
  <2>1. pc[d] = "idle" BY <1>2 DEF SpawnedAfterClose
  <2>2. d \notin A BY <1>2, <1>4
  <2>3. QED BY <2>1, <2>2
<1>10. PastConnect' BY DEF PastConnect
<1>11. ConnDataSet'
  <2> SUFFICES ASSUME NEW b \in Actors, Stored(b)' PROVE connData' \in Conns
    BY DEF ConnDataSet
  <2>1. CASE b \in A BY <2>1 DEF Stored, ConnDataSet
  <2>2. CASE b \notin A BY <2>2 DEF Stored, ConnDataSet
  <2>3. QED BY <2>1, <2>2
<1>12. DestroyAfterNew'
  <2>1. pc[0] = "done" => pc'[0] = "done" OBVIOUS
  <2>2. QED BY <2>1 DEF DestroyAfterNew
<1>13. NewConnRunning' BY DEF NewConnRunning
<1>14. SleeperHasTry' BY <1>3 DEF SleeperHasTry
<1>15. QED BY <1>6, <1>7, <1>8, <1>9, <1>10, <1>11, <1>12, <1>13, <1>14

(* initConnection after its Store: close if destroyed, else go on.        *)
LEMMA DestroyCheckInv ==
  ASSUME IInv, TypeOK', NEW a \in Actors, DestroyCheck(a)
  PROVE  IInv'
<1>1. pc[a] = "destroyCheck" /\ connData \in Conns
  BY DEF DestroyCheck, IInv, ConnDataSet, Stored
<1>2. UNCHANGED <<nConns, connData, destroyed, connectTryTimes, created, destroyState>>
  BY DEF DestroyCheck
<1>3. CASE destroyed
  <2>1. CloseConn(connData, "LocalClose", [pc EXCEPT ![a] = "done"])
    BY <1>3 DEF DestroyCheck
  <2>2. pc' = [pc EXCEPT ![a] = "done"]
    BY <1>3, <2>1, PcAfterEventQuiet DEF CloseConn
  <2>3. pc' = [b \in Actors |-> IF b \in {a} THEN "done" ELSE pc[b]]
    BY <2>2 DEF IInv, TypeOK
  <2>4. \/ conn' = conn
        \/ conn[connData] = "open" /\ conn' = [conn EXCEPT ![connData] = "closed"]
    BY <2>1 DEF CloseConn
  <2>5. destroyState' # "none" => pc[0] = "done"
    BY <1>2 DEF IInv, DestroyAfterNew
  <2>6. {a} \in SUBSET Actors /\ \A b \in {a} : pc[b] = "destroyCheck"
    BY <1>1
  <2>7. QED BY <1>1, <1>2, <1>3, <2>3, <2>4, <2>5, <2>6, DestroyedCloseInv
<1>4. CASE ~destroyed
  <2>1. pc' = [pc EXCEPT ![a] = "reset"] /\ UNCHANGED conn
    BY <1>4 DEF DestroyCheck
  <2>2. Stored(a)' => connData' \in Conns BY <1>1, <1>2
  <2>3. /\ connectTryTimes' \in {connectTryTimes, 0}
        /\ pc[a] \in {"failCheck", "failStore", "store", "destroyCheck", "reset"}
        /\ "reset" \in PCs \ {"idle", "sleep", "dial"}
        /\ created[a] \in Conns
    BY <1>1, <1>2 DEF IInv, PastConnect
  <2>4. QED BY <1>2, <2>1, <2>2, <2>3, StepAfterConnect
<1>5. QED BY <1>3, <1>4

(* Destroy sets the destroyed flag (line 58).                             *)
LEMMA DestroyFlagInv ==
  ASSUME IInv, TypeOK', DestroyFlag
  PROVE  IInv'
  BY DEF DestroyFlag, IInv, TriesBounded, SingleChain, Busy, OpenConns,
         CreatedInOrder, SpawnedAfterClose, PastConnect, ConnDataSet, Stored,
         DestroyAfterNew, NewConnRunning, SleeperHasTry

(* Destroy closes connData, or panics on a removed client (line 59).      *)
LEMMA DestroyCloseInv ==
  ASSUME IInv, TypeOK', DestroyClose
  PROVE  IInv'
<1>1. pc[0] = "done" /\ destroyed /\ connData \in Conns
  BY DEF DestroyClose, IInv, DestroyAfterNew, ConnDataSet, Stored
<1>2. UNCHANGED <<nConns, connData, destroyed, connectTryTimes, created>>
  BY DEF DestroyClose
<1>3. pc' = pc
  BY <1>1, PcAfterEventQuiet DEF DestroyClose, CloseConn
<1>4. pc' = [b \in Actors |-> IF b \in {} THEN "done" ELSE pc[b]]
  BY <1>3 DEF IInv, TypeOK
<1>5. \/ conn' = conn
      \/ conn[connData] = "open" /\ conn' = [conn EXCEPT ![connData] = "closed"]
  BY DEF DestroyClose, CloseConn
<1>6. /\ {} \in SUBSET Actors /\ \A b \in {} : pc[b] = "destroyCheck"
      /\ destroyState' # "none" => pc[0] = "done"
  BY <1>1
<1>7. QED BY <1>1, <1>2, <1>4, <1>5, <1>6, DestroyedCloseInv

(* Every step of the pool preserves the inductive invariant.              *)
LEMMA IInvStep == IInv /\ [Next]_vars => IInv'
<1> SUFFICES ASSUME IInv, [Next]_vars PROVE IInv'
  OBVIOUS
<1>1. TypeOK' BY TypeOKStep DEF IInv
<1>2. CASE UNCHANGED vars
  BY <1>2 DEF vars, IInv, TypeOK, TriesBounded, SingleChain, Busy, OpenConns,
              CreatedInOrder, SpawnedAfterClose, PastConnect, ConnDataSet, Stored,
              DestroyAfterNew, NewConnRunning, SleeperHasTry
<1>3. QED
  BY <1>1, <1>2, WakeInv, DialInv, FailCheckInv, FailStoreInv, StoreInv,
     DestroyCheckInv, ResetInv, RemoteCloseInv, WriteInv, DestroyFlagInv,
     DestroyCloseInv DEF Next

(* The reconnect try counter never passes the limit given to NewConn       *)
(* (reconnect() line 180 against the increment at line 195), and          *)
(* reconnection is a single chain (close events collapse into one         *)
(* goroutine at a time), for every limit, reconnect setting and number of *)
(* connections: both follow from the inductive invariant.                 *)
THEOREM IInvInvariant == Spec => []IInv
  BY IInvInit, IInvStep, PTL DEF Spec

(* connectTryTimes never exceeds the limit: reconnect() refuses at the    *)
(* limit and only one goroutine holds an unspent try.                     *)
THEOREM TriesBoundedInvariant == Spec => []TriesBounded
  BY IInvInvariant, PTL DEF IInv

(* At most one open connection, sleeping goroutine or dialling actor.    *)
THEOREM SingleChainInvariant == Spec => []SingleChain
  BY IInvInvariant, PTL DEF IInv

(* Type correctness: in every state the pool can reach, each variable has  *)
(* the type of the field of connpool or activeClient it models.           *)
THEOREM TypeCorrect == Spec => []TypeOK
  BY TypeOKInit, TypeOKStep, PTL DEF Spec


-----------------------------------------------------------------------------
(***************************************************************************)
(* Refinement: the pool implements ReconnectChain under the mapping        *)
(* ChainPhase.  SingleChain (part of IInv) makes the four phases           *)
(* exclusive, so each step of the pool changes the phase the way one step  *)
(* of the abstract chain does, or leaves phase and try count alone.       *)
(***************************************************************************)

(* No actor is dialling or waiting for its backoff.                       *)
NoBusy(p) == \A b \in Actors : p[b] \notin {"dial", "sleep"}

(* A step that moves no actor into or out of "dial" or "sleep" and closes  *)
(* or opens no connection keeps the phase.                                 *)
LEMMA PhaseKept ==
  ASSUME conn' = conn,
         \A b \in Actors : /\ pc'[b] = "dial" <=> pc[b] = "dial"
                           /\ pc'[b] = "sleep" <=> pc[b] = "sleep"
  PROVE  ChainPhase' = ChainPhase
  BY DEF ChainPhase, OpenConns

(* An actor past Connect moving to another such step keeps the phase.      *)
LEMMA PhaseKeptStep ==
  ASSUME TypeOK, NEW a \in Actors, NEW r, r \notin {"dial", "sleep"},
         pc[a] \notin {"dial", "sleep"}, pc' = [pc EXCEPT ![a] = r], conn' = conn
  PROVE  ChainPhase' = ChainPhase
  BY PhaseKept DEF TypeOK

(* The open connection c closes; the actors, but for the closing one, are  *)
(* as before.  The pool was connected; it is down, or backing off with a   *)
(* try to spare.                                                           *)
LEMMA CloseLoses ==
  ASSUME IInv, NEW c \in Conns, NEW e, NEW p \in [Actors -> PCs], NoBusy(p),
         conn[c] = "open", conn' = [conn EXCEPT ![c] = "closed"],
         pc' = PcAfterEvent(p, c, e), connectTryTimes' = connectTryTimes
  PROVE  Chain!Lose
<1> USE DEF IInv, TypeOK
<1>1. NoBusy(pc) /\ c \in OpenConns
  BY DEF SingleChain, Busy, OpenConns, NoBusy
<1>2. ChainPhase = "connected"
  BY <1>1 DEF ChainPhase, NoBusy
<1>3. \A d \in Conns : conn'[d] # "open"
  BY DEF SingleChain, OpenConns
<1>4. CASE pc' = p
  <2>1. ChainPhase' = "down" BY <1>3, <1>4 DEF ChainPhase, OpenConns, NoBusy
  <2>2. QED BY <1>2, <2>1 DEF Chain!Lose
<1>5. CASE pc' = [p EXCEPT ![c] = "sleep"] /\ connectTryTimes < TryLimit
  <2>1. \A b \in Actors : pc'[b] # "dial" BY <1>5 DEF NoBusy
  <2>2. ChainPhase' = "backoff" BY <1>5, <2>1 DEF ChainPhase
  <2>3. QED BY <1>2, <1>5, <2>2 DEF Chain!Lose
<1>6. QED BY <1>4, <1>5, PcAfterEventCases

(* NewConn starts in the dialling phase with no try counted.              *)
LEMMA ChainInit == Init => Chain!Init
  BY DEF Init, Chain!Init, ChainPhase

(* Wake: the only goroutine backing off takes the lock and counts a try;   *)
(* it dials, or stops on a destroyed pool.                                 *)
LEMMA WakeChain ==
  ASSUME IInv, NEW g \in Conns, Wake(g)
  PROVE  Chain!Wake
<1> USE DEF IInv, TypeOK
<1>1. /\ pc[g] = "sleep" /\ conn' = conn
      /\ connectTryTimes' = connectTryTimes + 1
      /\ pc' = [pc EXCEPT ![g] = IF destroyed THEN "done" ELSE "dial"]
  BY DEF Wake
<1>2. \A b \in Actors \ {g} : pc[b] \notin {"dial", "sleep"}
  BY <1>1 DEF SingleChain, Busy
<1>3. \A d \in Conns : conn[d] # "open"
  BY <1>1 DEF SingleChain, Busy, OpenConns
<1>4. ChainPhase = "backoff"
  BY <1>1, <1>2 DEF ChainPhase
<1>5. CASE destroyed
  <2>1. NoBusy(pc') BY <1>1, <1>2, <1>5 DEF NoBusy
  <2>2. ChainPhase' = "down" BY <1>1, <1>3, <2>1 DEF ChainPhase, OpenConns, NoBusy
  <2>3. QED BY <1>1, <1>4, <2>2 DEF Chain!Wake
<1>6. CASE ~destroyed
  <2>1. pc'[g] = "dial" BY <1>1, <1>6
  <2>2. ChainPhase' = "dialing" BY <2>1 DEF ChainPhase
  <2>3. QED BY <1>1, <1>4, <2>2 DEF Chain!Wake
<1>7. QED BY <1>5, <1>6


(* Dial: the only busy actor creates connection nConns + 1.  If Connect    *)
(* succeeds the pool is connected; if it fails it is down, or backing off  *)
(* with a try to spare.                                                    *)
LEMMA DialChain ==
  ASSUME IInv, NEW a \in Actors, Dial(a)
  PROVE  Chain!Connect \/ Chain!Lose
<1> USE DEF IInv, TypeOK
<1> DEFINE c == nConns + 1
<1>1. /\ c \in Conns /\ pc[a] = "dial" /\ connectTryTimes' = connectTryTimes
  BY DEF Dial
<1>2. a # c
  BY <1>1 DEF CreatedInOrder, SpawnedAfterClose
<1>3. /\ \A b \in Actors \ {a} : pc[b] \notin {"dial", "sleep"}
      /\ \A d \in Conns : conn[d] # "open"
  BY <1>1 DEF SingleChain, Busy, OpenConns
<1>4. ChainPhase = "dialing"
  BY <1>1 DEF ChainPhase
<1>5. CASE /\ conn' = [conn EXCEPT ![c] = "open"]
           /\ pc' = PcAfterEvent([pc EXCEPT ![a] = "store"], c, "Connected")
  <2>1. pc' = [pc EXCEPT ![a] = "store"] BY <1>5, PcAfterEventQuiet
  <2>2. NoBusy(pc') BY <1>3, <2>1 DEF NoBusy
  <2>3. c \in OpenConns' BY <1>1, <1>5 DEF OpenConns
  <2>4. ChainPhase' = "connected" BY <2>2, <2>3 DEF ChainPhase, NoBusy
  <2>5. QED BY <1>1, <1>4, <2>4 DEF Chain!Connect
<1>6. ASSUME NEW e \in {"ConnectFailed", "ConnectTimeout"},
             /\ conn' = [conn EXCEPT ![c] = "closed"]
             /\ pc' = PcAfterEvent([pc EXCEPT ![a] = "failCheck"], c, e)
      PROVE  Chain!Lose
  <2> DEFINE p == [pc EXCEPT ![a] = "failCheck"]
  <2>1. NoBusy(p) BY <1>3 DEF NoBusy
  <2>2. \A d \in Conns : conn'[d] # "open" BY <1>3, <1>6
  <2>3. CASE pc' = p
    <3>1. ChainPhase' = "down" BY <2>1, <2>2, <2>3 DEF ChainPhase, OpenConns, NoBusy
    <3>2. QED BY <1>1, <1>4, <3>1 DEF Chain!Lose
  <2>4. CASE pc' = [p EXCEPT ![c] = "sleep"] /\ connectTryTimes < TryLimit
    <3>1. \A b \in Actors : pc'[b] # "dial" BY <2>1, <2>4 DEF NoBusy
    <3>2. pc'[c] = "sleep" BY <1>1, <2>4
    <3>3. ChainPhase' = "backoff" BY <1>1, <3>1, <3>2 DEF ChainPhase
    <3>4. QED BY <1>1, <1>4, <2>4, <3>3 DEF Chain!Lose
  <2>5. QED BY <1>6, <2>3, <2>4, PcAfterEventCases
<1>7. QED BY <1>5, <1>6 DEF Dial

(* The steps of initConnection after Connect keep the phase; "clear retry  *)
(* times" resets the count.                                                *)
LEMMA AfterConnectChain ==
  ASSUME IInv, NEW a \in Actors,
         FailCheck(a) \/ FailStore(a) \/ Store(a) \/ Reset(a)
         \/ (DestroyCheck(a) /\ ~destroyed)
  PROVE  \/ Chain!ResetTries
         \/ UNCHANGED <<ChainPhase, connectTryTimes>>
<1> USE DEF IInv
<1>1. /\ pc[a] \notin {"dial", "sleep"} /\ conn' = conn
      /\ \E r \in PCs \ {"dial", "sleep"} : pc' = [pc EXCEPT ![a] = r]
  BY DEF FailCheck, FailStore, Store, Reset, DestroyCheck
<1>2. ChainPhase' = ChainPhase BY <1>1, PhaseKeptStep
<1>3. connectTryTimes' \in {connectTryTimes, 0}
  BY DEF FailCheck, FailStore, Store, Reset, DestroyCheck
<1>4. QED BY <1>2, <1>3 DEF Chain!ResetTries

(* A close on a destroyed pool, by initConnection or by Destroy: the open  *)
(* connData closes and nothing is spawned (the pool goes down), or        *)
(* nothing happens.                                                        *)
LEMMA DestroyedCloseChain ==
  ASSUME IInv, destroyed, NEW p \in [Actors -> PCs],
         \A b \in Actors : /\ p[b] = "dial" <=> pc[b] = "dial"
                           /\ p[b] = "sleep" <=> pc[b] = "sleep",
         connData \in Conns, CloseConn(connData, "LocalClose", p),
         connectTryTimes' = connectTryTimes
  PROVE  Chain!Lose \/ UNCHANGED <<ChainPhase, connectTryTimes>>
<1>1. CASE conn[connData] = "open"
  <2>1. NoBusy(pc) BY <1>1 DEF IInv, TypeOK, SingleChain, Busy, OpenConns, NoBusy
  <2>2. NoBusy(p) BY <2>1 DEF NoBusy
  <2>3. QED BY <1>1, <2>2, CloseLoses DEF CloseConn
<1>2. CASE conn[connData] # "open"
  <2>1. conn' = conn /\ pc' = p BY <1>2 DEF CloseConn
  <2>2. ChainPhase' = ChainPhase BY <2>1, PhaseKept
  <2>3. QED BY <2>2
<1>3. QED BY <1>1, <1>2


(* initConnection finds the pool destroyed after its Store and closes     *)
(* connData.                                                               *)
LEMMA DestroyCheckChain ==
  ASSUME IInv, NEW a \in Actors, DestroyCheck(a), destroyed
  PROVE  Chain!Lose \/ UNCHANGED <<ChainPhase, connectTryTimes>>
<1> DEFINE p == [pc EXCEPT ![a] = "done"]
<1>1. pc[a] = "destroyCheck" /\ connData \in Conns
  BY DEF DestroyCheck, IInv, ConnDataSet, Stored
<1>2. /\ CloseConn(connData, "LocalClose", p)
      /\ connectTryTimes' = connectTryTimes
  BY DEF DestroyCheck
<1>3. /\ p \in [Actors -> PCs]
      /\ \A b \in Actors : /\ p[b] = "dial" <=> pc[b] = "dial"
                           /\ p[b] = "sleep" <=> pc[b] = "sleep"
  BY <1>1 DEF IInv, TypeOK
<1>4. QED BY <1>1, <1>2, <1>3, DestroyedCloseChain

(* The peer, the network or a failing Write closes the open connection.   *)
LEMMA OpenCloseChain ==
  ASSUME IInv, NEW c \in Conns, RemoteClose(c) \/ Write
  PROVE  Chain!Lose
<1>1. CASE RemoteClose(c)
  <2>1. PICK e \in {"RemoteClose", "OnReadErrClose", "OnWriteTimeout"} : CloseConn(c, e, pc)
    BY <1>1 DEF RemoteClose
  <2>2. /\ conn[c] = "open" /\ conn' = [conn EXCEPT ![c] = "closed"]
        /\ pc' = PcAfterEvent(pc, c, e) /\ connectTryTimes' = connectTryTimes
    BY <1>1, <2>1 DEF RemoteClose, CloseConn
  <2>3. NoBusy(pc) BY <2>2 DEF IInv, TypeOK, SingleChain, Busy, OpenConns, NoBusy
  <2>4. QED BY <2>2, <2>3, CloseLoses DEF IInv, TypeOK
<1>2. CASE Write
  <2>1. connData \in Conns /\ conn[connData] = "open"
    BY <1>2 DEF Write, IsActive, IInv, TypeOK
  <2>2. /\ conn' = [conn EXCEPT ![connData] = "closed"]
        /\ pc' = PcAfterEvent(pc, connData, "OnWriteErrClose")
        /\ connectTryTimes' = connectTryTimes
    BY <1>2, <2>1 DEF Write, CloseConn
  <2>3. NoBusy(pc) BY <2>1 DEF IInv, TypeOK, SingleChain, Busy, OpenConns, NoBusy
  <2>4. QED BY <2>1, <2>2, <2>3, CloseLoses DEF IInv, TypeOK
<1>3. QED BY <1>1, <1>2

(* Destroy: the flag changes no phase; the close of connData is a close   *)
(* on a destroyed pool, or the panic, which changes nothing.              *)
LEMMA DestroyChain ==
  ASSUME IInv, DestroyFlag \/ DestroyClose
  PROVE  Chain!Lose \/ UNCHANGED <<ChainPhase, connectTryTimes>>
<1>1. CASE DestroyFlag
  BY <1>1, PhaseKept DEF DestroyFlag
<1>2. CASE DestroyClose /\ client
  <2>1. destroyed /\ connData \in Conns
    BY <1>2 DEF DestroyClose, IInv, DestroyAfterNew, ConnDataSet, Stored
  <2>2. CloseConn(connData, "LocalClose", pc) /\ connectTryTimes' = connectTryTimes
    BY <1>2 DEF DestroyClose
  <2>3. QED BY <2>1, <2>2, DestroyedCloseChain DEF IInv, TypeOK
<1>3. CASE DestroyClose /\ ~client
  BY <1>3, PhaseKept DEF DestroyClose
<1>4. QED BY <1>1, <1>2, <1>3

(* Every step of the pool is a step of the abstract chain or leaves its    *)
(* phase and try count unchanged.                                          *)
LEMMA ChainStep == IInv /\ [Next]_vars => [Chain!Next]_Chain!vars
<1> SUFFICES ASSUME IInv, [Next]_vars PROVE [Chain!Next]_Chain!vars
  OBVIOUS
<1>1. CASE UNCHANGED vars
  BY <1>1, PhaseKept DEF vars, Chain!vars
<1>2. ASSUME NEW g \in Conns, Wake(g) PROVE [Chain!Next]_Chain!vars
  BY <1>2, WakeChain DEF Chain!Next
<1>3. ASSUME NEW a \in Actors, Dial(a) PROVE [Chain!Next]_Chain!vars
  BY <1>3, DialChain DEF Chain!Next
<1>4. ASSUME NEW a \in Actors,
             FailCheck(a) \/ FailStore(a) \/ Store(a) \/ Reset(a) \/ DestroyCheck(a)
      PROVE  [Chain!Next]_Chain!vars
  <2>1. CASE DestroyCheck(a) /\ destroyed
    BY <2>1, DestroyCheckChain DEF Chain!Next, Chain!vars
  <2>2. CASE ~(DestroyCheck(a) /\ destroyed)
    BY <1>4, <2>2, AfterConnectChain DEF Chain!Next, Chain!vars
  <2>3. QED BY <2>1, <2>2
<1>5. ASSUME NEW c \in Conns, RemoteClose(c) PROVE [Chain!Next]_Chain!vars
  BY <1>5, OpenCloseChain DEF Chain!Next
<1>6. CASE Write
  <2>1. PICK c \in Conns : TRUE BY DEF Conns, ConstantsAssumption
  <2>2. QED BY <1>6, OpenCloseChain DEF Chain!Next
<1>7. CASE DestroyFlag \/ DestroyClose
  BY <1>7, DestroyChain DEF Chain!Next, Chain!vars
<1>8. QED BY <1>1, <1>2, <1>3, <1>4, <1>5, <1>6, <1>7 DEF Next

(* The pool implements the abstract reconnect chain (ChainRefined), for    *)
(* every limit, reconnect setting and number of connections: a close or a *)
(* failed dial schedules a reconnect only with a try to spare, each       *)
(* reconnect goroutine counts exactly one try, and nothing but a          *)
(* successful initConnection lowers the count.                            *)
THEOREM ChainRefinement == Spec => ChainRefined
  BY ChainInit, ChainStep, IInvInvariant, PTL DEF Spec, ChainRefined, Chain!Spec

=============================================================================
