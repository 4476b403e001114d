--------------------------- MODULE XStreamProofs ---------------------------
(***************************************************************************)
(* Proofs about XStream: for every set of downstream request ids and every *)
(* bound on streamIDXprotocolCount, every request in flight on the         *)
(* upstream connection is routed back to the client stream that sent it    *)
(* (InFlightRouted).                                                       *)
(*                                                                         *)
(* InFlightRouted is not inductive: a client stream's AppendData stores    *)
(* streamIdMap[m] := n, which would break the routing of another frame in  *)
(* flight with id m.  The strengthening says why no such frame exists:     *)
(* every id in flight is one the counter has reached (Fresh), and the id a *)
(* client stream holds between changeStreamId and the Store is in no frame *)
(* and held by no other stream (HeldFree), because changeStreamId's atomic *)
(* add hands it out once.                                                  *)
(***************************************************************************)
EXTENDS XStream, TLAPS

USE XStreamAssumption DEF Ids, None

(* Every id in flight upstream has been handed out by the counter.        *)
Fresh == \A f \in InFlight : f.id <= counter

(* The id a client stream took and has not stored yet is handed out, is   *)
(* in no frame in flight and is held by no other client stream.           *)
HeldFree ==
    \A n \in Ids : proxy[n] = "appending" =>
        /\ cId[n] \in 1..counter
        /\ \A f \in InFlight : f.id # cId[n]
        /\ \A k \in Ids : k # n /\ proxy[k] = "appending" => cId[k] # cId[n]

IInv == TypeOK /\ InFlightRouted /\ Fresh /\ HeldFree

(* A step that leaves the counter, the upstream frames, streamIdMap and   *)
(* cId alone, and makes no stream "appending", keeps the three conjuncts   *)
(* about ids.                                                              *)
LEMMA IdsKept ==
    ASSUME IInv, UNCHANGED <<counter, upOut, upIn, streamIdMap, cId>>,
           \A n \in Ids : proxy'[n] = "appending" => proxy[n] = "appending"
    PROVE  InFlightRouted' /\ Fresh' /\ HeldFree'
BY DEF IInv, InFlightRouted, Fresh, HeldFree, InFlight

LEMMA InitIInv == Init => IInv
BY DEF Init, IInv, TypeOK, InFlightRouted, Fresh, HeldFree, InFlight, FrameT,
       NoFrame, Frame, NoHeld, ProxyT

LEMMA ClientSendIInv ==
    ASSUME IInv, NEW r \in ReqIds, ClientSend(r)
    PROVE  IInv'
<1>1. TypeOK'
  BY DEF ClientSend, IInv, TypeOK
<1>2. QED
  BY <1>1, IdsKept DEF ClientSend, IInv

LEMMA ClientGiveUpIInv ==
    ASSUME IInv, NEW r \in ReqIds, ClientGiveUp(r)
    PROVE  IInv'
<1>1. TypeOK'
  BY DEF ClientGiveUp, IInv, TypeOK
<1>2. QED
  BY <1>1, IdsKept DEF ClientGiveUp, IInv

(* Dispatch's first half only advances the counter, which keeps every     *)
(* handed-out id handed out.                                               *)
LEMMA ServerTakeIdIInv ==
    ASSUME IInv, ServerTakeId
    PROVE  IInv'
<1>1. /\ counter' = counter + 1 /\ counter + 1 \in Ids
      /\ sHeld' = [id |-> counter + 1, req |-> Head(downIn)]
      /\ downIn' = Tail(downIn)
  BY DEF ServerTakeId, ChangeStreamId, IInv, TypeOK
<1>2. downIn # << >> /\ downIn \in Seq(ReqIds)
  BY DEF ServerTakeId, IInv, TypeOK
<1>3. TypeOK'
  <2>1. sHeld' \in [id : Ids, req : ReqIds]
    BY <1>1, <1>2
  <2>2. downIn' \in Seq(ReqIds) /\ counter' \in 0..MaxIds
    BY <1>1, <1>2
  <2>3. QED
    BY <2>1, <2>2 DEF ServerTakeId, IInv, TypeOK
<1>4. InFlightRouted' /\ Fresh'
  BY <1>1 DEF ServerTakeId, IInv, TypeOK, InFlightRouted, Fresh, InFlight
<1>5. HeldFree'
  BY <1>1 DEF ServerTakeId, IInv, TypeOK, HeldFree, InFlight
<1>6. QED
  BY <1>3, <1>4, <1>5 DEF IInv

(* Dispatch's second half writes reqIdMap and at most makes its stream    *)
(* "new".                                                                  *)
LEMMA ServerStoreIInv ==
    ASSUME IInv, ServerStore
    PROVE  IInv'
<1> DEFINE n == sHeld.id
<1>1. sHeld \in [id : Ids, req : ReqIds] /\ n \in Ids
  BY DEF ServerStore, IInv, TypeOK, NoHeld
<1>2. /\ reqIdMap' = [reqIdMap EXCEPT ![n] = sHeld.req]
      /\ sActive' = sActive \cup {n}
      /\ proxy' \in {proxy, [proxy EXCEPT ![n] = "new"]}
  BY DEF ServerStore, StreamMapSet, DetectNewStream, StreamMapHas, n
<1>3. TypeOK'
  <2>1. reqIdMap' \in [Ids -> ReqIds \cup {None}] /\ sActive' \subseteq Ids
    BY <1>1, <1>2 DEF IInv, TypeOK
  <2>2. proxy' \in [Ids -> ProxyT]
    BY <1>1, <1>2 DEF IInv, TypeOK, ProxyT
  <2>3. sHeld' \in [id : Ids, req : ReqIds] \cup {NoHeld}
    BY DEF ServerStore
  <2>4. QED
    BY <2>1, <2>2, <2>3 DEF ServerStore, IInv, TypeOK
<1>4. \A k \in Ids : proxy'[k] = "appending" => proxy[k] = "appending"
  BY <1>1, <1>2 DEF IInv, TypeOK
<1>5. QED
  BY <1>3, <1>4, IdsKept DEF ServerStore, IInv

(* AppendData's first half: the client stream takes the id counter + 1,    *)
(* which no frame in flight and no other stream holds.                     *)
LEMMA ClientTakeIdIInv ==
    ASSUME IInv, NEW n \in Ids, ClientTakeId(n)
    PROVE  IInv'
<1> DEFINE m == counter + 1
<1>1. /\ m \in Ids /\ counter' = m
      /\ cId' = [cId EXCEPT ![n] = m]
      /\ cActive' = cActive \cup {n}
      /\ proxy' = [proxy EXCEPT ![n] = "appending"]
      /\ proxy[n] = "new"
      /\ UNCHANGED <<upOut, upIn, streamIdMap>>
  BY DEF ClientTakeId, ChangeStreamId, StreamMapSet, IInv, TypeOK, m
<1>2. TypeOK'
  <2>1. cId' \in [Ids -> Ids \cup {None}] /\ cActive' \subseteq Ids
    BY <1>1 DEF IInv, TypeOK
  <2>2. proxy' \in [Ids -> ProxyT] /\ counter' \in 0..MaxIds
    BY <1>1 DEF IInv, TypeOK, ProxyT, m
  <2>3. QED
    BY <2>1, <2>2 DEF ClientTakeId, IInv, TypeOK
<1>3. InFlightRouted' /\ Fresh'
  BY <1>1 DEF IInv, TypeOK, InFlightRouted, Fresh, InFlight, m
<1>4. HeldFree'
  <2> SUFFICES ASSUME NEW k \in Ids, proxy'[k] = "appending"
               PROVE  /\ cId'[k] \in 1..counter'
                      /\ \A f \in InFlight' : f.id # cId'[k]
                      /\ \A j \in Ids : j # k /\ proxy'[j] = "appending" => cId'[j] # cId'[k]
    BY DEF HeldFree
  <2>1. m \notin {f.id : f \in InFlight}
    BY <1>1 DEF IInv, TypeOK, Fresh, InFlight, m
  <2>2. \A j \in Ids : j # n /\ proxy'[j] = "appending" => cId'[j] \in 1..counter /\ cId'[j] # m
    BY <1>1 DEF IInv, TypeOK, HeldFree, m
  <2>3. CASE k = n
    BY <1>1, <2>1, <2>2, <2>3 DEF IInv, TypeOK, InFlight, m
  <2>4. CASE k # n
    <3>1. proxy[k] = "appending" /\ cId'[k] = cId[k]
      BY <1>1, <2>4 DEF IInv, TypeOK
    <3>2. cId[k] \in 1..counter /\ \A f \in InFlight : f.id # cId[k]
      BY <3>1 DEF IInv, HeldFree
    <3>3. \A j \in Ids : j # k /\ j # n /\ proxy'[j] = "appending" => cId'[j] # cId'[k]
      BY <1>1, <3>1 DEF IInv, TypeOK, HeldFree
    <3>4. cId'[n] # cId'[k]
      BY <1>1, <3>2, <2>4 DEF IInv, TypeOK, m
    <3>5. QED
      BY <1>1, <3>1, <3>2, <3>3, <3>4 DEF IInv, TypeOK, InFlight, m
  <2>5. QED
    BY <2>3, <2>4
<1>5. QED
  BY <1>2, <1>3, <1>4 DEF IInv

(* AppendData's second half: streamIdMap.Store under the held id, then    *)
(* endStream writes the frame with that id; no frame in flight had it.     *)
LEMMA ClientStoreIInv ==
    ASSUME IInv, NEW n \in Ids, ClientStore(n)
    PROVE  IInv'
<1> DEFINE m == cId[n]
           g == Frame(m, n)
<1>1. /\ proxy[n] = "appending"
      /\ m \in 1..counter
      /\ \A f \in InFlight : f.id # m
      /\ \A k \in Ids : k # n /\ proxy[k] = "appending" => cId[k] # m
  BY DEF ClientStore, IInv, HeldFree, m
<1>2. /\ streamIdMap' = [streamIdMap EXCEPT ![m] = n]
      /\ upOut' \in {upOut, upOut \cup {g}}
      /\ proxy' = [proxy EXCEPT ![n] = "sent"]
      /\ UNCHANGED <<counter, upIn, cId>>
  BY DEF ClientStore, ClientRequestFrame, StreamMapGet, m, g
<1>3. m \in Ids /\ g \in [id : Ids, body : Ids] /\ g.id = m /\ g.body = n
  BY <1>1 DEF IInv, TypeOK, Frame, m, g
<1>4. TypeOK'
  <2>1. streamIdMap' \in [Ids -> Ids \cup {None}]
    BY <1>2, <1>3 DEF IInv, TypeOK
  <2>2. upOut' \subseteq [id : Ids, body : Ids]
    BY <1>2, <1>3 DEF IInv, TypeOK
  <2>3. proxy' \in [Ids -> ProxyT]
    BY <1>2 DEF IInv, TypeOK, ProxyT
  <2>4. QED
    BY <2>1, <2>2, <2>3 DEF ClientStore, IInv, TypeOK
<1>5. InFlight' \subseteq InFlight \cup {g}
  BY <1>2 DEF InFlight
<1>6. InFlightRouted'
  <2> SUFFICES ASSUME NEW f \in InFlight' PROVE streamIdMap'[f.id] = f.body
    BY DEF InFlightRouted
  <2>1. CASE f = g
    BY <1>2, <1>3, <2>1 DEF IInv, TypeOK
  <2>2. CASE f \in InFlight
    <3>1. f.id # m /\ f.id \in Ids /\ streamIdMap[f.id] = f.body
      BY <1>1, <2>2 DEF IInv, TypeOK, InFlight, InFlightRouted
    <3>2. QED
      BY <1>2, <3>1 DEF IInv, TypeOK
  <2>3. QED
    BY <1>5, <2>1, <2>2
<1>7. Fresh'
  BY <1>1, <1>2, <1>3, <1>5 DEF IInv, Fresh
<1>8. HeldFree'
  <2> SUFFICES ASSUME NEW k \in Ids, proxy'[k] = "appending"
               PROVE  /\ cId'[k] \in 1..counter'
                      /\ \A f \in InFlight' : f.id # cId'[k]
                      /\ \A j \in Ids : j # k /\ proxy'[j] = "appending" => cId'[j] # cId'[k]
    BY DEF HeldFree
  <2>1. k # n /\ proxy[k] = "appending"
    BY <1>2 DEF IInv, TypeOK
  <2>2. cId[k] # m
    BY <1>1, <2>1
  <2>3. \A j \in Ids : proxy'[j] = "appending" => proxy[j] = "appending"
    BY <1>2 DEF IInv, TypeOK
  <2>4. QED
    BY <1>2, <1>3, <1>5, <2>1, <2>2, <2>3 DEF IInv, HeldFree
<1>9. QED
  BY <1>4, <1>6, <1>7, <1>8 DEF IInv

(* The upstream server's answer keeps its frame in flight.                *)
LEMMA UpstreamRespondIInv ==
    ASSUME IInv, NEW f \in upOut, UpstreamRespond(f)
    PROVE  IInv'
<1>1. InFlight' = InFlight
  BY DEF UpstreamRespond, InFlight
<1>2. TypeOK'
  BY DEF UpstreamRespond, IInv, TypeOK
<1>3. QED
  BY <1>1, <1>2 DEF UpstreamRespond, IInv, InFlightRouted, Fresh, HeldFree

(* Reading a response takes its frame out of flight and moves its stream *)
(* to "responded" or "late".                                               *)
LEMMA ClientDispatchIInv ==
    ASSUME IInv, NEW f \in upIn, ClientDispatch(f)
    PROVE  IInv'
<1> DEFINE n == ClientStreamOf(f)
<1>1. InFlight' \subseteq InFlight /\ UNCHANGED <<counter, streamIdMap, cId>>
  BY DEF ClientDispatch, InFlight
<1>2. f \in [id : Ids, body : Ids]
  BY DEF IInv, TypeOK
<1>3. CASE StreamMapGet(cActive, n)
  <2>1. n \in Ids
    BY <1>3 DEF StreamMapGet, IInv, TypeOK
  <2>2. /\ cActive' = cActive \ {n}
        /\ resp' = [resp EXCEPT ![n] = Frame(None, f.body)]
        /\ proxy' = [proxy EXCEPT ![n] = IF @ = "sent" THEN "responded" ELSE "late"]
    BY <1>3 DEF ClientDispatch, StreamMapRemove, StoredReqId, n
  <2>3. TypeOK'
    <3>1. resp' \in [Ids -> FrameT]
      BY <1>2, <2>1, <2>2 DEF IInv, TypeOK, FrameT, Frame
    <3>2. proxy' \in [Ids -> ProxyT]
      BY <2>1, <2>2 DEF IInv, TypeOK, ProxyT
    <3>3. QED
      BY <2>2, <3>1, <3>2 DEF ClientDispatch, IInv, TypeOK
  <2>4. \A k \in Ids : proxy'[k] = "appending" => proxy[k] = "appending"
    BY <2>1, <2>2 DEF IInv, TypeOK
  <2>5. QED
    BY <1>1, <2>3, <2>4 DEF IInv, InFlightRouted, Fresh, HeldFree
<1>4. CASE ~StreamMapGet(cActive, n)
  <2>1. UNCHANGED <<cActive, resp, proxy>>
    BY <1>4 DEF ClientDispatch, n
  <2>2. TypeOK'
    BY <2>1 DEF ClientDispatch, IInv, TypeOK
  <2>3. QED
    BY <1>1, <2>1, <2>2 DEF IInv, InFlightRouted, Fresh, HeldFree
<1>5. QED
  BY <1>3, <1>4

LEMMA ResetStreamIInv ==
    ASSUME IInv, NEW n \in Ids, ResetStream(n)
    PROVE  IInv'
<1>1. TypeOK'
  BY DEF ResetStream, IInv, TypeOK, ProxyT
<1>2. \A k \in Ids : proxy'[k] = "appending" => proxy[k] = "appending"
  BY DEF ResetStream, IInv, TypeOK
<1>3. QED
  BY <1>1, <1>2, IdsKept DEF ResetStream, IInv

(* Writing a response downstream touches nothing upstream.                *)
LEMMA ServerSendResponseIInv ==
    ASSUME IInv, NEW n \in Ids, ServerSendResponse(n)
    PROVE  IInv'
<1> DEFINE out == ServerEncode(resp[n])
<1>1. out \in [id : ReqIds \cup {None}, body : Ids \cup {None}]
  BY DEF ServerEncode, IInv, TypeOK, FrameT, Frame, NoFrame
<1>2. /\ downOut' = downOut \cup {[stream |-> n, frame |-> out]}
      /\ pending' = pending \ {out.id}
      /\ sActive' = sActive \ {n}
      /\ proxy' = [proxy EXCEPT ![n] = "done"]
  BY DEF ServerSendResponse, StreamMapRemove
<1>3. TypeOK'
  <2>1. downOut' \subseteq [stream : Ids, frame : [id : ReqIds \cup {None}, body : Ids \cup {None}]]
    BY <1>1, <1>2 DEF IInv, TypeOK
  <2>2. proxy' \in [Ids -> ProxyT] /\ pending' \subseteq ReqIds /\ sActive' \subseteq Ids
    BY <1>2 DEF IInv, TypeOK, ProxyT
  <2>3. QED
    BY <2>1, <2>2 DEF ServerSendResponse, IInv, TypeOK
<1>4. \A k \in Ids : proxy'[k] = "appending" => proxy[k] = "appending"
  BY <1>2 DEF IInv, TypeOK
<1>5. QED
  BY <1>3, <1>4, IdsKept DEF ServerSendResponse, IInv

LEMMA StutterIInv ==
    ASSUME IInv, UNCHANGED vars
    PROVE  IInv'
BY DEF vars, IInv, TypeOK, InFlightRouted, Fresh, HeldFree, InFlight

(* IInv holds in every state the stream layer, the proxy and the peers    *)
(* can reach.                                                              *)
LEMMA IInvInvariant == Spec => []IInv
<1>1. Init => IInv
  BY InitIInv
<1>2. IInv /\ [Next]_vars => IInv'
  <2> SUFFICES ASSUME IInv, [Next]_vars PROVE IInv'
    OBVIOUS
  <2>1. CASE \E r \in ReqIds : ClientSend(r) \/ ClientGiveUp(r)
    BY <2>1, ClientSendIInv, ClientGiveUpIInv
  <2>2. CASE ServerTakeId
    BY <2>2, ServerTakeIdIInv
  <2>3. CASE ServerStore
    BY <2>3, ServerStoreIInv
  <2>4. CASE \E n \in Ids : \/ ClientTakeId(n) \/ ClientStore(n)
                            \/ ResetStream(n) \/ ServerSendResponse(n)
    BY <2>4, ClientTakeIdIInv, ClientStoreIInv, ResetStreamIInv, ServerSendResponseIInv
  <2>5. CASE \E f \in upOut : UpstreamRespond(f)
    BY <2>5, UpstreamRespondIInv
  <2>6. CASE \E f \in upIn : ClientDispatch(f)
    BY <2>6, ClientDispatchIInv
  <2>7. CASE UNCHANGED vars
    BY <2>7, StutterIInv
  <2>8. QED
    BY <2>1, <2>2, <2>3, <2>4, <2>5, <2>6, <2>7 DEF Next
<1>3. QED
  BY <1>1, <1>2, PTL DEF Spec

(* The stream layer is well typed for any ids and any counter bound.      *)
THEOREM TypeCorrect == Spec => []TypeOK
BY IInvInvariant, PTL DEF IInv

(* Every request in flight on the upstream connection is routed back to   *)
(* the client stream that sent it, for any set of request ids and any     *)
(* counter bound: the atomic counter shared by both roles and the Store   *)
(* before endStream's write keep streamIdMap right for every frame.       *)
THEOREM InFlightRoutedInvariant == Spec => []InFlightRouted
BY IInvInvariant, PTL DEF IInv

=============================================================================
