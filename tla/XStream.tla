------------------------------- MODULE XStream -------------------------------
(***************************************************************************)
(* The xprotocol stream connection layer (src/pkg/stream/xprotocol/        *)
(* stream.go) on a proxied request path: a downstream connection in the    *)
(* server role and an upstream connection in the client role.              *)
(*                                                                         *)
(* Every request id is rewritten twice from the process-wide counter       *)
(* streamIDXprotocolCount: by the server role's Dispatch (changeStreamId, *)
(* saving local id -> original id in reqIdMap) and by the client stream's  *)
(* AppendData (saving upstream id -> stream id in streamIdMap).  On the    *)
(* way back the client role maps the response id to its stream, restores  *)
(* the stream's reqId and hands the response to the stream's decoder; the  *)
(* proxy writes it on the server stream, whose AppendData restores the     *)
(* downstream client's id from reqIdMap.                                   *)
(*                                                                         *)
(* The proxy (the server callbacks and the stream decoders) and the two    *)
(* peers are not in src/: they are the environment, and they do what the  *)
(* stream layer's interface lets them do.  The proxy opens one client      *)
(* stream per downstream stream and names it after it.  A frame is an id   *)
(* and a body; the body names the request it carries or answers.  Headers, *)
(* routing metadata, tracing and logging are left out.                    *)
(***************************************************************************)
EXTENDS Naturals, Sequences

CONSTANTS
    ReqIds,   \* ids the downstream client gives its requests
    MaxIds    \* bound: values streamIDXprotocolCount may reach

Ids == 1..MaxIds   \* values of the counter, formatted as stream ids
None == 0          \* the empty id "", a missing map entry, a nil buffer

\* A request id is a value reqIdMap.Load finds, never the missing entry.
ASSUME XStreamAssumption == ReqIds # {} /\ MaxIds \in Nat /\ None \notin ReqIds

VARIABLES
    counter,      \* streamIDXprotocolCount
    downIn,       \* request frames from the downstream client, in order
    downOut,      \* what the server role wrote back, one entry per endStream
    pending,      \* request ids the downstream client awaits
    sActive,      \* server connection's activeStream keys
    reqIdMap,     \* reqIdMap[n]: original id of local id n (None: absent)
    sHeld,        \* Dispatch between changeStreamId and reqIdMap.Store
    cActive,      \* client connection's activeStream keys
    streamIdMap,  \* streamIdMap[m]: client stream of upstream id m
    cId,          \* cId[n]: upstream id client stream n's AppendData took
    upOut,        \* request frames the upstream server has not answered
    upIn,         \* response frames the client Dispatch has not read yet
    proxy,        \* proxy[n]: the proxy's state for downstream stream n
    resp          \* resp[n]: response frame the proxy received on stream n

vars == <<counter, downIn, downOut, pending, sActive, reqIdMap, sHeld, cActive,
          streamIdMap, cId, upOut, upIn, proxy, resp>>

Frame(i, b) == [id |-> i, body |-> b]
NoFrame == Frame(None, None)
NoHeld == [id |-> None, req |-> None]   \* Dispatch is not between the two

-----------------------------------------------------------------------------
(* Stream-layer operations.                                               *)

\* streamMap, a map guarded by an RWMutex, as the set of its keys: the
\* model keeps what a stream value holds in per-id variables.
StreamMapHas(m, n) == n \in m
StreamMapGet(m, n) == n \in m
StreamMapRemove(m, n) == m \ {n}
StreamMapSet(m, n) == m \cup {n}

\* changeStreamId: atomic.AddUint64 on the counter; the new value,
\* formatted, becomes the frame's id.
ChangeStreamId(c) == [id |-> c + 1, counter |-> c + 1]

\* NewStream stores a copy of the stream value in activeStream and returns
\* a pointer to the original; AppendData sets reqId on the original only,
\* so the reqId OnReceiveData reads from the stored copy is still empty.
StoredReqId(n) == None

\* AppendData's client branch: the request of stream n leaves with the
\* rewritten id m (encodedData = reqBuf).
ClientRequestFrame(n, m) == Frame(m, n)

\* Dispatch's client branch: the stream saved for the response's id in
\* streamIdMap, or "" when the lookup fails.
ClientStreamOf(f) == IF f.id \in Ids THEN streamIdMap[f.id] ELSE None

\* onNewStreamDetected: "if activeStream.Has(streamID) return"; otherwise
\* the proxy's NewStream creates the stream's decoder.
DetectNewStream(n) == IF StreamMapHas(sActive, n) THEN proxy ELSE [proxy EXCEPT ![n] = "new"]

\* The server role's AppendData: look the frame's id up in reqIdMap and
\* restore the original id; without an entry encodedData stays nil.
ServerEncode(f) ==
    IF f.id \in Ids /\ reqIdMap[f.id] # None
    THEN Frame(reqIdMap[f.id], f.body)
    ELSE NoFrame

Init ==
    /\ counter = 0
    /\ downIn = << >>
    /\ downOut = {}
    /\ pending = {}
    /\ sActive = {}
    /\ reqIdMap = [n \in Ids |-> None]
    /\ sHeld = NoHeld
    /\ cActive = {}
    /\ streamIdMap = [m \in Ids |-> None]
    /\ cId = [n \in Ids |-> None]
    /\ upOut = {}
    /\ upIn = {}
    /\ proxy = [n \in Ids |-> "none"]
    /\ resp = [n \in Ids |-> NoFrame]

(* The downstream client sends a request with an id it has no answer      *)
(* pending for (environment); requests the counter's bound would keep     *)
(* from being dispatched are not sent.                                     *)
ClientSend(r) ==
    /\ r \notin pending
    /\ counter + Len(downIn) < MaxIds
    /\ pending' = pending \cup {r}
    /\ downIn' = Append(downIn, r)
    /\ UNCHANGED <<counter, downOut, sActive, reqIdMap, sHeld, cActive,
                   streamIdMap, cId, upOut, upIn, proxy, resp>>

(* The downstream client stops waiting for request r (its own timeout) and *)
(* may send a new request with the same id (environment).                 *)
ClientGiveUp(r) ==
    /\ r \in pending
    /\ pending' = pending \ {r}
    /\ UNCHANGED <<counter, downIn, downOut, sActive, reqIdMap, sHeld, cActive,
                   streamIdMap, cId, upOut, upIn, proxy, resp>>

(* Dispatch on the server connection, one frame of SplitFrame, first half: *)
(* GetStreamId reads the request's id and changeStreamId rewrites it.      *)
ServerTakeId ==
    /\ sHeld = NoHeld
    /\ downIn # << >>
    /\ counter < MaxIds
    /\ LET ch == ChangeStreamId(counter) IN
          /\ counter' = ch.counter
          /\ sHeld' = [id |-> ch.id, req |-> Head(downIn)]
    /\ downIn' = Tail(downIn)
    /\ UNCHANGED <<downOut, pending, sActive, reqIdMap, cActive, streamIdMap,
                   cId, upOut, upIn, proxy, resp>>

(* Dispatch, second half: reqIdMap.Store(streamId, reqId), then           *)
(* OnReceiveHeaders/OnReceiveData: unless the stream exists,               *)
(* onNewStreamDetected creates it and the proxy's NewStream receives the  *)
(* request.                                                                *)
ServerStore ==
    /\ sHeld # NoHeld
    /\ LET n == sHeld.id IN
          /\ reqIdMap' = [reqIdMap EXCEPT ![n] = sHeld.req]
          /\ sActive' = StreamMapSet(sActive, n)
          /\ proxy' = DetectNewStream(n)
    /\ sHeld' = NoHeld
    /\ UNCHANGED <<counter, downIn, downOut, pending, cActive, streamIdMap, cId,
                   upOut, upIn, resp>>

\* ClientTakeId with endStream's write moved before streamIdMap.Store: the
\* request leaves before its mapping is saved.
ClientTakeIdWrite(n) ==
    /\ proxy[n] = "new"
    /\ counter < MaxIds
    /\ LET ch == ChangeStreamId(counter) IN
          /\ counter' = ch.counter
          /\ cId' = [cId EXCEPT ![n] = ch.id]
          /\ upOut' = upOut \cup {ClientRequestFrame(n, ch.id)}
    /\ cActive' = StreamMapSet(cActive, n)
    /\ proxy' = [proxy EXCEPT ![n] = "appending"]
    /\ UNCHANGED <<downIn, downOut, pending, sActive, reqIdMap, sHeld,
                   streamIdMap, upIn, resp>>

(* The proxy forwards downstream stream n upstream: NewStream(n) makes the *)
(* client stream active, and AppendData(request, endStream) begins:        *)
(* GetStreamId saves reqId and changeStreamId takes the upstream id.       *)
ClientTakeId(n) ==
    /\ proxy[n] = "new"
    /\ counter < MaxIds
    /\ LET ch == ChangeStreamId(counter) IN
          /\ counter' = ch.counter
          /\ cId' = [cId EXCEPT ![n] = ch.id]
    /\ cActive' = StreamMapSet(cActive, n)
    /\ proxy' = [proxy EXCEPT ![n] = "appending"]
    /\ UNCHANGED <<downIn, downOut, pending, sActive, reqIdMap, sHeld,
                   streamIdMap, upOut, upIn, resp>>

(* AppendData of client stream n, rest: streamIdMap.Store(streamId,       *)
(* s.streamID), and endStream writes the request if stream n is active.    *)
ClientStore(n) ==
    /\ proxy[n] = "appending"
    /\ streamIdMap' = [streamIdMap EXCEPT ![cId[n]] = n]
    /\ upOut' = IF StreamMapGet(cActive, n)
                THEN upOut \cup {ClientRequestFrame(n, cId[n])}
                ELSE upOut
    /\ proxy' = [proxy EXCEPT ![n] = "sent"]
    /\ UNCHANGED <<counter, downIn, downOut, pending, sActive, reqIdMap, sHeld,
                   cActive, cId, upIn, resp>>

(* The upstream server answers one of its requests, in any order, with    *)
(* the request's id (environment).  The read loop reads responses in the  *)
(* order they arrive; as the server answers in any order, upIn is a set.  *)
UpstreamRespond(f) ==
    /\ upOut' = upOut \ {f}
    /\ upIn' = upIn \cup {f}
    /\ UNCHANGED <<counter, downIn, downOut, pending, sActive, reqIdMap, sHeld,
                   cActive, streamIdMap, cId, proxy, resp>>

(* Dispatch on the client connection: find the stream of the response id  *)
(* (none: "maybe streamid is changed"), OnReceiveHeaders/OnReceiveData: if *)
(* the stream is active, restore its reqId, hand the response to its       *)
(* decoder and remove the stream.                                          *)
ClientDispatch(f) ==
    /\ LET n == ClientStreamOf(f)
       IN IF StreamMapGet(cActive, n)
          THEN /\ cActive' = StreamMapRemove(cActive, n)
               /\ resp' = [resp EXCEPT ![n] = Frame(StoredReqId(n), f.body)]
               /\ proxy' = [proxy EXCEPT ![n] = IF @ = "sent" THEN "responded" ELSE "late"]
          ELSE UNCHANGED <<cActive, resp, proxy>>
    /\ upIn' = upIn \ {f}
    /\ UNCHANGED <<counter, downIn, downOut, pending, sActive, reqIdMap, sHeld,
                   streamIdMap, cId, upOut>>

(* The proxy's per-request timer fires: ResetStream(StreamTimeout) on the  *)
(* client stream runs its event listeners and nothing else.                *)
ResetStream(n) ==
    /\ proxy[n] = "sent"
    /\ proxy' = [proxy EXCEPT ![n] = "reset"]
    /\ UNCHANGED <<counter, downIn, downOut, pending, sActive, reqIdMap, sHeld,
                   cActive, streamIdMap, cId, upOut, upIn, resp>>

(* The proxy writes the response on server stream n: AppendData restores  *)
(* the original id, endStream writes encodedData and removes the stream.   *)
(* The downstream client takes the answer to the id it reads.              *)
ServerSendResponse(n) ==
    /\ proxy[n] = "responded"
    /\ LET out == ServerEncode(resp[n]) IN
          /\ downOut' = downOut \cup {[stream |-> n, frame |-> out]}
          /\ pending' = pending \ {out.id}
    /\ sActive' = StreamMapRemove(sActive, n)
    /\ proxy' = [proxy EXCEPT ![n] = "done"]
    /\ UNCHANGED <<counter, downIn, reqIdMap, sHeld, cActive, streamIdMap, cId,
                   upOut, upIn, resp>>

Next ==
    \/ \E r \in ReqIds : ClientSend(r) \/ ClientGiveUp(r)
    \/ ServerTakeId \/ ServerStore
    \/ \E n \in Ids : \/ ClientTakeId(n) \/ ClientStore(n)
                      \/ ResetStream(n) \/ ServerSendResponse(n)
    \/ \E f \in upOut : UpstreamRespond(f)
    \/ \E f \in upIn : ClientDispatch(f)

Spec == Init /\ [][Next]_vars

-----------------------------------------------------------------------------
FrameT == [id : Ids \cup {None}, body : Ids \cup {None}]
ProxyT == {"none", "new", "appending", "sent", "reset", "responded", "late", "done"}

TypeOK ==
    /\ counter \in 0..MaxIds
    /\ downIn \in Seq(ReqIds)
    /\ downOut \subseteq [stream : Ids, frame : [id : ReqIds \cup {None}, body : Ids \cup {None}]]
    /\ pending \subseteq ReqIds
    /\ sActive \subseteq Ids /\ cActive \subseteq Ids
    /\ reqIdMap \in [Ids -> ReqIds \cup {None}]
    /\ sHeld \in [id : Ids, req : ReqIds] \cup {NoHeld}
    /\ streamIdMap \in [Ids -> Ids \cup {None}]
    /\ cId \in [Ids -> Ids \cup {None}]
    /\ upOut \subseteq [id : Ids, body : Ids]
    /\ upIn \subseteq [id : Ids, body : Ids]
    /\ proxy \in [Ids -> ProxyT]
    /\ resp \in [Ids -> FrameT]

\* Requests on their way to or from the upstream server.
InFlight == upOut \cup upIn

(* Every request on the upstream connection, written or answered and not *)
(* yet read back, is routed to the client stream that sent it:            *)
(* streamIdMap maps its upstream id to that stream.  The server role's    *)
(* Dispatch and every client stream's AppendData draw ids from the one     *)
(* process-wide counter, and AppendData stores the mapping before          *)
(* endStream writes: an id taken twice, a Store that overwrites a live     *)
(* entry, or a write before the Store would let the response's Dispatch    *)
(* find another stream or none ("maybe streamid is changed").              *)
InFlightRouted == \A f \in InFlight : streamIdMap[f.id] = f.body

(* What the server role writes at the end of a stream is the answer to    *)
(* that stream's request, carrying the id the downstream client gave it   *)
(* (spec 4.4: the response restores the original id before writing).      *)
ResponsesCarryRequestId ==
    \A w \in downOut : w.frame = Frame(reqIdMap[w.stream], w.stream)

=============================================================================
