# Verification of mosn's connection pools, stream layer, cluster manager and filters

This directory holds TLA+ models of the stateful and concurrent parts of the
mosn sources under `src/`, the TLC configurations that model-check them, an abstract specification
that one of them implements, and TLAPS proof modules. `PROJECT.json` lists the components, the runs, the mutants,
the source lines each definition models (`map`), the findings, the hazards and
the theorems.

## 1. The system and how its parts interact

| Part | Source | Module |
|---|---|---|
| Message pool with auto-reconnect | `pkg/stream/connpool/msgconnpool/connpool.go` | `MsgConnPool`, abstract `ReconnectChain`, proofs in `MsgConnPoolProofs` |
| HTTP/2 pool | `pkg/stream/http2/connpool.go` | `Http2Pool` |
| xprotocol stream layer | `pkg/stream/xprotocol/stream.go` | `XStream`, proofs in `XStreamProofs` |
| Cluster manager and xDS cluster callbacks | `pkg/upstream/cluster/clustermanager.go`, `pkg/config/callback.go` | `ClusterManager` |
| Buffer pool contexts | `vendor/mosn.io/pkg/buffer/buffer.go` | `BufferPool` |
| gRPC network filter factory and xDS listener callbacks | `pkg/filter/network/grpc/factory.go`, `pkg/config/callback.go`, `pkg/config/parser.go` | `GrpcFactory` |

Each `MC<Module>.tla` instantiates its module for TLC with model values.

How the parts work together:
- The xDS client's callbacks (`config/callback.go`) add, replace and delete clusters and their hosts in the cluster manager. They also create the listeners' network filter factories, among them the gRPC factory.
- The cluster manager hands out pools per protocol and address: HTTP/2, HTTP/1, xprotocol and SofaRPC.
- The pools open connections. Connection events drive the message pool's reconnection and the HTTP/2 pool's client replacement.
- The xprotocol stream layer runs on those connections and rewrites request ids in both directions.
- Every request carries a buffer pool context, which moves between the downstream and upstream contexts.

The parts interact only through calls whose other side is not in `src/`: the proxy, the adapters and the connection implementation. A composed model would therefore join them through assumed behaviour, not through code. The composition that is in `src/` is modelled: the xDS callbacks driving the cluster manager, and the listener callbacks driving the gRPC factory.

## 2. The modules

### MsgConnPool

| Variable | Code |
|---|---|
| `conn[c]` | the state of the c-th connection the pool creates: unused, open or closed |
| `connData`, `client`, `destroyed` | `activeClient.connData`, `connpool.client != nil`, `connpool.destroyed` |
| `connectTryTimes`, `reconnectLock` | the try counter and the holder of the reconnect lock |
| `pc[a]`, `created[a]` | where each actor is, and its `createConnData` |
| `destroyState`, `lastEvent` | how far `Destroy` has got; the last event `OnEvent` saw |

The actors:
- Actor 0 is the NewConn thread. Its first `initConnection` runs without the lock.
- Every other actor is a reconnect goroutine, named by the connection whose close event spawned it.

Each action is one step between two reads or writes of shared state:
- `Dial`, `FailCheck`/`FailStore`, `Store`, `DestroyCheck`, `Reset`: `initConnection`;
- `Wake`: the goroutine's sleep, lock and count;
- `RemoteClose`, `Write`;
- `DestroyFlag`, `DestroyClose`: the two statements of `Destroy`.

A close event runs `OnEvent` synchronously with the close. Backoff durations are abstracted: a sleeping goroutine may wake at any time, which covers every schedule.

**What the pool promises: `ReconnectChain`.** This abstract specification has two variables:
- `phase`: dialling, connected, backing off or down;
- `tries`: the try count.

Its four steps are:
- `Connect`;
- `Lose`: a close or a failed dial, which may back off only while `tries < Limit`;
- `Wake`: counts one try, then dials or stops;
- `ResetTries`.

`MsgConnPool` maps onto it through `ChainPhase`:
- an actor at `"dial"` is dialling;
- else a goroutine at `"sleep"` is backing off;
- else an open connection is connected;
- else the pool is down.

`tries` is `connectTryTimes` and `Limit` is `TryLimit`. `SingleChain` makes the four phases exclusive. `ChainRefined` (`Chain!Spec`) is checked by TLC and proved by TLAPS.

**Fairness.** `FairSpec` adds weak fairness to each actor's own steps (`ActorStep(a)`: `Wake` through `Reset`). Go's scheduler eventually runs every runnable goroutine, and the NewConn thread is one. Closes, writes and `Destroy` come from the peer and the user, so they get no fairness: none of them need ever happen.

### Http2Pool

| Variable | Code |
|---|---|
| `active` | `p.activeClient` |
| `cstate`, `goaway`, `closeWithActiveReq` | each client's connection state and flags |
| `clearing` | a close handler that has passed its goaway check and has yet to take the mux |
| `requests` | the resource manager's request count |
| `streams` | live streams per client |
| `caller`, `callerClient` | the NewStream callers' positions and the client each obtained |

The actions:
- `Acquire`: the closure under `p.mux`, with `NewActiveClient`'s two outcomes;
- `Admit` (`CanCreate`) and `Increase`: two separate steps, as in the code;
- `StreamDestroy` and `StreamReset`;
- `GoAway`;
- `CloseEvent` and `ClearActive`: the two halves of `onConnectionEvent`;
- `PoolClose`.

`streams` only lets the environment destroy or reset a stream that exists; the stream layer that calls `onStreamDestroy` and `onStreamReset` is not part of this file.

### XStream

The model covers one downstream connection in the server role, one upstream connection in the client role, and the process-wide id counter they share.

| Variable | Code |
|---|---|
| `reqIdMap`, `streamIdMap` | the id maps |
| `sActive`, `cActive` | the `activeStream` maps, through `StreamMap*` |
| `counter` | the process-wide id counter `streamIDXprotocolCount` |
| `sHeld` | the server `Dispatch` between `changeStreamId` and `reqIdMap.Store` |
| `cId[n]` | the upstream id client stream n's `AppendData` took |
| `upOut`, `upIn` | requests the upstream has not answered, answers not read yet |

The actions:
- `ServerTakeId` and `ServerStore`: the server role's `Dispatch` of one frame, split at the shared counter. The first half is `GetStreamId` plus `changeStreamId`. The second is `reqIdMap.Store`, `onNewStreamDetected` and the hand-off to the proxy;
- `ClientTakeId` and `ClientStore`: the proxy's `NewStream`, then `AppendData`, split the same way. The first half takes the upstream id. The second is `streamIdMap.Store` followed by `endStream`'s write;
- `ClientDispatch`: `Dispatch` in the client role, the `streamIdMap` lookup and `OnReceiveData`;
- `ServerSendResponse` and `ResetStream`.

Each half is a step of its own because other goroutines use the counter between the two halves. Those goroutines are the other connections' `Dispatch` and the other client streams' `AppendData`.

The peers and the proxy are the environment:
- `ClientSend`, and `ClientGiveUp`: a downstream client that stops waiting and may reuse the id;
- `UpstreamRespond`, which answers in any order. Since the answer order is arbitrary, the answers not yet read form a set.

`StoredReqId` models `NewStream` storing a copy of the stream value.

### ClusterManager

| Variable | Code |
|---|---|
| `primary[c]` | the `primaryClusters` entry: its object and its host slice, as a backing array plus a length |
| `arrays`, `arrObj` | the backing arrays, and the object each was built for. Both are functions on `ArrayIds`: the start-up arrays, named after their clusters, and the arrays `1..MaxArrays` that `UpdateClusterHosts` allocates in order, with `nArrays` counting those allocated |
| `pools`, `created` | the per-protocol pool maps |
| `worker[w]` | a request or admin goroutine's position and locals |
| `xds` | the xDS client goroutine |

The worker actions:
- `RemoveHost`: the in-place shift of `RemoveClusterHosts`;
- `UpdateHosts`: on the object read at the start;
- `ChooseHost`: the common start of `HttpConnPoolForCluster`, `XprotocolConnPoolForCluster`, `TcpConnForCluster` and `SofaRpcConnPoolForCluster`;
- `PickHost`;
- `GetPool` and `SetPool`: `Get`, then `Set` on the concurrent map.

Clusters change only through the xDS callbacks:
- `OnUpdateClusters`: `AddOrUpdatePrimaryCluster`, then, for a non-EDS cluster, its hosts in a later step;
- `OnDeleteClusters`: `RemovePrimaryCluster`;
- `OnUpdateEndpoints`;
- `XdsUpdateHosts`: one `UpdateClusterHosts` per host list, and the callback's return on a "not found" or "can't be update" error (`UpdateHostsRefused`).

`NewCluster` is not in `src/`. It decides whether an object is a `simpleInMemCluster` (`inMem`), and `UpdateClusterHosts` and `RemoveClusterHosts` refuse any other kind. The model chooses the kind when an object is created.

The cluster adapter is not in `src/`. Its `Trigger*` functions are assumed to make the manager calls their names say, each call a step of its own.

### BufferPool

The model covers one registered pool; different pools' slots never interact.

| Variable | Code |
|---|---|
| `free`, `vFree` | what the two `sync.Pool`s hold |
| `value[v]`, `transmit[v]` | a `BufferValue`'s slots |
| `ctx[r]`, `phase[r]` | a request's context |

The actions:
- `NewBufferPoolContext`: through `NewBufferValue`;
- `Find`: through `Take`;
- `Transmit`: `TransmitBufferPoolContext`, where `PoolContext` may create a value that no context keeps;
- `Give`: through `GiveBack`;
- `DropBuffer` and `DropValue`: a `sync.Pool` losing what it holds.

### GrpcFactory

| Variable | Code |
|---|---|
| `stores`, `once`, `serving` | the handler registry, each handler's `sync.Once`, and the `Serve` goroutines |
| `lnOpen` | listeners `Init` opened |
| `listeners` | what the listener adapter holds |
| `fac[k]` | listener k's current factory |

The actions:
- `RegisterServerHandler`;
- `GetNetworkFilters`: start-up. A factory that fails to be created is skipped, and the listener is added anyway;
- `OnAddOrUpdateListeners`: a push of one or two listeners. It stops at the first failure, and the last entry of a listener wins;
- `OnDeleteListeners`;
- `InitFactory` with `Start`: `NewListener` may fail, `once.Do` runs, and the constructor may fail.

## 3. Runs

| Run | Bounds | Property | Result |
|---|---|---|---|
| `msg_reconnect` | auto-reconnect, 2 tries, 5 connections, `FairSpec` | `TriesBounded`, `SingleChain`, `SleeperWakes`, `ChainRefined` | pass, 3869 states |
| `msg_giveup` | 1 try, 3 connections | `NoSilentGiveUp` | violated (finding 1) |
| `msg_orphan` | 2 tries, 3 connections | `NoOrphanConnection` | violated (finding 2) |
| `h2_overflow` | 2 callers, limit 1 | `RequestsWithinLimit` | violated (finding 3) |
| `h2_leak` | 2 callers, 3 clients | `NoLeakedClient` | violated (finding 4) |
| `xs_ids` | 2 request ids, counter ≤ 5 | `InFlightRouted` | pass, 415k states, about 10 s |
| `xs_reqid` | 2 request ids, counter ≤ 4 | `ResponsesCarryRequestId` | violated (finding 5) |
| `cm_snapshot` | 2 workers, 1 array, no replacement | `ChosenWasListed` | violated (finding 6) |
| `cm_pool_once` | 2 workers, no cluster change, 2 pools | `PoolCreatedOnce` | violated (finding 7) |
| `buf_exclusive` | 3 requests, 2 values, 3 buffers | `BuffersExclusive` | pass, 8718 states |
| `grpc_once` | 2 servers, 2 listeners | `OneServerInstance` | pass, 6920 states |

### Why the bounds are enough

- **Message pool.** Five connections allow NewConn's dial, a failure, two retries and a connection after a reset.
- **HTTP/2 pool.** Three clients allow a GOAWAY replacement while an older client's close is pending. A limit of 1 makes admission contested by two callers.
- **Request ids.** A counter of 5 gives two downstream streams their local ids and both client streams their upstream ids, with one id to spare. That spare id lets the server's `Dispatch` of a third request take an id between a client stream's two halves. Two request ids, with `ClientGiveUp`, make the downstream client reuse an id.
- **Pools.** Two workers and two pools are the smallest case of two creators racing on one key.
- **Buffers.** Three requests and two values make vPool reuse and a context without a value both reachable.
- **gRPC.** Two listeners naming one server are the smallest case of the once-per-handler question.

### Deadlock

Every run says `CHECK_DEADLOCK FALSE` except `grpc_once`. Where it is set, the model may stop for two reasons: an idle system is a real final state, or the bounds on created objects are reached. `grpc_once` always has a registration or a listener change left to do, so TLC checks it for deadlock.

### What the passing runs show

- `TriesBounded` and `SingleChain` hold under every interleaving. Concurrent close events collapse into one reconnection chain (spec 4.5.b).
- `ChainRefined`: the pool implements `ReconnectChain`. A reconnect is scheduled only with a try to spare. Every reconnect goroutine counts exactly one try, and only a successful `initConnection` lowers the count.
- `SleeperWakes` (liveness, under `FairSpec`): a reconnect goroutine waiting for its backoff and `reconnectLock` eventually runs. This holds because every path out of `initConnection` releases the lock. A goroutine that sleeps across `Destroy` wakes, sees `destroyed` and stops.
- `InFlightRouted`: every request written upstream and not yet read back is routed by `streamIdMap` to the client stream that sent it. This holds across concurrent `Dispatch` and `AppendData` calls sharing the counter, resets and answers in any order. Two things guarantee it: the atomic counter never gives two client streams one id, and `AppendData` stores the mapping before `endStream` writes.
- `BuffersExclusive`: a buffer has one owner, and live requests never share a BufferValue.
- `OneServerInstance`: each gRPC server serves at most one listener. A factory is ready only while its server serves the listener its `Init` opened. This holds through listener updates and deletions and through failing constructors and listeners.

### Mutants

Each property of a passing run is broken by one plausible code change, under the run's own configuration:

| Mutant | What it changes | Breaks |
|---|---|---|
| `SpawnsReconnectAtLimit` | `>` for `>=` | `TriesBounded` |
| `HandlesEventAny` | reconnect on any event | `SingleChain` |
| `FailCheckKeepLock` | the early return forgets `reconnectLock.Unlock()` | `SleeperWakes` |
| `WakeNoCount` | the goroutine forgets `connectTryTimes++` | `ChainRefined` |
| `ClientTakeIdWrite` | `endStream`'s write moved before `streamIdMap.Store` | `InFlightRouted` |
| `TransmitKeepSource` | the source slot not cleared | `BuffersExclusive` |
| `StartNoOnce` | no `sync.Once` | `OneServerInstance` |

### Findings

1. **`connpool.go:171`: the message pool gives up silently.**
   - A close event races NewConn's reset of the try counter.
   - The pool is left with tries to spare, no connection and no reconnect pending.
2. **`connpool.go:150`: NewConn orphans a connection.**
   - NewConn's unlocked store overwrites a newer connection that a reconnect goroutine stored.
   - That connection stays open, and nothing tracks it.
3. **`http2/connpool.go:107`: two callers exceed the request limit.**
   - `CanCreate` and `Increase` are separate steps.
   - Two callers both pass the check, so the count reaches max+1 (spec 4.5.a).
4. **`http2/connpool.go:155`: a stale close handler drops a fresh client.**
   - The close handler passes its goaway check, and the client is then replaced after GOAWAY.
   - The handler clears the new active client, which leaks.
5. **`xprotocol/stream.go:216`: the response loses its request id.**
   - `NewStream` stores a copy of the stream.
   - The reqId set on the original never reaches the response, and the server role writes nothing (spec 4.4).
6. **`clustermanager.go:212`: a host removal edits the live array.**
   - `RemoveClusterHosts` shifts the live array in place.
   - A load balancer then picks an address its slice did not list (spec 4.6, spec 5 (c)).
7. **`clustermanager.go:249`: a pool is created twice for one host.**
   - The pool getters call `Get`, then on a miss create a pool and `Set` it, with no compare-and-set.
   - Two concurrent requests both create a pool, and the second `Set` overwrites the first. Spec 4.6 requires at-most-once creation.

## 4. Proofs

`MsgConnPoolProofs.tla` is checked by tlapm, with every obligation proved. Its theorems hold for every value of the constants allowed by `ConstantsAssumption`:
- `AutoReconnect` is a boolean;
- `ConnTryTimes ∈ Nat ∪ {-1}`;
- `MaxConns ≥ 1`.

| Theorem | What it proves |
|---|---|
| `TypeCorrect` | `Spec => []TypeOK` |
| `IInvInvariant` | `Spec => []IInv` |
| `TriesBoundedInvariant` | `Spec => []TriesBounded` |
| `SingleChainInvariant` | `Spec => []SingleChain` |
| `ChainRefinement` | `Spec => ChainRefined`: the pool implements `ReconnectChain` |

`TriesBounded` and `SingleChain` are not inductive as they stand, for three reasons:
- `Wake` increments the counter. That is safe only because a sleeper was spawned with a try to spare (`SleeperHasTry`).
- `Dial` opens a connection. That is safe only because a dialling actor excludes open connections, and connection numbers are used in order (`CreatedInOrder`).
- The goroutine a close spawns is named by a closed connection (`SpawnedAfterClose`).

`IInv` adds these facts and a few more: `PastConnect`, `ConnDataSet`, `DestroyAfterNew` and `NewConnRunning`. `IInvStep` has one lemma per action, and each lemma proves, one by one, the conjuncts its action can disturb.

`ChainRefinement` is proved in the usual way:
- `ChainInit`: `Init => Chain!Init`.
- `ChainStep`: `IInv /\ [Next]_vars => [Chain!Next]_Chain!vars`. It has one lemma per group of actions:
  - `WakeChain` and `DialChain`;
  - `AfterConnectChain`: the steps after Connect, which stutter or reset the count;
  - `OpenCloseChain` and `DestroyCheckChain`/`DestroyChain`: the closes, which all reduce to `CloseLoses`.
- `IInv` supplies the exclusivity of the phases (`SingleChain`) and the try-to-spare fact for a spawn.

`BufferPoolProofs.tla`, `XStreamProofs.tla` and `GrpcFactoryProofs.tla` are checked by tlapm too, with every obligation proved. Each one does two things: it proves an inductive invariant `IInv`, one lemma per action, and it derives from `IInv` the invariant its run checks. The theorems hold for every value of the constants that the module's `ASSUME` allows.

| Module | Theorem | What it proves |
|---|---|---|
| `BufferPoolProofs` | `BuffersExclusiveInvariant` | `Spec => []BuffersExclusive` |
| `XStreamProofs` | `TypeCorrect`, `InFlightRoutedInvariant` | `Spec => []TypeOK`, `Spec => []InFlightRouted` |
| `GrpcFactoryProofs` | `OneServerInstanceInvariant` | `Spec => []OneServerInstance` |

Why each invariant needs strengthening:
- **BuffersExclusive.** A buffer handed out must not still be in the free pool, and a slot must point only at buffers already created (`SlotsNotFree`, `BufsCreated`). A value in the value pool must be empty (`FreeValuesEmpty`). Two live requests must hold different values (`LiveValuesHeld`, `LiveValuesDistinct`). Without these, `Find` could take a buffer that another slot holds.
- **InFlightRouted.** `ClientStore` writes `streamIdMap[cId[n]] := n`, and that write would break the routing of any other frame in flight under the same id. Two facts rule such a frame out:
  - every id in flight is one the counter has reached (`Fresh`);
  - an id a client stream holds between its two halves is in no frame in flight and is held by no other stream (`HeldFree`).

  `ClientTakeId` keeps both facts because it takes `counter + 1`, an id nothing uses yet.
- **OneServerInstance.** A served server has had its `sync.Once` run (`ServingStarted`), and a server serves at most one listener (`ServingUnique`). `Start` serves only when `Once` has not run, so no listener is served by that server yet. The proof shows the step for these facts and derives the cardinality bound (`UniqueCard`).

Only model-checked:
- `SleeperWakes`, a liveness property under `FairSpec`. TLAPS does not prove liveness here, because the proof would rest on `ENABLED` and on weak fairness.
- `ChosenWasListed`, `PoolCreatedOnce` and the other findings, which are violations.

Out of TLAPS's reach, and left to TLC:
- liveness and `ENABLED`;
- properties of modules that reach a recursive operator (none of the proof modules does);
- what a recursive definition computes for every input (induction over data).

## 5. Not modelled, and why

**Parts of the modelled components:**
- `RegisterBuffer`. Registration happens at start-up, one call per pool type. Its off-by-one (`index` incremented before the `>= maxBufferPool` check, so only 15 of 16 slots are usable) is a constant fact, not a behaviour to explore.
- The statistics counters. No property reads them.
- `ParseGRPC` and the JSON configuration. These are data conversion.
- The stream filter lookups. They only read.

**Code bugs seen but not modelled:**
- `RegisterConfigParsedListener` (`config/parser.go:68–77`) appends to a copy of the callback slice and never stores it back. A second callback registered for a key is silently dropped. This is a sequential bug in a registry, not a behaviour TLC needs to explore.
- `OnUpdateEndpoints` passes each priority group to `UpdateClusterHosts` with priority 0. Each group therefore replaces the whole host list, and the last group wins. It is recorded as a hazard, and the model shows the intermediate lists.

**Whole components:**
- The xDS v3 translation, the health-check dialer, the jaeger driver, the variable API and the thrift sample codec. They are I/O or data conversion.
- `protocol/xprotocol/header.go`. It only declares two deprecated type aliases, so it has no state or operation to model.
- The wasm imports. They are a foreign-function boundary. One detail: a panic recovered inside an import returns status 0, which means Ok.
- The bolt glue. Its constants and codec are not in `src/`.
- The stream filters. In `src/` they are a stub, a map wrapper and a test.
- The router. It is present only as tests.

**Liveness.** One liveness property is checked, for the message pool's own goroutines: `SleeperWakes` under `FairSpec`. The rest is not checked, because it depends on the connection implementation and timers outside `src/`, so a fairness assumption about them would not come from this code. That includes:
- whether a dial eventually succeeds;
- whether the peer ever closes.

"Every connection is closed after `Destroy`" fails outright, because of the orphan connection of finding 2.
