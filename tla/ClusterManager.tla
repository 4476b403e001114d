--------------------------- MODULE ClusterManager ---------------------------
(***************************************************************************)
(* The cluster manager (src/pkg/upstream/cluster/clustermanager.go).       *)
(*                                                                         *)
(* primaryClusters maps a cluster name to a cluster object; the object    *)
(* holds its host slice, if it is a simpleInMemCluster: NewCluster, not in *)
(* src/, decides that by the cluster's type, and the manager refuses to    *)
(* update the hosts of any other kind of cluster.  A slice is modelled as Go has it: a backing      *)
(* array and a length.  UpdateClusterHosts builds a fresh array;          *)
(* RemoveClusterHosts shifts the elements of the live array in place with  *)
(* append(ccHosts[:i], ccHosts[i+1:]...) and then installs the shorter     *)
(* slice.  A load balancer's ChooseHost reads the slice header and later   *)
(* an element of it.  The per-protocol pool maps are concurrent maps used  *)
(* with Get and then Set.                                                  *)
(*                                                                         *)
(* Workers are the goroutines calling the manager: request goroutines     *)
(* asking for a pool and admin API calls.  simpleInMemCluster and the     *)
(* load balancer are not in src/: UpdateHosts keeps the slice it is given, *)
(* and ChooseHost picks any element of the slice it read.                  *)
(*                                                                         *)
(* Clusters change through the xDS callbacks of src/pkg/config/callback.go,*)
(* run one at a time by the xDS client goroutine.  The cluster adapter    *)
(* they call is not in src/: TriggerClusterAddOrUpdate is                  *)
(* AddOrUpdatePrimaryCluster, TriggerClusterAndHostsAddOrUpdate is that   *)
(* followed by UpdateClusterHosts(name, 0, hosts), TriggerClusterDel is    *)
(* RemovePrimaryCluster and TriggerClusterHostUpdate is                    *)
(* UpdateClusterHosts(name, 0, hosts); each manager call is a step of its *)
(* own, so workers interleave between them.                                *)
(***************************************************************************)
EXTENDS Naturals, Sequences

CONSTANTS
    Clusters,        \* cluster names
    StaticClusters,  \* the clusters of the static configuration
    InitHosts,       \* InitHosts[c]: the clusterMap hosts of a static cluster
    HostLists,       \* host lists the API may install with UpdateClusterHosts
    Addrs,           \* host addresses
    Workers,         \* goroutines calling the manager
    MaxArrays,       \* bound: backing arrays allocated after start
    MaxObjs,         \* bound: cluster objects created after start
    MaxPools         \* bound: pools created

Nil == 0   \* a nil slice or pointer, an absent map entry

\* The protocols with a pool map: http2ConnPool, http1ConnPool,
\* xProtocolConnPool and sofaRpcConnPool.
Kinds == {"http1", "http2", "xprotocol", "sofarpc"}

VARIABLES
    primary,   \* primary[c]: the primaryClusters entry, its object and host slice
    nObjs,     \* cluster objects created by loadCluster
    arrays,    \* arrays[i]: contents of backing array i
    arrObj,    \* arrObj[i]: the cluster object backing array i was built for
    nArrays,   \* backing arrays allocated
    pools,     \* pools[k][a]: the pool map of protocol k at address a
    created,   \* created[k][a]: pools created for (k, a)
    nPools,    \* pools created
    worker,    \* worker[w]: the call goroutine w is in, and its locals
    xds        \* the xDS client goroutine: idle, or host lists still to install

vars == <<primary, nObjs, arrays, arrObj, nArrays, pools, created, nPools, worker, xds>>

Idle == [op |-> "idle"]
Absent == [present |-> FALSE, viaApi |-> FALSE, inMem |-> FALSE, obj |-> Nil, arr |-> Nil, len |-> 0]

\* The elements a slice shows.
View(arr, len) == IF arr = Nil THEN << >> ELSE SubSeq(arrays[arr], 1, len)

Elems(s) == {s[i] : i \in DOMAIN s}

\* The backing arrays: those of start-up, named after their clusters, and
\* those allocated since, numbered; an array not yet allocated is empty.
ArrayIds == StaticClusters \cup 1..MaxArrays

-----------------------------------------------------------------------------
\* NewClusterManager: AddOrUpdatePrimaryCluster for each configured cluster,
\* then UpdateClusterHosts(name, 0, hosts) for each cluster of clusterMap,
\* which fails for a cluster that is not a simpleInMemCluster.  The host
\* arrays of start-up are named after their clusters.
Init ==
    /\ \E inMem \in [StaticClusters -> BOOLEAN] :
          primary = [c \in Clusters |->
                       IF c \in StaticClusters
                       THEN [present |-> TRUE, viaApi |-> TRUE, inMem |-> inMem[c], obj |-> c,
                             arr |-> IF inMem[c] THEN c ELSE Nil,
                             len |-> IF inMem[c] THEN Len(InitHosts[c]) ELSE 0]
                       ELSE Absent]
    /\ nObjs = 0
    /\ arrays = [i \in ArrayIds |-> IF i \in StaticClusters THEN InitHosts[i] ELSE << >>]
    /\ arrObj = [i \in ArrayIds |-> IF i \in StaticClusters THEN i ELSE Nil]
    /\ nArrays = 0
    /\ pools = [k \in Kinds |-> [a \in Addrs |-> Nil]]
    /\ created = [k \in Kinds |-> [a \in Addrs |-> 0]]
    /\ nPools = 0
    /\ worker = [w \in Workers |-> Idle]
    /\ xds = Idle

\* loadCluster(config, addedViaApi): NewCluster builds an object with no
\* hosts, of one kind or the other, and primaryClusters.Set installs it.
LoadCluster(obj, addedViaApi, inMem) ==
    [present |-> TRUE, viaApi |-> addedViaApi, inMem |-> inMem, obj |-> obj,
     arr |-> Nil, len |-> 0]

\* AddOrUpdatePrimaryCluster: refused for an existing cluster not added
\* via the API; otherwise loadCluster(cluster, true) - true also for the
\* clusters of the static configuration.
AddOrUpdatePrimaryCluster(c) ==
    /\ primary[c].present => primary[c].viaApi
    /\ nObjs < MaxObjs
    /\ nObjs' = nObjs + 1
    /\ \E inMem \in BOOLEAN :
          primary' = [primary EXCEPT ![c] = LoadCluster(nObjs + 1, TRUE, inMem)]
    /\ UNCHANGED <<arrays, arrObj, nArrays, pools, created, nPools, worker>>

\* RemovePrimaryCluster: refused for a cluster not added via the API.
RemovePrimaryCluster(c) ==
    /\ primary[c].present
    /\ primary[c].viaApi
    /\ primary' = [primary EXCEPT ![c] = Absent]
    /\ UNCHANGED <<nObjs, arrays, arrObj, nArrays, pools, created, nPools, worker>>

\* UpdateClusterHosts: NewHost for each config into a new slice, then
\* UpdateHosts; an unknown cluster, or one that is not a simpleInMemCluster,
\* is an error that changes nothing (UpdateHostsRefused).
UpdateClusterHosts(c, hs) ==
    /\ primary[c].present
    /\ primary[c].inMem
    /\ nArrays < MaxArrays
    /\ nArrays' = nArrays + 1
    /\ arrays' = [arrays EXCEPT ![nArrays + 1] = hs]
    /\ arrObj' = [arrObj EXCEPT ![nArrays + 1] = primary[c].obj]
    /\ primary' = [primary EXCEPT ![c].arr = nArrays + 1, ![c].len = Len(hs)]
    /\ UNCHANGED <<nObjs, pools, created, nPools, worker>>

\* The priority groups of a ClusterLoadAssignment: one or two host lists.
Groups == {<<h>> : h \in HostLists} \cup {<<h, g>> : h, g \in HostLists}

(* OnUpdateClusters, for a cluster of the push: an EDS cluster is only    *)
(* added or updated; any other cluster then gets its configured hosts,    *)
(* installed by the xDS client's next step.                                *)
OnUpdateClusters(c, eds, hs) ==
    /\ xds = Idle
    /\ AddOrUpdatePrimaryCluster(c)
    /\ xds' = IF eds THEN Idle ELSE [op |-> "hosts", c |-> c, rest |-> <<hs>>]

(* OnDeleteClusters: an EDS cluster is removed; the deletion of any other *)
(* cluster is ignored and changes nothing.                                 *)
OnDeleteClusters(c) ==
    /\ xds = Idle
    /\ RemovePrimaryCluster(c)
    /\ UNCHANGED xds

(* OnUpdateEndpoints, for a ClusterLoadAssignment of cluster c: each      *)
(* priority group's hosts go to TriggerClusterHostUpdate in turn.          *)
OnUpdateEndpoints(c, gs) ==
    /\ xds = Idle
    /\ xds' = [op |-> "hosts", c |-> c, rest |-> gs]
    /\ UNCHANGED <<primary, nObjs, arrays, arrObj, nArrays, pools, created, nPools, worker>>

(* The xDS client's call UpdateClusterHosts(c, 0, hosts) for the next host *)
(* list; on its "not found" or "can't be update" error the callback       *)
(* returns and the remaining groups are dropped.                           *)
UpdateHostsRefused(c) == ~primary[c].present \/ ~primary[c].inMem

XdsUpdateHosts ==
    /\ xds.op = "hosts"
    /\ \/ /\ UpdateClusterHosts(xds.c, Head(xds.rest))
          /\ xds' = IF Len(xds.rest) = 1 THEN Idle ELSE [xds EXCEPT !.rest = Tail(@)]
       \/ /\ UpdateHostsRefused(xds.c)
          /\ xds' = Idle
          /\ UNCHANGED <<primary, nObjs, arrays, arrObj, nArrays, pools, created, nPools, worker>>

\* RemoveClusterHosts, up to UpdateHosts: take the cluster's slice, find
\* the first host with the address and shift the later elements down over
\* it in the shared backing array.  A missing cluster or host, and the
\* "can't be update" error, change nothing.
ShiftOut(s, i, len) == [j \in DOMAIN s |-> IF j >= i /\ j < len THEN s[j + 1] ELSE s[j]]

RemoveHost(w, c, h) ==
    /\ worker[w] = Idle
    /\ primary[c].present
    /\ primary[c].inMem
    /\ LET p == primary[c]
           v == View(p.arr, p.len)
       IN /\ \E i \in DOMAIN v : v[i] = h
          /\ LET i == CHOOSE j \in DOMAIN v : v[j] = h /\ \A k \in 1..j - 1 : v[k] # h
             IN /\ arrays' = [arrays EXCEPT ![p.arr] = ShiftOut(@, i, p.len)]
                /\ worker' = [worker EXCEPT ![w] = [op |-> "update", c |-> c, obj |-> p.obj,
                                                    arr |-> p.arr, len |-> p.len - 1]]
    /\ UNCHANGED <<primary, nObjs, arrObj, nArrays, pools, created, nPools, xds>>

\* concretedCluster.UpdateHosts(ccHosts): the cluster object read at the
\* start gets the shorter slice, even if the map holds another object now.
UpdateHosts(w) ==
    /\ worker[w].op = "update"
    /\ LET u == worker[w] IN
          primary' = IF primary[u.c].obj = u.obj
                     THEN [primary EXCEPT ![u.c].arr = u.arr, ![u.c].len = u.len]
                     ELSE primary
    /\ worker' = [worker EXCEPT ![w] = Idle]
    /\ UNCHANGED <<nObjs, arrays, arrObj, nArrays, pools, created, nPools, xds>>

\* The start of every pool getter and of TcpConnForCluster: take the
\* cluster snapshot and ask its load balancer for a host; ChooseHost reads
\* the slice header.  seen records the hosts the slice showed at that
\* moment.  A missing cluster or an empty host list returns nil.
ChooseHost(w, c, k) ==
    /\ worker[w] = Idle
    /\ primary[c].present
    /\ primary[c].len > 0
    /\ worker' = [worker EXCEPT ![w] = [op |-> "pick", k |-> k, arr |-> primary[c].arr,
                                        len |-> primary[c].len,
                                        seen |-> Elems(View(primary[c].arr, primary[c].len))]]
    /\ UNCHANGED <<primary, nObjs, arrays, arrObj, nArrays, pools, created, nPools, xds>>

\* HttpConnPoolForCluster: the host's pool in the http2 or the http1 map.
HttpConnPoolForCluster(w, c, k) == k \in {"http1", "http2"} /\ ChooseHost(w, c, k)

\* XprotocolConnPoolForCluster: the host's pool in xProtocolConnPool.
XprotocolConnPoolForCluster(w, c) == ChooseHost(w, c, "xprotocol")

\* TcpConnForCluster: a new connection to the host, no pool.
TcpConnForCluster(w, c) == ChooseHost(w, c, "tcp")

\* SofaRpcConnPoolForCluster: the host's pool in sofaRpcConnPool.
SofaRpcConnPoolForCluster(w, c) == ChooseHost(w, c, "sofarpc")

\* ChooseHost returns an element of the slice it read.  TcpConnForCluster
\* returns host.CreateConnection(nil); the pool getters look the host's
\* address up in their map.
PickHost(w) ==
    /\ worker[w].op = "pick"
    /\ \E i \in 1..worker[w].len :
          worker' = [worker EXCEPT ![w] =
                       IF @.k = "tcp" THEN Idle
                       ELSE [op |-> "get", k |-> @.k, addr |-> arrays[@.arr][i], seen |-> @.seen]]
    /\ UNCHANGED <<primary, nObjs, arrays, arrObj, nArrays, pools, created, nPools, xds>>

\* connPool, ok := cm.<kind>ConnPool.Get(addr): a hit returns the pool.
GetPool(w) ==
    /\ worker[w].op = "get"
    /\ LET u == worker[w] IN
          worker' = [worker EXCEPT ![w] = IF pools[u.k][u.addr] # Nil THEN Idle
                                         ELSE [u EXCEPT !.op = "set"]]
    /\ UNCHANGED <<primary, nObjs, arrays, arrObj, nArrays, pools, created, nPools, xds>>

\* On a miss: NewConnPool(host) and cm.<kind>ConnPool.Set(addr, connPool),
\* overwriting whatever another goroutine stored meanwhile.
SetPool(w) ==
    /\ worker[w].op = "set"
    /\ nPools < MaxPools
    /\ LET u == worker[w] IN
          /\ pools' = [pools EXCEPT ![u.k][u.addr] = nPools + 1]
          /\ created' = [created EXCEPT ![u.k][u.addr] = @ + 1]
    /\ nPools' = nPools + 1
    /\ worker' = [worker EXCEPT ![w] = Idle]
    /\ UNCHANGED <<primary, nObjs, arrays, arrObj, nArrays, xds>>

Next ==
    \/ \E c \in Clusters :
          \/ \E eds \in BOOLEAN, hs \in HostLists : OnUpdateClusters(c, eds, hs)
          \/ OnDeleteClusters(c)
          \/ \E gs \in Groups : OnUpdateEndpoints(c, gs)
    \/ XdsUpdateHosts
    \/ \E w \in Workers :
          \/ \E c \in Clusters, h \in Addrs : RemoveHost(w, c, h)
          \/ \E c \in Clusters :
                \/ \E k \in Kinds : HttpConnPoolForCluster(w, c, k)
                \/ XprotocolConnPoolForCluster(w, c)
                \/ TcpConnForCluster(w, c)
                \/ SofaRpcConnPoolForCluster(w, c)
          \/ UpdateHosts(w) \/ PickHost(w) \/ GetPool(w) \/ SetPool(w)

Spec == Init /\ [][Next]_vars

-----------------------------------------------------------------------------
(* A load balancer hands out a host that its slice listed when ChooseHost *)
(* read the slice header: the hosts a request observes are those its      *)
(* snapshot captured (spec 5, ordering (c); spec 4.6: updates never       *)
(* mutate the prior slice).                                                *)
ChosenWasListed ==
    \A w \in Workers : worker[w].op \in {"get", "set"} => worker[w].addr \in worker[w].seen

(* Pool creation is at most once per protocol and address (spec 4.6: a   *)
(* concurrent creator that loses the compare-and-set discards its pool):  *)
(* every pool a getter creates is the one the map keeps.                   *)
PoolCreatedOnce == \A k \in Kinds, a \in Addrs : created[k][a] <= 1

=============================================================================
