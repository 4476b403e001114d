\* Two request goroutines asking for a pool of the same cluster's hosts;
\* no cluster or host changes, two pools may be created.
CONSTANTS
    c1 = c1  c2 = c2  a1 = a1  a2 = a2  a3 = a3  w1 = w1  w2 = w2
    Clusters <- MCClusters
    StaticClusters <- MCStatic
    InitHosts <- MCInitHosts
    HostLists <- MCHostListsSmall
    Addrs <- MCAddrs
    Workers <- MCWorkers
    MaxArrays = 0
    MaxObjs = 0
    MaxPools = 2
SPECIFICATION Spec
INVARIANT PoolCreatedOnce
CHECK_DEADLOCK FALSE
