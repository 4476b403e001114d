\* Two goroutines removing hosts and picking them concurrently; one host array
\* after start and no cluster replacement.
CONSTANTS
    c1 = c1  c2 = c2  a1 = a1  a2 = a2  a3 = a3  w1 = w1  w2 = w2
    Clusters <- MCClusters
    StaticClusters <- MCStatic
    InitHosts <- MCInitHosts
    HostLists <- MCHostLists
    Addrs <- MCAddrs
    Workers <- MCWorkers
    MaxArrays = 1
    MaxObjs = 0
    MaxPools = 1
SPECIFICATION Spec
INVARIANT ChosenWasListed
CHECK_DEADLOCK FALSE
