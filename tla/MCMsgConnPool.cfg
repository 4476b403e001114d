\* Auto-reconnect pool with two tries: every interleaving of the NewConn
\* thread, up to five connections, close events, writes and Destroy.
CONSTANTS
    AutoReconnect = TRUE
    ConnTryTimes = 2
    MaxConns = 5
SPECIFICATION FairSpec
INVARIANT TriesBounded
INVARIANT SingleChain
PROPERTY SleeperWakes
PROPERTY ChainRefined
\* An idle pool with nothing left to happen is a real final state.
CHECK_DEADLOCK FALSE
