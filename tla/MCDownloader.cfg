SPECIFICATION FairSpec
CONSTANTS
    Peer <- MCPeer
    Conn = {"m1", "m2", "p1"}
    NoConn = "none"
    peerID <- MCpeerID
    Master = "m"
    Heavier = {"m", "p"}
    Late = {"m2", "p1"}
    MaxConn = 2
    Top <- MCTop
    Same <- MCSame
    LocalChains <- MCLocalChains
    MaxHeaderFetch = 2
    MaxBlockFetch = 2
    MaxForkAncestry = 1
    maxBlocksWaiting = 2
INVARIANT TasksAreHeld
INVARIANT WritesInOrder
INVARIANT DoneMeansWritten
PROPERTY SessionEnds
CHECK_DEADLOCK FALSE
