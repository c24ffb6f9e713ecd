CONSTANTS
    Vtx <- MCVtx
    Tx <- MCTx
    Parents <- MCParents
    Height <- MCHeight
    Txs <- MCTxs
    StopVtx = "s"
    InitStatus <- MCInitStatus
    NetFrontiers <- MCNetFrontiers
    Beacons <- MCBeacons
    StartupQuorum = 1
    MaxOutstanding = 2
    AncestorsMax = 2
    StripeDistance = 2
    StripeWidth = 1
    CacheSize = 1
    Byzantine = FALSE
    Garbage = Garbage
    MaxBatchLen = 3
    MaxRequestID = 6
    MaxCrashes = 1
SPECIFICATION FairSpec
PROPERTIES
    Termination
CHECK_DEADLOCK FALSE
