CONSTANTS
    Vtx <- MCVtx
    Tx <- MCTx
    Parents <- MCParents
    Height <- MCHeight
    Txs <- MCTxs
    StopVtx = "s"
    InitStatus <- MCRejectedStatus
    NetFrontiers <- MCNetFrontiers
    Beacons <- MCBeacons
    StartupQuorum = 1
    MaxOutstanding = 2
    AncestorsMax = 2
    StripeDistance = 2
    StripeWidth = 1
    CacheSize = 1
    Byzantine = TRUE
    Garbage = Garbage
    MaxBatchLen = 3
    MaxRequestID = 4
    MaxCrashes = 1
SPECIFICATION Spec
INVARIANTS
    RejectedStaysOut
CHECK_DEADLOCK FALSE
