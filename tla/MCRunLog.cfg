SPECIFICATION FairSpec
CONSTANTS
    r1 = r1
    v1 = v1
    v2 = v2
    t1 = t1
    t2 = t2
    Nothing = Nothing
    Ids <- OneRun
    Viewers <- TwoViewers
    Txs <- TwoTxs
    Asks <- Writes
    MaxAsks = 1
INVARIANTS
    DeletedStaysDeleted
    
PROPERTIES RechecksEnd
