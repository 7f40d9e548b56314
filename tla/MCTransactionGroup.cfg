SPECIFICATION FairSpec
CONSTANTS
    t1 = t1
    t2 = t2
    s1 = s1
    s2 = s2
    s3 = s3
    Txs <- MCTxs
    Syncs <- MCSyncs
    RetryCount = 2
    NoSync = NoSync
INVARIANTS
    CallsInBounds
    WholeGroups
    TimesOfBlock
    TimeIndexOfRecords
PROPERTIES
    SyncEnds
    Recovers
