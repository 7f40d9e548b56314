SPECIFICATION FairSpec
CONSTANTS
    g = g
    a1 = a1
    a2 = a2
    a3 = a3
    b2 = b2
    b3 = b3
    b4 = b4
    d1 = d1
    d2 = d2
    d3 = d3
    u1 = u1
    u2 = u2
    u3 = u3
    u4 = u4
    u5 = u5
    u6 = u6
    u7 = u7
    u8 = u8
    u9 = u9
    NoBlock = NoBlock
    NoState = NoState
    Syncs = {s1, s2}
    Blocks <- MCBlocks
    BaseBlock <- g
    Height <- MCHeight
    Lineage <- MCLineage
    Time <- MCTime
    Txids <- MCTxids
    BlockTxs <- MCBlockTxs
    Outputs <- MCOutputs
    Spends <- MCSpends
    BatchSize = 2
INVARIANTS
    TypeOK
    UnspentIndexAgrees
    IndexSound
    Linked
    SpentBySaved
PROPERTIES
    SyncEnds
