SPECIFICATION Spec
CONSTANTS
    g = g
    a1 = a1
    a2 = a2
    a3 = a3
    b2 = b2
    b3 = b3
    q1 = q1
    q2 = q2
    q3 = q3
    NoBlock = NoBlock
    NoState = NoState
    Blocks <- MCBlocks
    BaseBlock <- g
    Height <- MCHeight
    Lineage <- MCLineage
    Time <- MCTime
    Txids <- MCTxids
    BlockTxs <- MCBlockTxs
    Outputs <- MCOutputs
    Spends <- MCSpends
    Urls <- MCUrls
    MAX_BLOCK_RANGE = 3
    MaxUInt32 = 25
    TTL = 2
    MaxCached = 2
INVARIANTS
    HeightAnswersExact
