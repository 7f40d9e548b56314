SPECIFICATION Spec
CONSTANTS
    g = g
    a1 = a1
    a2 = a2
    a3 = a3
    b2 = b2
    b3 = b3
    b4 = b4
    c3 = c3
    c4 = c4
    c5 = c5
    t0 = t0
    t1 = t1
    t2 = t2
    t3 = t3
    t4 = t4
    t5 = t5
    t6 = t6
    NoBlock = NoBlock
    NoState = NoState
    Syncs = {s1, s2}
    Blocks <- MCBlocks
    BaseBlock <- g
    Height <- MCHeight
    Lineage <- MCLineage
    Time <- MCTime
    Txids <- MCTxids
    BlockTxs <- MCBlockTxs
    Outputs <- MCOutputs
    Spends <- MCSpends
INVARIANTS
    EachBlockServed
