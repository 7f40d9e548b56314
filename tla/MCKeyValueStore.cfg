SPECIFICATION Spec
CONSTANTS
    g = g
    a1 = a1
    a2 = a2
    a3 = a3
    b2 = b2
    b3 = b3
    d1 = d1
    d2 = d2
    p1 = p1
    p2 = p2
    p3 = p3
    p4 = p4
    p5 = p5
    NoBlock = NoBlock
    NoState = NoState
    Blocks <- MCBlocks
    BaseBlock <- g
    Height <- MCHeight
    Lineage <- MCLineage
    Time <- MCTime
    Txids <- MCTxids
    BlockTxs <- MCBlockTxs
    Outputs <- MCOutputs
    Spends <- MCSpends
    Radix = 3
    DigestSize = 2
    Hash <- MCHash
    Txid <- MCTxid
    MaxUInt32 = 5
INVARIANTS
    TypeOK
    HeightScansExact
    HashScansExact
    CurrentStateRead
    FirstBlockAfter
PROPERTIES
    PairsImplementBlockStore
