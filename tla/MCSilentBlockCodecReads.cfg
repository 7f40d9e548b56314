SPECIFICATION Spec
CONSTANTS
    Radix = 8
    TxidSize = 4
    OutputSize = 6
    ScanTweakSize = 5
    Filler = 3
    OutputCounts <- MCOutputCounts
    MaxTransactions = 5
CHECK_DEADLOCK FALSE
INVARIANTS
    BlocksRead
