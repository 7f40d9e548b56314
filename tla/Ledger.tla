------------------------------- MODULE Ledger -------------------------------
(***************************************************************************)
(* The Bitcoin block tree as the indexer sees it through a node: external  *)
(* to the repository, modelled from what the data providers ask of it.     *)
(* A block stands for its hash, a transaction for its txid, an output for  *)
(* the pair <<txid, vout>>.                                                *)
(***************************************************************************)
EXTENDS Integers, Sequences, FiniteSets, Functions

CONSTANTS
    Blocks,     \* every block of the tree, on whichever branch
    BaseBlock,  \* the block at TAPROOT_ACTIVATION_HEIGHT - 1, or the genesis block
    NoBlock,    \* "null": no such block
    Height,     \* Height[b]: the height of b
    Lineage,    \* Lineage[b]: b and its ancestors, down to BaseBlock
    Time,       \* Time[b]: the timestamp in b's header; need not grow with height
    Txids,
    BlockTxs,   \* BlockTxs[b]: the transactions of b in order, coinbase left out
    Outputs,    \* Outputs[t]: the vouts index() saves for t, {} if t is not eligible
    Spends      \* Spends[t]: the outpoints the inputs of t consume

BaseHeight == Height[BaseBlock]
Heights == {Height[b] : b \in Blocks}

TxsOf(b) == Range(BlockTxs[b])

\* The outputs that index() may save, over all transactions.
Outpoints == {o \in Txids \X UNION {Outputs[t] : t \in Txids} : o[2] \in Outputs[o[1]]}

\* index() saves a transaction only if it has outputs to serve.
Eligible(txs) == {t \in txs : Outputs[t] # {}}

OutpointsOf(txs) == {o \in Outpoints : o[1] \in txs}

SpentBy(txs) == UNION {Spends[t] : t \in txs}

\* The block a node whose best block is tip has at height h.
BlockAt(tip, h) == CHOOSE b \in Lineage[tip] : Height[b] = h

-----------------------------------------------------------------------------
ASSUME LedgerTypes ==
    /\ BaseBlock \in Blocks
    /\ NoBlock \notin Blocks
    /\ Height \in [Blocks -> Nat]
    /\ Lineage \in [Blocks -> SUBSET Blocks]
    /\ Time \in [Blocks -> Nat]
    /\ BlockTxs \in [Blocks -> Seq(Txids)]
    /\ Outputs \in [Txids -> SUBSET Nat]
    /\ Spends \in [Txids -> SUBSET (Txids \X Nat)]

\* A lineage is a path from its block down to BaseBlock, one block per height,
\* and the lineage of a block on it is the part of it at or below that block.
ASSUME LineageIsChain ==
    \A b \in Blocks :
        /\ b \in Lineage[b]
        /\ BaseBlock \in Lineage[b]
        /\ \A h \in BaseHeight..Height[b] : \E c \in Lineage[b] : Height[c] = h
        /\ \A c \in Lineage[b] : Height[c] \in BaseHeight..Height[b]
        /\ \A c, d \in Lineage[b] : Height[c] = Height[d] => c = d
        /\ \A c \in Lineage[b] : Lineage[c] = {d \in Lineage[b] : Height[d] <= Height[c]}

\* Consensus: on one lineage a transaction is mined once, an outpoint is spent
\* once, and not before the transaction that creates it.
ASSUME LineageIsValid ==
    \A b \in Blocks : \A c, d \in Lineage[b] :
        \A t \in TxsOf(c), u \in TxsOf(d) :
            /\ t = u => c = d
            /\ Spends[t] \cap Spends[u] # {} => t = u
            /\ (\E o \in Spends[u] : o[1] = t) => Height[c] <= Height[d]

\* Consensus: a block holds a transaction once, after those whose outputs it spends.
ASSUME BlockIsOrdered ==
    \A b \in Blocks : \A i, j \in DOMAIN BlockTxs[b] :
        /\ BlockTxs[b][i] = BlockTxs[b][j] => i = j
        /\ (\E o \in Spends[BlockTxs[b][i]] : o[1] = BlockTxs[b][j]) => j < i

=============================================================================
