------------------------------ MODULE BlockStore ------------------------------
(***************************************************************************)
(* The committed store over time, as the endpoints find it: it starts with *)
(* the state of the base block, takes in a child of the current block with *)
(* all its transactions, or rolls the current block back.  This is what a  *)
(* provider that commits whole blocks does to the store while the node     *)
(* does not stray, and what the key-value pairs of the store implement.    *)
(***************************************************************************)
EXTENDS Storage

VARIABLE db  \* the committed store

StoreInit == db = EmptyStore

\* The bootstrap's write: the base block's state, its transactions left out.
SaveBaseState(state) ==
    /\ db.opState = NoState
    /\ db' = SetState(db, state, BaseBlock)

\* One batch: every transaction of b, the outpoints it spends and both states.
IndexBlock(b, state) ==
    LET top == GetCurrentBlockState(db)
    IN  /\ top \in Lineage[b]
        /\ Height[b] = Height[top] + 1
        /\ db' = SetState(IndexTransactions(db, b, TxsOf(b), BlockTime(b)), state, b)

\* One step of the reorg trace: the base block is never rolled back.
RollBack ==
    LET top == GetCurrentBlockState(db)
    IN  /\ top \in Blocks \ {BaseBlock}
        /\ db' = RemoveState(db, top)

StoreNext(state) ==
    \/ /\ state # NoState
       /\ SaveBaseState(state) \/ \E b \in Blocks : IndexBlock(b, state)
    \/ RollBack

\* Whatever the operation state is set to.
StoreSpec == StoreInit /\ [][StoreNext(db'.opState)]_db

-----------------------------------------------------------------------------
\* The indexed blocks: the base block's own transactions are never indexed.
IndexedBlocks == {db.blockState[h] : h \in IndexedHeights(db)} \ {BaseBlock}

\* What of a transaction's block the store says: the one indexed block that
\* mined it, with its time, if it is eligible, and none otherwise.
TransactionExact(t) ==
    \/ /\ db.tx[t] \in IndexedBlocks /\ t \in Eligible(TxsOf(db.tx[t]))
       /\ db.time[t] = Time[db.tx[t]]
    \/ db.tx[t] = NoBlock /\ db.time[t] = 0 /\ \A b \in IndexedBlocks : t \notin Eligible(TxsOf(b))

\* The transaction records and the three indexes the endpoints read are those
\* of the indexed blocks and nothing else: no transaction of a rolled back
\* block remains in one of them, none that was mined again is lost.
StoreExact ==
    LET saved(b) == Eligible(TxsOf(b))
    IN  /\ \A t \in Txids : TransactionExact(t)
        /\ db.heightIndex = UNION {{Height[b]} \X saved(b) : b \in IndexedBlocks}
        /\ db.hashIndex = UNION {{b} \X saved(b) : b \in IndexedBlocks}
        /\ db.timeIndex = {<<Time[b], Height[b]>> :
                              b \in {c \in IndexedBlocks : saved(c) # {}}}

\* No output that an indexed block spends is in the unspent index.
StoreSpent == \A b \in IndexedBlocks : SpentBy(TxsOf(b)) \cap db.unspent = {}

=============================================================================
