------------------------------- MODULE Storage -------------------------------
(***************************************************************************)
(* The LMDB store of the indexer (src/storage/storage.service.ts): one     *)
(* record with a component per key prefix, and the effect each write       *)
(* operation has once its batch is committed.  A batch is one LMDB         *)
(* transaction, so an operator maps the committed store to the committed   *)
(* store.  The store holds, for a transaction, the block it was last saved *)
(* from, which gives the record's height and hash, and the record's time.  *)
(***************************************************************************)
EXTENDS Ledger, FiniteSetsExt

CONSTANT NoState  \* "undefined": no operation state under the provider's key

OutputStatus == {"absent", "unspent", "spent"}

EmptyStore ==
    [ tx          |-> [t \in Txids |-> NoBlock],
      time        |-> [t \in Txids |-> 0],
      output      |-> [o \in Outpoints |-> "absent"],
      unspent     |-> {},
      heightIndex |-> {},
      hashIndex   |-> {},
      timeIndex   |-> {},
      blockState  |-> [h \in Heights |-> NoBlock],
      opState     |-> NoState ]

Stores(OpStates) ==
    [ tx          : [Txids -> Blocks \cup {NoBlock}],
      time        : [Txids -> Nat],
      output      : [Outpoints -> OutputStatus],
      unspent     : SUBSET Outpoints,
      heightIndex : SUBSET (Heights \X Txids),
      hashIndex   : SUBSET (Blocks \X Txids),
      timeIndex   : SUBSET (Nat \X Heights),
      blockState  : [Heights -> Blocks \cup {NoBlock}],
      opState     : OpStates \cup {NoState} ]

-----------------------------------------------------------------------------
(* Writes *)

\* saveTransaction for each transaction of txs, of block b, as of times[t].
SaveTransactions(d, b, txs, times) ==
    LET saved == Eligible(txs)
        new   == OutpointsOf(saved)
    IN  [d EXCEPT
          !.tx          = [t \in Txids |-> IF t \in saved THEN b ELSE @[t]],
          !.time        = [t \in Txids |-> IF t \in saved THEN times[t] ELSE @[t]],
          !.output      = [o \in Outpoints |-> IF o \in new THEN "unspent" ELSE @[o]],
          !.unspent     = @ \cup new,
          !.heightIndex = @ \cup ({Height[b]} \X saved),
          !.hashIndex   = @ \cup ({b} \X saved),
          !.timeIndex   = @ \cup {<<times[t], Height[b]>> : t \in saved}]

\* Fault: outputs saved in the same batch are not found.
MarkCommittedOutputsSpent(committed, d, pending, outpoints) ==
    LET spent == {o \in Outpoints \cap outpoints : committed.output[o] = "unspent"}
    IN  [d EXCEPT
          !.output  = [o \in Outpoints |-> IF o \in spent THEN "spent" ELSE @[o]],
          !.unspent = @ \ spent]

\* markOutputsSpent on a batch: committed is the store the batch reads, d the
\* store with the batch applied so far, pending the outputs saved in the batch.
MarkOutputsSpent(committed, d, pending, outpoints) ==
    LET spent == {o \in Outpoints \cap outpoints :
                     o \in pending \/ committed.output[o] = "unspent"}
    IN  [d EXCEPT
          !.output  = [o \in Outpoints |-> IF o \in spent THEN "spent" ELSE @[o]],
          !.unspent = @ \ spent]

\* Fault: the inputs of transactions that are not eligible are left out.
IndexTransactionsEligibleInputs(d, b, txs, times) ==
    MarkOutputsSpent(d, SaveTransactions(d, b, txs, times),
                     OutpointsOf(Eligible(txs)), SpentBy(Eligible(txs)))

\* The writes of one batch of a sync: index every transaction, then mark every
\* input's outpoint spent, also those of transactions that are not eligible.
IndexTransactions(d, b, txs, times) ==
    MarkOutputsSpent(d, SaveTransactions(d, b, txs, times),
                     OutpointsOf(Eligible(txs)), SpentBy(txs))

\* The time of b for each of its transactions: what Bitcoin Core's block says.
BlockTime(b) == [t \in Txids |-> Time[b]]

\* setState: the operation state and the block state, in the caller's batch.
SetState(d, state, b) ==
    [d EXCEPT !.opState = state, !.blockState[Height[b]] = b]

\* Fault: the unspent index keeps the entries of the deleted transactions.
DeleteTransactionsKeepUnspent(d, b) ==
    LET txids == {t \in Txids : <<b, t>> \in d.hashIndex /\ d.tx[t] # NoBlock}
    IN  [d EXCEPT
          !.tx          = [t \in Txids |-> IF t \in txids THEN NoBlock ELSE @[t]],
          !.time        = [t \in Txids |-> IF t \in txids THEN 0 ELSE @[t]],
          !.output      = [o \in Outpoints |-> IF o[1] \in txids THEN "absent" ELSE @[o]],
          !.heightIndex = @ \ {<<Height[d.tx[t]], t>> : t \in txids},
          !.hashIndex   = @ \ ({b} \X txids),
          !.timeIndex   = @ \ {<<d.time[t], Height[d.tx[t]]>> : t \in txids}]

\* Fault: the time index keeps the deleted block's entry.
DeleteTransactionsKeepTime(d, b) ==
    LET txids == {t \in Txids : <<b, t>> \in d.hashIndex /\ d.tx[t] # NoBlock}
    IN  [d EXCEPT
          !.tx          = [t \in Txids |-> IF t \in txids THEN NoBlock ELSE @[t]],
          !.time        = [t \in Txids |-> IF t \in txids THEN 0 ELSE @[t]],
          !.output      = [o \in Outpoints |-> IF o[1] \in txids THEN "absent" ELSE @[o]],
          !.unspent     = {o \in @ : o[1] \notin txids},
          !.heightIndex = @ \ {<<Height[d.tx[t]], t>> : t \in txids},
          !.hashIndex   = @ \ ({b} \X txids)]

\* The height and time index keys are rebuilt from the transaction's record: the
\* block it was last saved from, not the one being deleted.
DeleteTransactionsByBlockHash(d, b) ==
    LET txids == {t \in Txids : <<b, t>> \in d.hashIndex /\ d.tx[t] # NoBlock}
    IN  [d EXCEPT
          !.tx          = [t \in Txids |-> IF t \in txids THEN NoBlock ELSE @[t]],
          !.time        = [t \in Txids |-> IF t \in txids THEN 0 ELSE @[t]],
          !.output      = [o \in Outpoints |-> IF o[1] \in txids THEN "absent" ELSE @[o]],
          !.unspent     = {o \in @ : o[1] \notin txids},
          !.heightIndex = @ \ {<<Height[d.tx[t]], t>> : t \in txids},
          !.hashIndex   = @ \ ({b} \X txids),
          !.timeIndex   = @ \ {<<d.time[t], Height[d.tx[t]]>> : t \in txids}]

\* Fault: the block state goes, the block's transactions stay.
RemoveStateOnly(d, b) == [d EXCEPT !.blockState[Height[b]] = NoBlock]

\* BlockStateService.removeState: one batch of its own.
RemoveState(d, b) ==
    DeleteTransactionsByBlockHash([d EXCEPT !.blockState[Height[b]] = NoBlock], b)

-----------------------------------------------------------------------------
(* Reads *)

IndexedHeights(d) == {h \in Heights : d.blockState[h] # NoBlock}

\* Fault: a forward scan.
GetFirstBlockState(d) ==
    IF IndexedHeights(d) = {} THEN NoBlock ELSE d.blockState[Min(IndexedHeights(d))]

\* The block state with the greatest height: a reverse range scan, limit 1.
GetCurrentBlockState(d) ==
    IF IndexedHeights(d) = {} THEN NoBlock ELSE d.blockState[Max(IndexedHeights(d))]

\* filterSpent reads the vouts off the unspent index.
GetOutputsForTxid(d, t, filterSpent) ==
    {o \in OutpointsOf({t}) :
        d.output[o] # "absent" /\ (filterSpent => o \in d.unspent)}

\* A transaction without outputs to show is left out.
FetchTransactions(d, txids, filterSpent) ==
    {[id |-> t, outputs |-> GetOutputsForTxid(d, t, filterSpent)] :
        t \in {u \in txids : /\ d.tx[u] # NoBlock
                             /\ GetOutputsForTxid(d, u, filterSpent) # {}}}

GetTransactionsByBlockHeight(d, h, filterSpent) ==
    FetchTransactions(d, {t \in Txids : <<h, t>> \in d.heightIndex}, filterSpent)

-----------------------------------------------------------------------------
\* The unspent index and the isSpent byte of the outputs agree, and an output
\* is there when its transaction is.
UnspentAgrees(d) ==
    /\ d.unspent = {o \in Outpoints : d.output[o] = "unspent"}
    /\ \A o \in Outpoints : d.output[o] # "absent" <=> d.tx[o[1]] # NoBlock

\* The block states are the heights from the base to the current one with none
\* missing, the base block at the bottom, each a block of its height.
Contiguous(d) ==
    LET top == GetCurrentBlockState(d)
    IN  /\ top \in Blocks
        /\ d.blockState[BaseHeight] = BaseBlock
        /\ IndexedHeights(d) = BaseHeight..Height[top]
        /\ \A h \in IndexedHeights(d) : Height[d.blockState[h]] = h

\* Heights may be missing, the base block's is not; each block is one of its height.
Stacked(d) ==
    /\ d.blockState[BaseHeight] = BaseBlock
    /\ \A h \in IndexedHeights(d) : Height[d.blockState[h]] = h

\* The block states are one branch of the tree.
OnOneBranch(d) ==
    \A h \in IndexedHeights(d) : d.blockState[h] \in Lineage[GetCurrentBlockState(d)]

=============================================================================
