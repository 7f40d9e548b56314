-------------------------- MODULE BlockStore_proofs --------------------------
(***************************************************************************)
(* What the operations of the store keep, for any store: types, the        *)
(* agreement of the unspent index with the output records, the shape of    *)
(* the block states.  Then the store over time: it holds the transactions  *)
(* of the indexed blocks and no others, and no output they spend as        *)
(* unspent, whatever sequence of commits and rollbacks it has been through.*)
(***************************************************************************)
EXTENDS BlockStore, WellFoundedInduction, TLAPS

-----------------------------------------------------------------------------
(* Least and greatest elements *)

\* A set of natural numbers that is not empty has a least element.
LEMMA LeastElement ==
    ASSUME NEW S \in SUBSET Nat, S # {}
    PROVE  \E n \in S : \A m \in S : n <= m
  <1> DEFINE R == {ss \in Nat \X Nat : ss[1] < ss[2]}
  <1>1. IsWellFoundedOn(R, Nat)
    BY NatLessThanWellFounded DEF OpToRel
  <1>2. \A m, n \in Nat : <<m, n>> \notin R => n <= m
    OBVIOUS
  <1> HIDE DEF R
  <1>3. \E n \in S : \A m \in S : <<m, n>> \notin R
    BY <1>1, WFMin
  <1> QED
    BY <1>2, <1>3

\* A bounded one has a greatest: what a reverse range scan with limit 1 finds.
LEMMA MaxOfBounded ==
    ASSUME NEW S \in SUBSET Nat, S # {}, NEW n \in Nat, \A h \in S : h <= n
    PROVE  Max(S) \in S /\ \A h \in S : h <= Max(S)
  <1> DEFINE D == {k \in Nat : n - k \in S}
  <1>1. \A h \in S : n - h \in Nat /\ n - (n - h) = h
    OBVIOUS
  <1>2. D # {} /\ D \in SUBSET Nat
    BY <1>1
  <1>3. PICK k \in D : \A j \in D : k <= j
    BY <1>2, LeastElement
  <1>4. n - k \in S /\ \A h \in S : n - k >= h
    BY <1>1, <1>3
  <1>5. Max(S) \in S /\ \A h \in S : Max(S) >= h
    BY <1>4 DEF Max
  <1> QED
    BY <1>5

-----------------------------------------------------------------------------
(* The block tree *)

\* Heights are natural numbers, the base block has the least of them.
LEMMA HeightType ==
    /\ BaseHeight \in Nat
    /\ \A b \in Blocks : Height[b] \in Nat /\ Height[b] \in Heights /\ BaseHeight <= Height[b]
  BY LedgerTypes, LineageIsChain DEF BaseHeight, Heights

\* A node has a block at every height from the base to its best block's.
LEMMA BlockAtType ==
    ASSUME NEW b \in Blocks, NEW h \in BaseHeight..Height[b]
    PROVE  BlockAt(b, h) \in Blocks /\ BlockAt(b, h) \in Lineage[b] /\ Height[BlockAt(b, h)] = h
  BY LedgerTypes, LineageIsChain DEF BlockAt

\* The base block is the only one of its height: getBlockHash at the base height
\* has one answer on every branch.
LEMMA BaseIsOnly ==
    ASSUME NEW b \in Blocks, Height[b] = BaseHeight
    PROVE  b = BaseBlock
  BY LedgerTypes, LineageIsChain DEF BaseHeight

\* Of two blocks of one lineage the lower is an ancestor of the higher.
LEMMA LineageOrdered ==
    ASSUME NEW b \in Blocks, NEW c \in Lineage[b], NEW d \in Lineage[b], Height[c] <= Height[d]
    PROVE  c \in Lineage[d]
  BY LineageIsChain

\* The transactions of a block, and the time Bitcoin Core gives for each.
LEMMA BlockTimeType ==
    ASSUME NEW b \in Blocks
    PROVE  TxsOf(b) \in SUBSET Txids /\ \A t \in TxsOf(b) : BlockTime(b)[t] \in Nat
  BY LedgerTypes DEF TxsOf, Range, BlockTime

-----------------------------------------------------------------------------
(* The operations of the store *)

\* saveTransaction writes well-typed records.
LEMMA SaveTransactionsType ==
    ASSUME NEW OpStates, NEW d \in Stores(OpStates), NEW b \in Blocks, NEW txs \in SUBSET Txids,
           NEW times, \A t \in txs : times[t] \in Nat
    PROVE  SaveTransactions(d, b, txs, times) \in Stores(OpStates)
  <1> DEFINE saved == Eligible(txs)
             new   == OutpointsOf(saved)
  <1>1. saved \subseteq Txids /\ new \subseteq Outpoints /\ \A t \in saved : times[t] \in Nat
    BY DEF Eligible, OutpointsOf
  <1>2. Height[b] \in Heights
    BY LedgerTypes DEF Heights
  <1> HIDE DEF saved, new
  <1>3. [t \in Txids |-> IF t \in saved THEN b ELSE d.tx[t]] \in [Txids -> Blocks \cup {NoBlock}]
    BY DEF Stores
  <1>4. [o \in Outpoints |-> IF o \in new THEN "unspent" ELSE d.output[o]]
            \in [Outpoints -> OutputStatus]
    BY DEF Stores, OutputStatus
  <1>5. d.unspent \cup new \in SUBSET Outpoints
    BY <1>1 DEF Stores
  <1>6. d.heightIndex \cup ({Height[b]} \X saved) \in SUBSET (Heights \X Txids)
    BY <1>1, <1>2 DEF Stores
  <1>7. d.hashIndex \cup ({b} \X saved) \in SUBSET (Blocks \X Txids)
    BY <1>1 DEF Stores
  <1>8. d.timeIndex \cup {<<times[t], Height[b]>> : t \in saved} \in SUBSET (Nat \X Heights)
    BY <1>1, <1>2 DEF Stores
  <1>9. [t \in Txids |-> IF t \in saved THEN times[t] ELSE d.time[t]] \in [Txids -> Nat]
    BY <1>1 DEF Stores
  <1> QED
    BY <1>3, <1>4, <1>5, <1>6, <1>7, <1>8, <1>9 DEF SaveTransactions, Stores, saved, new

\* markOutputsSpent writes well-typed records, whatever outpoints it is given.
LEMMA MarkOutputsSpentType ==
    ASSUME NEW OpStates, NEW c, NEW d \in Stores(OpStates), NEW pending, NEW outpoints
    PROVE  MarkOutputsSpent(c, d, pending, outpoints) \in Stores(OpStates)
  BY DEF Stores, MarkOutputsSpent, OutputStatus

\* setState writes well-typed states.
LEMMA SetStateType ==
    ASSUME NEW OpStates, NEW d \in Stores(OpStates), NEW state \in OpStates, NEW b \in Blocks
    PROVE  SetState(d, state, b) \in Stores(OpStates)
  BY LedgerTypes DEF Stores, SetState, Heights

\* removeState leaves a well-typed store.
LEMMA RemoveStateType ==
    ASSUME NEW OpStates, NEW d \in Stores(OpStates), NEW b \in Blocks
    PROVE  RemoveState(d, b) \in Stores(OpStates)
  BY LedgerTypes DEF Stores, RemoveState, DeleteTransactionsByBlockHash, Heights, OutputStatus

\* What the reverse scan over the heights m..n finds.
LEMMA MaxOfInterval ==
    ASSUME NEW m \in Nat, NEW n \in Nat, m <= n
    PROVE  Max(m..n) = n
  BY DEF Max

\* The writes of a batch leave a well-typed store.
LEMMA IndexTransactionsType ==
    ASSUME NEW OpStates, NEW d \in Stores(OpStates), NEW b \in Blocks, NEW txs \in SUBSET Txids,
           NEW times, \A t \in txs : times[t] \in Nat
    PROVE  IndexTransactions(d, b, txs, times) \in Stores(OpStates)
  BY SaveTransactionsType, MarkOutputsSpentType DEF IndexTransactions

\* Indexing transactions writes neither state key.
LEMMA IndexTransactionsStates ==
    ASSUME NEW OpStates, NEW d \in Stores(OpStates), NEW b, NEW txs, NEW times
    PROVE  /\ IndexTransactions(d, b, txs, times).blockState = d.blockState
           /\ IndexTransactions(d, b, txs, times).opState = d.opState
  BY DEF IndexTransactions, MarkOutputsSpent, SaveTransactions, Stores

\* removeState deletes one block state and keeps the operation state.
LEMMA RemoveStateStates ==
    ASSUME NEW OpStates, NEW d \in Stores(OpStates), NEW b
    PROVE  /\ RemoveState(d, b).blockState = [d.blockState EXCEPT ![Height[b]] = NoBlock]
           /\ RemoveState(d, b).opState = d.opState
  BY DEF RemoveState, DeleteTransactionsByBlockHash, Stores

\* Saving transactions and marking outpoints spent, those saved in the same batch
\* included, keeps the unspent index and the output records in agreement.
LEMMA IndexTransactionsUnspent ==
    ASSUME NEW OpStates, NEW d \in Stores(OpStates), UnspentAgrees(d),
           NEW b \in Blocks, NEW txs \in SUBSET Txids, NEW times
    PROVE  UnspentAgrees(IndexTransactions(d, b, txs, times))
  <1> DEFINE saved == Eligible(txs)
             new   == OutpointsOf(saved)
             s     == SaveTransactions(d, b, txs, times)
             m     == IndexTransactions(d, b, txs, times)
             spent == {o \in Outpoints \cap SpentBy(txs) : o \in new \/ d.output[o] = "unspent"}
  <1>1. new = {o \in Outpoints : o[1] \in saved} /\ saved \subseteq txs
    BY DEF OutpointsOf, Eligible
  <1>2. /\ s.tx = [t \in Txids |-> IF t \in saved THEN b ELSE d.tx[t]]
        /\ s.output = [o \in Outpoints |-> IF o \in new THEN "unspent" ELSE d.output[o]]
        /\ s.unspent = d.unspent \cup new
        /\ s \in [ tx : {s.tx}, time : {s.time}, output : {s.output}, unspent : {s.unspent},
                   heightIndex : {s.heightIndex}, hashIndex : {s.hashIndex},
                   timeIndex : {s.timeIndex}, blockState : {s.blockState},
                   opState : {s.opState} ]
    BY DEF SaveTransactions, Stores
  <1> HIDE DEF new, saved
  <1>3. /\ m.tx = s.tx
        /\ m.output = [o \in Outpoints |-> IF o \in spent THEN "spent" ELSE s.output[o]]
        /\ m.unspent = s.unspent \ spent
    BY <1>2 DEF IndexTransactions, MarkOutputsSpent, new, saved
  <1>4. \A o \in Outpoints : o[1] \in Txids
    BY DEF Outpoints
  <1>5. m.unspent = {o \in Outpoints : m.output[o] = "unspent"}
    BY <1>1, <1>2, <1>3 DEF UnspentAgrees
  <1>6. \A o \in Outpoints : m.output[o] # "absent" <=> m.tx[o[1]] # NoBlock
    BY <1>1, <1>2, <1>3, <1>4, LedgerTypes DEF UnspentAgrees
  <1> QED
    BY <1>5, <1>6 DEF UnspentAgrees

\* So does deleting the transactions of a block.
LEMMA RemoveStateUnspent ==
    ASSUME NEW OpStates, NEW d \in Stores(OpStates), UnspentAgrees(d), NEW b \in Blocks
    PROVE  UnspentAgrees(RemoveState(d, b))
  <1> DEFINE txids == {t \in Txids : <<b, t>> \in d.hashIndex /\ d.tx[t] # NoBlock}
             e     == RemoveState(d, b)
  <1>1. /\ e.tx = [t \in Txids |-> IF t \in txids THEN NoBlock ELSE d.tx[t]]
        /\ e.output = [o \in Outpoints |-> IF o[1] \in txids THEN "absent" ELSE d.output[o]]
        /\ e.unspent = {o \in d.unspent : o[1] \notin txids}
    BY DEF RemoveState, DeleteTransactionsByBlockHash, Stores
  <1>2. \A o \in Outpoints : o[1] \in Txids
    BY DEF Outpoints
  <1> HIDE DEF txids, e
  <1> QED
    BY <1>1, <1>2 DEF UnspentAgrees, e

\* So does setState, which writes neither.
LEMMA SetStateUnspent ==
    ASSUME NEW OpStates, NEW d \in Stores(OpStates), UnspentAgrees(d), NEW state, NEW b
    PROVE  UnspentAgrees(SetState(d, state, b))
  BY DEF SetState, UnspentAgrees, Stores

\* getCurrentBlockState, when the indexed heights are an interval.
LEMMA CurrentOfInterval ==
    ASSUME NEW d, NEW n \in Nat, BaseHeight <= n, IndexedHeights(d) = BaseHeight..n
    PROVE  n \in Heights /\ GetCurrentBlockState(d) = d.blockState[n]
  <1>1. BaseHeight \in Nat
    BY LedgerTypes DEF BaseHeight
  <1>2. n \in IndexedHeights(d) /\ Max(IndexedHeights(d)) = n
    BY <1>1, MaxOfInterval
  <1> QED
    BY <1>2 DEF GetCurrentBlockState, IndexedHeights

\* The current block state of a contiguous store lies at its greatest height.
LEMMA ContiguousTop ==
    ASSUME NEW d, Contiguous(d)
    PROVE  LET top == GetCurrentBlockState(d)
           IN  /\ top \in Blocks
               /\ Height[top] \in Nat
               /\ BaseHeight <= Height[top]
               /\ IndexedHeights(d) = BaseHeight..Height[top]
               /\ d.blockState[Height[top]] = top
  <1> DEFINE top == GetCurrentBlockState(d)
  <1>1. top \in Blocks /\ Height[top] \in Nat /\ BaseHeight <= Height[top]
    BY HeightType DEF Contiguous
  <1>2. IndexedHeights(d) = BaseHeight..Height[top]
    BY DEF Contiguous
  <1> QED
    BY <1>1, <1>2, CurrentOfInterval

\* The bootstrap's block state is that of the base block.
LEMMA FirstBlockState ==
    ASSUME NEW OpStates, NEW d \in Stores(OpStates), NEW state, IndexedHeights(d) = {}
    PROVE  /\ Contiguous(SetState(d, state, BaseBlock))
           /\ GetCurrentBlockState(SetState(d, state, BaseBlock)) = BaseBlock
  <1> DEFINE e == SetState(d, state, BaseBlock)
  <1>1. e.blockState = [d.blockState EXCEPT ![BaseHeight] = BaseBlock]
    BY DEF SetState, Stores, BaseHeight
  <1>2. BaseHeight \in Heights /\ BaseHeight \in Nat /\ BaseHeight = Height[BaseBlock]
    BY HeightType, LedgerTypes DEF BaseHeight, Heights
  <1>3. IndexedHeights(e) = {BaseHeight} /\ e.blockState[BaseHeight] = BaseBlock
    BY <1>1, <1>2, LedgerTypes DEF IndexedHeights, Stores
  <1> HIDE DEF e
  <1>4. IndexedHeights(e) = BaseHeight..BaseHeight
    BY <1>2, <1>3
  <1>5. GetCurrentBlockState(e) = BaseBlock
    <2> DEFINE n == BaseHeight
    <2>1. n \in Nat /\ BaseHeight <= n /\ IndexedHeights(e) = BaseHeight..n
      BY <1>2, <1>4
    <2> HIDE DEF n
    <2>2. GetCurrentBlockState(e) = e.blockState[n]
      BY <2>1, CurrentOfInterval
    <2> QED
      BY <1>3, <2>2 DEF n
  <1>6. Contiguous(e)
    BY <1>2, <1>3, <1>4, <1>5, LedgerTypes DEF Contiguous
  <1> QED
    BY <1>5, <1>6 DEF e

\* A block state saved one height above the current one becomes the current one.
LEMMA AppendBlockState ==
    ASSUME NEW OpStates, NEW d \in Stores(OpStates), NEW state, Contiguous(d),
           NEW b \in Blocks, Height[b] = Height[GetCurrentBlockState(d)] + 1
    PROVE  /\ Contiguous(SetState(d, state, b))
           /\ GetCurrentBlockState(SetState(d, state, b)) = b
           /\ SetState(d, state, b).blockState = [d.blockState EXCEPT ![Height[b]] = b]
  <1> DEFINE e == SetState(d, state, b)
             n == Height[GetCurrentBlockState(d)]
  <1>1. e.blockState = [d.blockState EXCEPT ![n + 1] = b]
    BY DEF SetState, Stores
  <1>2. n \in Nat /\ n + 1 \in Heights /\ b # NoBlock /\ BaseHeight \in Nat /\ BaseHeight <= n
    BY HeightType, ContiguousTop, LedgerTypes DEF Heights
  <1>3. IndexedHeights(e) = IndexedHeights(d) \cup {n + 1}
    BY <1>1, <1>2 DEF IndexedHeights, Stores
  <1>4. IndexedHeights(d) = BaseHeight..n
    BY ContiguousTop
  <1>5. d.blockState \in [Heights -> Blocks \cup {NoBlock}]
    BY DEF Stores
  <1> HIDE DEF e, n
  <1>6. IndexedHeights(e) = BaseHeight..(n + 1)
    BY <1>2, <1>3, <1>4
  <1>7. GetCurrentBlockState(e) = b
    BY <1>1, <1>2, <1>5, <1>6, CurrentOfInterval
  <1>8. /\ e.blockState[BaseHeight] = BaseBlock
        /\ \A h \in IndexedHeights(e) : Height[e.blockState[h]] = h
    <2>1. d.blockState[BaseHeight] = BaseBlock
      BY DEF Contiguous
    <2>2. \A h \in BaseHeight..n : h \in Heights /\ h # n + 1 /\ Height[d.blockState[h]] = h
      BY <1>2, <1>4 DEF Contiguous, IndexedHeights
    <2>3. Height[b] = n + 1
      BY DEF n
    <2>4. BaseHeight \in BaseHeight..n
      BY <1>2
    <2>5. \A h \in BaseHeight..n : e.blockState[h] = d.blockState[h]
      BY <1>1, <1>5, <2>2
    <2>6. e.blockState[n + 1] = b
      BY <1>1, <1>2, <1>5
    <2> QED
      BY <1>3, <1>4, <2>1, <2>2, <2>3, <2>4, <2>5, <2>6
  <1>9. Contiguous(e)
    BY <1>6, <1>7, <1>8 DEF Contiguous, n
  <1> QED
    BY <1>1, <1>7, <1>9 DEF e, n

\* Below a block state that is rolled back the one before it becomes the current
\* one; there is one, unless it is the base block's.
LEMMA RemoveTopBlockState ==
    ASSUME NEW OpStates, NEW d \in Stores(OpStates), Contiguous(d),
           GetCurrentBlockState(d) # BaseBlock
    PROVE  LET top == GetCurrentBlockState(d)
               e   == RemoveState(d, top)
           IN  /\ Contiguous(e)
               /\ e.blockState = [d.blockState EXCEPT ![Height[top]] = NoBlock]
               /\ GetCurrentBlockState(e) = d.blockState[Height[top] - 1]
               /\ Height[GetCurrentBlockState(e)] = Height[top] - 1
  <1> DEFINE top == GetCurrentBlockState(d)
             e   == RemoveState(d, top)
             n   == Height[top]
  <1>1. e.blockState = [d.blockState EXCEPT ![n] = NoBlock]
    BY RemoveStateStates
  <1>2. /\ BaseHeight \in Nat /\ n \in Nat /\ BaseHeight < n
        /\ IndexedHeights(d) = BaseHeight..n
    BY HeightType, ContiguousTop, BaseIsOnly
  <1>3. d.blockState \in [Heights -> Blocks \cup {NoBlock}]
    BY DEF Stores
  <1>4. \A h \in BaseHeight..n : h \in Heights /\ Height[d.blockState[h]] = h /\ d.blockState[h] # NoBlock
    BY <1>2 DEF Contiguous, IndexedHeights
  <1>5. d.blockState[BaseHeight] = BaseBlock
    BY DEF Contiguous
  <1> HIDE DEF e, n, top
  <1>6. n - 1 \in Nat /\ n - 1 \in BaseHeight..n /\ n \in BaseHeight..n /\ BaseHeight \in BaseHeight..n
    BY <1>2
  <1>7. IndexedHeights(e) = IndexedHeights(d) \ {n}
    BY <1>1, <1>3, <1>4, <1>6 DEF IndexedHeights
  <1>8. IndexedHeights(e) = BaseHeight..(n - 1)
    BY <1>2, <1>7
  <1>9. GetCurrentBlockState(e) = e.blockState[n - 1]
    BY <1>2, <1>6, <1>8, CurrentOfInterval
  <1>10. \A h \in BaseHeight..(n - 1) : h \in BaseHeight..n /\ e.blockState[h] = d.blockState[h]
    BY <1>1, <1>2, <1>3, <1>4
  <1>11. n - 1 \in BaseHeight..(n - 1) /\ BaseHeight \in BaseHeight..(n - 1)
    BY <1>2, <1>6
  <1>12. GetCurrentBlockState(e) = d.blockState[n - 1] /\ Height[GetCurrentBlockState(e)] = n - 1
    BY <1>4, <1>6, <1>9, <1>10, <1>11
  <1>13. GetCurrentBlockState(e) \in Blocks
    BY <1>3, <1>4, <1>6, <1>12
  <1>14. Contiguous(e)
    BY <1>4, <1>5, <1>8, <1>10, <1>11, <1>12, <1>13 DEF Contiguous
  <1> QED
    BY <1>1, <1>12, <1>14 DEF e, n, top

\* The current block state of a stack lies at its greatest height.
LEMMA StackedTop ==
    ASSUME NEW OpStates, NEW d \in Stores(OpStates), Stacked(d),
           NEW n \in Nat, \A h \in IndexedHeights(d) : h <= n
    PROVE  LET top == GetCurrentBlockState(d)
           IN  /\ top \in Blocks
               /\ Height[top] \in IndexedHeights(d)
               /\ d.blockState[Height[top]] = top
               /\ \A h \in IndexedHeights(d) : h <= Height[top]
  <1> DEFINE S == IndexedHeights(d)
  <1>1. S \in SUBSET Nat /\ BaseHeight \in S
    BY HeightType, LedgerTypes DEF Stacked, IndexedHeights, Heights, BaseHeight
  <1>2. Max(S) \in S /\ \A h \in S : h <= Max(S)
    BY <1>1, MaxOfBounded
  <1>3. GetCurrentBlockState(d) = d.blockState[Max(S)]
    BY <1>1 DEF GetCurrentBlockState
  <1>4. Height[d.blockState[Max(S)]] = Max(S) /\ d.blockState[Max(S)] \in Blocks
    BY <1>2 DEF Stacked, IndexedHeights, Stores
  <1> QED
    BY <1>2, <1>3, <1>4

\* Where it does not matter which bound, the greatest height decides.
LEMMA StackedTopIs ==
    ASSUME NEW OpStates, NEW d \in Stores(OpStates), Stacked(d),
           NEW n \in IndexedHeights(d), \A h \in IndexedHeights(d) : h <= n
    PROVE  GetCurrentBlockState(d) = d.blockState[n]
  <1> DEFINE top == GetCurrentBlockState(d)
  <1>1. n \in Nat
    BY HeightType DEF IndexedHeights, Heights
  <1>2. /\ top \in Blocks /\ Height[top] \in IndexedHeights(d) /\ d.blockState[Height[top]] = top
        /\ n <= Height[top]
    BY <1>1, StackedTop
  <1>3. Height[top] = n
    BY <1>1, <1>2, HeightType
  <1> QED
    BY <1>2, <1>3

\* A block state saved above the current one, or over it by itself, is the
\* current one.
LEMMA StackedSetState ==
    ASSUME NEW OpStates, NEW d \in Stores(OpStates), Stacked(d), NEW state, NEW b \in Blocks,
           BaseHeight < Height[b], \A h \in IndexedHeights(d) : h <= Height[b]
    PROVE  LET e == SetState(d, state, b)
           IN  /\ Stacked(e)
               /\ GetCurrentBlockState(e) = b
               /\ e.blockState = [d.blockState EXCEPT ![Height[b]] = b]
               /\ IndexedHeights(e) = IndexedHeights(d) \cup {Height[b]}
  <1> DEFINE e == SetState(d, state, b)
             n == Height[b]
  <1>1. e.blockState = [d.blockState EXCEPT ![n] = b]
    BY DEF SetState, Stores
  <1>2. d.blockState \in [Heights -> Blocks \cup {NoBlock}] /\ n \in Heights /\ b # NoBlock /\ n \in Nat
    BY HeightType, LedgerTypes DEF Stores
  <1>3. IndexedHeights(e) = IndexedHeights(d) \cup {n}
    BY <1>1, <1>2 DEF IndexedHeights
  <1>4. Stacked(e)
    <2>1. e.blockState[BaseHeight] = BaseBlock
      BY <1>1, <1>2, HeightType DEF Stacked
    <2>2. \A h \in IndexedHeights(e) : Height[e.blockState[h]] = h
      BY <1>1, <1>2, <1>3 DEF Stacked, IndexedHeights
    <2> QED
      BY <2>1, <2>2 DEF Stacked
  <1>5. e \in Stores({state})
    BY LedgerTypes DEF Stores, SetState, Heights
  <1>6. n \in IndexedHeights(e) /\ \A h \in IndexedHeights(e) : h <= n
    BY <1>2, <1>3
  <1> HIDE DEF e
  <1>7. GetCurrentBlockState(e) = b
    BY <1>1, <1>2, <1>4, <1>5, <1>6, StackedTopIs
  <1> QED
    BY <1>1, <1>3, <1>4, <1>7 DEF e

\* Without its topmost block state, if that is not the base block's, a stack is
\* a stack.
LEMMA StackedRemoveState ==
    ASSUME NEW OpStates, NEW d \in Stores(OpStates), Stacked(d),
           NEW b \in Blocks, b # BaseBlock, d.blockState[Height[b]] = b
    PROVE  LET e == RemoveState(d, b)
           IN  /\ Stacked(e)
               /\ e.blockState = [d.blockState EXCEPT ![Height[b]] = NoBlock]
               /\ IndexedHeights(e) = IndexedHeights(d) \ {Height[b]}
  <1> DEFINE e == RemoveState(d, b)
             n == Height[b]
  <1>1. e.blockState = [d.blockState EXCEPT ![n] = NoBlock]
    BY RemoveStateStates
  <1>2. d.blockState \in [Heights -> Blocks \cup {NoBlock}] /\ n \in Heights
    BY HeightType DEF Stores
  <1>3. BaseHeight # n /\ BaseHeight \in Heights
    BY BaseIsOnly, HeightType, LedgerTypes DEF BaseHeight
  <1> HIDE DEF e
  <1>4. IndexedHeights(e) = IndexedHeights(d) \ {n}
    BY <1>1, <1>2 DEF IndexedHeights
  <1>5. Stacked(e)
    BY <1>1, <1>2, <1>3, <1>4 DEF Stacked, IndexedHeights
  <1> QED
    BY <1>1, <1>4, <1>5 DEF e

\* A child of the current block extends the branch.
LEMMA AppendOnOneBranch ==
    ASSUME NEW OpStates, NEW d \in Stores(OpStates), NEW state, Contiguous(d), OnOneBranch(d),
           NEW b \in Blocks, Height[b] = Height[GetCurrentBlockState(d)] + 1,
           GetCurrentBlockState(d) \in Lineage[b]
    PROVE  OnOneBranch(SetState(d, state, b))
  <1> DEFINE e   == SetState(d, state, b)
             top == GetCurrentBlockState(d)
  <1>1. /\ GetCurrentBlockState(e) = b
        /\ e.blockState = [d.blockState EXCEPT ![Height[b]] = b]
    BY AppendBlockState
  <1>2. d.blockState \in [Heights -> Blocks \cup {NoBlock}] /\ Height[b] \in Heights
    BY HeightType DEF Stores
  <1>3. Lineage[top] \subseteq Lineage[b] /\ b \in Lineage[b]
    BY LineageIsChain
  <1>4. \A h \in IndexedHeights(d) : d.blockState[h] \in Lineage[top]
    BY DEF OnOneBranch
  <1>5. \A h \in IndexedHeights(e) : h = Height[b] \/ h \in IndexedHeights(d)
    BY <1>1, <1>2 DEF IndexedHeights
  <1> HIDE DEF e, top
  <1>6. \A h \in IndexedHeights(e) : e.blockState[h] \in Lineage[b]
    BY <1>1, <1>2, <1>3, <1>4, <1>5 DEF IndexedHeights
  <1> QED
    BY <1>1, <1>6 DEF OnOneBranch, e

\* Without its last block a branch is a branch.
LEMMA RemoveOnOneBranch ==
    ASSUME NEW OpStates, NEW d \in Stores(OpStates), Contiguous(d), OnOneBranch(d),
           GetCurrentBlockState(d) # BaseBlock
    PROVE  OnOneBranch(RemoveState(d, GetCurrentBlockState(d)))
  <1> DEFINE top == GetCurrentBlockState(d)
             e   == RemoveState(d, top)
             c   == GetCurrentBlockState(e)
             n   == Height[top]
  <1>1. /\ Contiguous(e)
        /\ e.blockState = [d.blockState EXCEPT ![n] = NoBlock]
        /\ c = d.blockState[n - 1]
        /\ Height[c] = n - 1
    BY RemoveTopBlockState
  <1>2. top \in Blocks /\ n \in Nat /\ BaseHeight \in Nat
    BY ContiguousTop, HeightType
  <1>3. d.blockState \in [Heights -> Blocks \cup {NoBlock}]
    BY DEF Stores
  <1>4. IndexedHeights(e) = BaseHeight..(n - 1) /\ c \in Blocks
    BY <1>1 DEF Contiguous
  <1>5. \A h \in IndexedHeights(e) : e.blockState[h] = d.blockState[h] /\ h \in IndexedHeights(d)
    BY <1>1, <1>2, <1>3, <1>4 DEF IndexedHeights
  <1>6. \A h \in IndexedHeights(e) : Height[e.blockState[h]] = h /\ h <= n - 1
    BY <1>1, <1>2, <1>4 DEF Contiguous
  <1>7. n - 1 \in IndexedHeights(e)
    BY <1>1, <1>2, <1>4, HeightType
  <1> HIDE DEF e, c, n
  <1>8. \A h \in IndexedHeights(e) : d.blockState[h] \in Lineage[top]
    BY <1>5 DEF OnOneBranch
  <1>9. c \in Lineage[top]
    BY <1>1, <1>7, <1>8
  <1>10. \A h \in IndexedHeights(e) : e.blockState[h] \in Lineage[c]
    BY <1>1, <1>2, <1>5, <1>6, <1>8, <1>9, LineageOrdered
  <1> QED
    BY <1>10 DEF OnOneBranch, e, c

\* The transactions served for a height are well typed.
LEMMA ServedType ==
    ASSUME NEW d, NEW h \in Nat, NEW filterSpent
    PROVE  GetTransactionsByBlockHeight(d, h, filterSpent)
              \in SUBSET [id : Txids, outputs : SUBSET Outpoints]
  <1> DEFINE Entry(t) == [id |-> t, outputs |-> GetOutputsForTxid(d, t, filterSpent)]
             shown    == {u \in {t \in Txids : <<h, t>> \in d.heightIndex} :
                             /\ d.tx[u] # NoBlock
                             /\ GetOutputsForTxid(d, u, filterSpent) # {}}
  <1>1. \A t \in Txids : Entry(t) \in [id : Txids, outputs : SUBSET Outpoints]
    BY DEF GetOutputsForTxid, OutpointsOf
  <1>2. shown \subseteq Txids
    OBVIOUS
  <1>3. GetTransactionsByBlockHeight(d, h, filterSpent) = {Entry(t) : t \in shown}
    BY DEF GetTransactionsByBlockHeight, FetchTransactions
  <1> HIDE DEF Entry, shown
  <1> QED
    BY <1>1, <1>2, <1>3

-----------------------------------------------------------------------------
(* The store over time *)

\* Whatever its operation state.
StoreTyped == db \in Stores({db.opState})

\* A store with block states has those of one branch, from the base block up.
StoreOnBranch ==
    IF db.opState = NoState
    THEN IndexedHeights(db) = {}
    ELSE Contiguous(db) /\ OnOneBranch(db)

StoreInv ==
    /\ StoreTyped
    /\ StoreOnBranch
    /\ UnspentAgrees(db)
    /\ StoreExact
    /\ StoreSpent

-----------------------------------------------------------------------------
\* The indexed blocks lie on the current block's branch, one per height.
LEMMA IndexedOnBranch ==
    ASSUME Contiguous(db), OnOneBranch(db), NEW S, db \in Stores(S)
    PROVE  LET top == GetCurrentBlockState(db)
           IN  /\ \A c \in IndexedBlocks :
                     /\ c \in Blocks /\ c # BaseBlock /\ c \in Lineage[top]
                     /\ Height[c] \in IndexedHeights(db)
                     /\ db.blockState[Height[c]] = c
                     /\ Height[c] <= Height[top]
               /\ top # BaseBlock => top \in IndexedBlocks
  <1> DEFINE top == GetCurrentBlockState(db)
  <1>1. /\ top \in Blocks
        /\ Height[top] \in Nat
        /\ IndexedHeights(db) = BaseHeight..Height[top]
        /\ BaseHeight <= Height[top]
        /\ db.blockState[Height[top]] = top
    BY ContiguousTop
  <1>2. \A h \in IndexedHeights(db) : Height[db.blockState[h]] = h /\ db.blockState[h] \in Blocks
    BY DEF Contiguous, IndexedHeights, Stores
  <1>3. \A h \in IndexedHeights(db) : db.blockState[h] \in Lineage[top]
    BY DEF OnOneBranch
  <1> HIDE DEF top
  <1>4. BaseHeight \in Nat
    BY HeightType
  <1>5. Height[top] \in IndexedHeights(db)
    BY <1>1, <1>4
  <1> QED
    BY <1>1, <1>2, <1>3, <1>4, <1>5 DEF IndexedBlocks, top

\* What a commit of block b writes, part by part.
LEMMA IndexBlockEffect ==
    ASSUME NEW S, db \in Stores(S), NEW b \in Blocks, NEW state, IndexBlock(b, state)
    PROVE  LET saved == Eligible(TxsOf(b))
               new   == OutpointsOf(saved)
           IN  /\ db'.tx = [t \in Txids |-> IF t \in saved THEN b ELSE db.tx[t]]
               /\ db'.time = [t \in Txids |-> IF t \in saved THEN Time[b] ELSE db.time[t]]
               /\ db'.unspent = (db.unspent \cup new)
                    \ {o \in Outpoints \cap SpentBy(TxsOf(b)) : o \in new \/ db.output[o] = "unspent"}
               /\ db'.heightIndex = db.heightIndex \cup ({Height[b]} \X saved)
               /\ db'.hashIndex = db.hashIndex \cup ({b} \X saved)
               /\ db'.timeIndex = IF saved = {} THEN db.timeIndex
                                  ELSE db.timeIndex \cup {<<Time[b], Height[b]>>}
               /\ db'.blockState = [db.blockState EXCEPT ![Height[b]] = b]
               /\ db'.opState = state
  <1> DEFINE saved == Eligible(TxsOf(b))
             new   == OutpointsOf(saved)
  <1>1. saved \subseteq Txids
    BY LedgerTypes DEF Eligible, TxsOf, Range
  <1>2. \A t \in saved : BlockTime(b)[t] = Time[b]
    BY <1>1 DEF BlockTime
  <1>3. /\ db'.tx = [t \in Txids |-> IF t \in saved THEN b ELSE db.tx[t]]
        /\ db'.time = [t \in Txids |-> IF t \in saved THEN BlockTime(b)[t] ELSE db.time[t]]
        /\ db'.unspent = (db.unspent \cup new)
             \ {o \in Outpoints \cap SpentBy(TxsOf(b)) : o \in new \/ db.output[o] = "unspent"}
        /\ db'.heightIndex = db.heightIndex \cup ({Height[b]} \X saved)
        /\ db'.hashIndex = db.hashIndex \cup ({b} \X saved)
        /\ db'.timeIndex = db.timeIndex \cup {<<BlockTime(b)[t], Height[b]>> : t \in saved}
        /\ db'.blockState = [db.blockState EXCEPT ![Height[b]] = b]
        /\ db'.opState = state
    BY DEF IndexBlock, SetState, IndexTransactions, MarkOutputsSpent, SaveTransactions, Stores
  <1> HIDE DEF saved, new
  <1>4. {<<BlockTime(b)[t], Height[b]>> : t \in saved} = IF saved = {} THEN {} ELSE {<<Time[b], Height[b]>>}
    BY <1>2
  <1> QED
    BY <1>2, <1>3, <1>4 DEF saved, new

\* The blocks indexed after a commit are those before it and the committed one.
LEMMA IndexBlockIndexed ==
    ASSUME NEW S, db \in Stores(S), Contiguous(db),
           NEW b \in Blocks, NEW state, IndexBlock(b, state)
    PROVE  IndexedBlocks' = IndexedBlocks \cup {b}
  <1> DEFINE top == GetCurrentBlockState(db)
  <1>1. /\ Height[b] = Height[top] + 1
        /\ db' = SetState(IndexTransactions(db, b, TxsOf(b), BlockTime(b)), state, b)
    BY DEF IndexBlock
  <1>2. /\ IndexedHeights(db) = BaseHeight..Height[top] /\ Height[top] \in Nat
        /\ BaseHeight <= Height[top] /\ BaseHeight \in Nat
    BY ContiguousTop, HeightType
  <1>3. Height[b] \in Heights /\ Height[b] \notin IndexedHeights(db) /\ b # BaseBlock
    BY <1>1, <1>2, HeightType DEF BaseHeight
  <1>4. db'.blockState = [db.blockState EXCEPT ![Height[b]] = b]
    BY IndexBlockEffect
  <1>5. db.blockState \in [Heights -> Blocks \cup {NoBlock}] /\ b # NoBlock
    BY LedgerTypes DEF Stores
  <1>6. /\ IndexedHeights(db') = IndexedHeights(db) \cup {Height[b]}
        /\ db'.blockState[Height[b]] = b
        /\ \A h \in IndexedHeights(db) : db'.blockState[h] = db.blockState[h]
    BY <1>3, <1>4, <1>5 DEF IndexedHeights
  <1>7. IndexedBlocks' = {db'.blockState[h] : h \in IndexedHeights(db')} \ {BaseBlock}
    BY DEF IndexedBlocks
  <1>8. {db'.blockState[h] : h \in IndexedHeights(db')}
            = {db.blockState[h] : h \in IndexedHeights(db)} \cup {b}
    BY <1>6
  <1> QED
    BY <1>3, <1>7, <1>8 DEF IndexedBlocks

\* A commit adds the block's eligible transactions under the block's own keys,
\* in place of any record of them.
LEMMA IndexBlockExact ==
    ASSUME NEW S, db \in Stores(S), Contiguous(db), StoreExact,
           NEW b \in Blocks, NEW state, IndexBlock(b, state)
    PROVE  StoreExact'
  <1> DEFINE saved == Eligible(TxsOf(b))
             B     == IndexedBlocks
  <1>1. IndexedBlocks' = B \cup {b}
    BY IndexBlockIndexed
  <1>2. /\ db'.tx = [t \in Txids |-> IF t \in saved THEN b ELSE db.tx[t]]
        /\ db'.time = [t \in Txids |-> IF t \in saved THEN Time[b] ELSE db.time[t]]
        /\ db'.heightIndex = db.heightIndex \cup ({Height[b]} \X saved)
        /\ db'.hashIndex = db.hashIndex \cup ({b} \X saved)
        /\ db'.timeIndex = IF saved = {} THEN db.timeIndex
                           ELSE db.timeIndex \cup {<<Time[b], Height[b]>>}
    BY IndexBlockEffect
  <1>3. \A t \in Txids : TransactionExact(t)'
    <2> SUFFICES ASSUME NEW t \in Txids PROVE TransactionExact(t)'
      OBVIOUS
    <2>1. TransactionExact(t)
      BY DEF StoreExact
    <2> QED
      BY <1>1, <1>2, <2>1 DEF TransactionExact
  <1> DEFINE H(c) == {Height[c]} \X Eligible(TxsOf(c))
             K(c) == {c} \X Eligible(TxsOf(c))
             T(c) == <<Time[c], Height[c]>>
  <1>4. db'.heightIndex = UNION {H(c) : c \in IndexedBlocks'}
    <2>1. db.heightIndex = UNION {H(c) : c \in B} /\ db'.heightIndex = db.heightIndex \cup H(b)
      BY <1>2 DEF StoreExact
    <2> HIDE DEF H, B
    <2> QED
      BY <1>1, <2>1
  <1>5. db'.hashIndex = UNION {K(c) : c \in IndexedBlocks'}
    <2>1. db.hashIndex = UNION {K(c) : c \in B} /\ db'.hashIndex = db.hashIndex \cup K(b)
      BY <1>2 DEF StoreExact
    <2> HIDE DEF K, B
    <2> QED
      BY <1>1, <2>1
  <1>6. db'.timeIndex = {T(c) : c \in {d \in IndexedBlocks' : Eligible(TxsOf(d)) # {}}}
    <2>1. /\ db.timeIndex = {T(c) : c \in {d \in B : Eligible(TxsOf(d)) # {}}}
          /\ db'.timeIndex = IF saved = {} THEN db.timeIndex ELSE db.timeIndex \cup {T(b)}
      BY <1>2 DEF StoreExact
    <2> HIDE DEF T, B
    <2> QED
      BY <1>1, <2>1
  <1> QED
    <2> HIDE DEF B
    <2> QED
      BY <1>3, <1>4, <1>5, <1>6 DEF StoreExact

\* A commit marks what the block spends; what it creates no block below spends.
LEMMA IndexBlockSpent ==
    ASSUME NEW S, db \in Stores(S), Contiguous(db), OnOneBranch(db), UnspentAgrees(db), StoreSpent,
           NEW b \in Blocks, NEW state, IndexBlock(b, state)
    PROVE  StoreSpent'
  <1> DEFINE saved == Eligible(TxsOf(b))
             new   == OutpointsOf(saved)
             top   == GetCurrentBlockState(db)
  <1>1. IndexedBlocks' = IndexedBlocks \cup {b}
    BY IndexBlockIndexed
  <1>2. db'.unspent = (db.unspent \cup new)
           \ {o \in Outpoints \cap SpentBy(TxsOf(b)) : o \in new \/ db.output[o] = "unspent"}
    BY IndexBlockEffect
  <1>3. db.unspent = {o \in Outpoints : db.output[o] = "unspent"} /\ new \subseteq Outpoints
    BY DEF UnspentAgrees, OutpointsOf
  <1>4. SpentBy(TxsOf(b)) \cap db'.unspent = {}
    BY <1>2, <1>3
  <1>5. \A c \in IndexedBlocks : SpentBy(TxsOf(c)) \cap new = {}
    <2> SUFFICES ASSUME NEW c \in IndexedBlocks, NEW o \in SpentBy(TxsOf(c)), o \in new
                 PROVE  FALSE
      OBVIOUS
    <2>1. c \in Blocks /\ c \in Lineage[top] /\ Height[c] <= Height[top]
      BY IndexedOnBranch
    <2>2. /\ top \in Lineage[b] /\ Height[b] = Height[top] + 1
          /\ Height[top] \in Nat /\ top \in Blocks
      BY ContiguousTop DEF IndexBlock
    <2>3. c \in Lineage[b] /\ b \in Lineage[b]
      BY <2>1, <2>2, LineageIsChain
    <2>4. PICK u \in TxsOf(c) : o \in Spends[u]
      BY DEF SpentBy
    <2>5. o[1] \in TxsOf(b)
      BY DEF OutpointsOf, Eligible
    <2>6. Height[b] <= Height[c]
      BY <2>3, <2>4, <2>5, LineageIsValid
    <2> QED
      BY <2>1, <2>2, <2>6, HeightType
  <1>6. \A c \in IndexedBlocks : SpentBy(TxsOf(c)) \cap db'.unspent = {}
    <2>1. db'.unspent \subseteq db.unspent \cup new
      BY <1>2
    <2>2. \A c \in IndexedBlocks : SpentBy(TxsOf(c)) \cap db.unspent = {}
      BY DEF StoreSpent
    <2> HIDE DEF new
    <2> QED
      BY <1>5, <2>1, <2>2
  <1> QED
    BY <1>1, <1>4, <1>6 DEF StoreSpent

-----------------------------------------------------------------------------
\* What a rollback deletes, part by part.
LEMMA RollBackEffect ==
    ASSUME NEW S, db \in Stores(S), RollBack
    PROVE  LET top   == GetCurrentBlockState(db)
               txids == {t \in Txids : <<top, t>> \in db.hashIndex /\ db.tx[t] # NoBlock}
           IN  /\ db'.tx = [t \in Txids |-> IF t \in txids THEN NoBlock ELSE db.tx[t]]
               /\ db'.time = [t \in Txids |-> IF t \in txids THEN 0 ELSE db.time[t]]
               /\ db'.unspent = {o \in db.unspent : o[1] \notin txids}
               /\ db'.heightIndex = db.heightIndex \ {<<Height[db.tx[t]], t>> : t \in txids}
               /\ db'.hashIndex = db.hashIndex \ ({top} \X txids)
               /\ db'.timeIndex = db.timeIndex \ {<<db.time[t], Height[db.tx[t]]>> : t \in txids}
               /\ db'.blockState = [db.blockState EXCEPT ![Height[top]] = NoBlock]
               /\ db'.opState = db.opState
  BY DEF RollBack, RemoveState, DeleteTransactionsByBlockHash, Stores

\* The blocks indexed after a rollback are those before it but the current one.
LEMMA RollBackIndexed ==
    ASSUME NEW S, db \in Stores(S), Contiguous(db), OnOneBranch(db), RollBack
    PROVE  IndexedBlocks' = IndexedBlocks \ {GetCurrentBlockState(db)}
  <1> DEFINE top == GetCurrentBlockState(db)
  <1>1. db'.blockState = [db.blockState EXCEPT ![Height[top]] = NoBlock]
    BY RollBackEffect
  <1>2. /\ top \in Blocks /\ Height[top] \in Heights
        /\ db.blockState[Height[top]] = top
        /\ \A h \in IndexedHeights(db) : Height[db.blockState[h]] = h
    BY ContiguousTop, HeightType DEF Contiguous
  <1>3. db.blockState \in [Heights -> Blocks \cup {NoBlock}]
    BY DEF Stores
  <1> HIDE DEF top
  <1>4. /\ IndexedHeights(db') = IndexedHeights(db) \ {Height[top]}
        /\ \A h \in IndexedHeights(db') : db'.blockState[h] = db.blockState[h]
        /\ \A h \in IndexedHeights(db') : db.blockState[h] # top
    BY <1>1, <1>2, <1>3 DEF IndexedHeights
  <1>5. {db'.blockState[h] : h \in IndexedHeights(db')}
            = {db.blockState[h] : h \in IndexedHeights(db)} \ {top}
    BY <1>2, <1>4
  <1>6. IndexedBlocks' = {db'.blockState[h] : h \in IndexedHeights(db')} \ {BaseBlock}
    BY DEF IndexedBlocks
  <1> QED
    BY <1>5, <1>6 DEF IndexedBlocks, top

\* The transactions found under the current block's hash are its eligible ones,
\* each with a record of that block: no other indexed block has mined them.
LEMMA RolledBackTransactions ==
    ASSUME NEW S, db \in Stores(S), Contiguous(db), OnOneBranch(db), StoreExact, RollBack
    PROVE  LET top   == GetCurrentBlockState(db)
               saved == Eligible(TxsOf(top))
           IN  /\ {t \in Txids : <<top, t>> \in db.hashIndex /\ db.tx[t] # NoBlock} = saved
               /\ \A t \in saved : db.tx[t] = top /\ db.time[t] = Time[top]
               /\ \A c \in IndexedBlocks \ {top} : Eligible(TxsOf(c)) \cap saved = {}
  <1> DEFINE top   == GetCurrentBlockState(db)
             saved == Eligible(TxsOf(top))
  <1>1. top \in Blocks /\ top # BaseBlock /\ top \in IndexedBlocks
    BY IndexedOnBranch DEF RollBack
  <1>2. \A c \in IndexedBlocks : c \in Lineage[top]
    BY IndexedOnBranch
  <1>3. \A c \in Blocks : TxsOf(c) \subseteq Txids
    BY LedgerTypes DEF TxsOf, Range
  <1>4. \A c \in IndexedBlocks : \A t \in Eligible(TxsOf(c)) : t \in saved => c = top
    BY <1>1, <1>2, LineageIsChain, LineageIsValid DEF Eligible
  <1>5. \A t \in Txids : <<top, t>> \in db.hashIndex <=> t \in saved
    BY <1>1 DEF StoreExact
  <1>6. \A t \in saved : t \in Txids /\ TransactionExact(t)
    BY <1>1, <1>3 DEF StoreExact, Eligible
  <1> HIDE DEF top, saved
  <1>7. \A t \in saved : db.tx[t] = top /\ db.time[t] = Time[top]
    BY <1>1, <1>4, <1>6 DEF TransactionExact, saved
  <1>8. top # NoBlock
    BY <1>1, LedgerTypes
  <1>9. {t \in Txids : <<top, t>> \in db.hashIndex /\ db.tx[t] # NoBlock} = saved
    BY <1>5, <1>6, <1>7, <1>8
  <1>10. \A c \in IndexedBlocks \ {top} : Eligible(TxsOf(c)) \cap saved = {}
    BY <1>4
  <1> QED
    BY <1>7, <1>9, <1>10 DEF top, saved

\* A rollback takes every entry of the block away, whichever of its records a
\* commit on another branch may have replaced before, and no other entry.
LEMMA RollBackExact ==
    ASSUME NEW S, db \in Stores(S), Contiguous(db), OnOneBranch(db), StoreExact, RollBack
    PROVE  StoreExact'
  <1> DEFINE top   == GetCurrentBlockState(db)
             saved == Eligible(TxsOf(top))
             B     == IndexedBlocks
             H(c)  == {Height[c]} \X Eligible(TxsOf(c))
             K(c)  == {c} \X Eligible(TxsOf(c))
             T(c)  == <<Time[c], Height[c]>>
  <1>1. IndexedBlocks' = B \ {top} /\ top \in B
    BY RollBackIndexed, IndexedOnBranch DEF RollBack
  <1>2. /\ {t \in Txids : <<top, t>> \in db.hashIndex /\ db.tx[t] # NoBlock} = saved
        /\ \A t \in saved : db.tx[t] = top /\ db.time[t] = Time[top]
        /\ \A c \in B \ {top} : Eligible(TxsOf(c)) \cap saved = {}
    BY RolledBackTransactions
  <1>3. /\ db'.tx = [t \in Txids |-> IF t \in saved THEN NoBlock ELSE db.tx[t]]
        /\ db'.time = [t \in Txids |-> IF t \in saved THEN 0 ELSE db.time[t]]
        /\ db'.heightIndex = db.heightIndex \ {<<Height[db.tx[t]], t>> : t \in saved}
        /\ db'.hashIndex = db.hashIndex \ ({top} \X saved)
        /\ db'.timeIndex = db.timeIndex \ {<<db.time[t], Height[db.tx[t]]>> : t \in saved}
    BY <1>2, RollBackEffect
  <1>4. \A c \in B \ {top} : Height[c] # Height[top]
    <2>1. db.blockState[Height[top]] = top
      BY ContiguousTop
    <2> QED
      BY <2>1, IndexedOnBranch
  <1> HIDE DEF top, saved, B
  <1>5. \A t \in Txids : TransactionExact(t)'
    <2> SUFFICES ASSUME NEW t \in Txids PROVE TransactionExact(t)'
      OBVIOUS
    <2>1. TransactionExact(t)
      BY DEF StoreExact
    <2>2. CASE t \in saved
      BY <1>1, <1>2, <1>3, <2>2 DEF TransactionExact
    <2>3. CASE t \notin saved
      BY <1>1, <1>3, <2>1, <2>3 DEF TransactionExact, B, saved
    <2> QED
      BY <2>2, <2>3
  <1>6. db'.heightIndex = UNION {H(c) : c \in IndexedBlocks'}
    <2>1. db.heightIndex = UNION {H(c) : c \in B}
      BY DEF StoreExact, B
    <2>2. db'.heightIndex = db.heightIndex \ H(top)
      BY <1>2, <1>3 DEF saved
    <2>3. \A c \in B \ {top} : H(c) \cap H(top) = {}
      BY <1>4
    <2> HIDE DEF H
    <2> QED
      BY <1>1, <2>1, <2>2, <2>3
  <1>7. db'.hashIndex = UNION {K(c) : c \in IndexedBlocks'}
    <2>1. db.hashIndex = UNION {K(c) : c \in B}
      BY DEF StoreExact, B
    <2>2. db'.hashIndex = db.hashIndex \ K(top)
      BY <1>3 DEF saved
    <2>3. \A c \in B \ {top} : K(c) \cap K(top) = {}
      OBVIOUS
    <2> HIDE DEF K
    <2> QED
      BY <1>1, <2>1, <2>2, <2>3
  <1>8. db'.timeIndex = {T(c) : c \in {d \in IndexedBlocks' : Eligible(TxsOf(d)) # {}}}
    <2>1. db.timeIndex = {T(c) : c \in {d \in B : Eligible(TxsOf(d)) # {}}}
      BY DEF StoreExact, B
    <2>2. db'.timeIndex = IF saved = {} THEN db.timeIndex ELSE db.timeIndex \ {T(top)}
      BY <1>2, <1>3
    <2>3. \A c \in B \ {top} : T(c) # T(top)
      BY <1>4
    <2> HIDE DEF T
    <2> QED
      BY <1>1, <2>1, <2>2, <2>3 DEF saved
  <1> QED
    BY <1>5, <1>6, <1>7, <1>8 DEF StoreExact

\* A rollback makes no output unspent.
LEMMA RollBackSpent ==
    ASSUME NEW S, db \in Stores(S), Contiguous(db), OnOneBranch(db), StoreSpent, RollBack
    PROVE  StoreSpent'
  <1>1. IndexedBlocks' \subseteq IndexedBlocks
    BY RollBackIndexed
  <1>2. db'.unspent \subseteq db.unspent
    BY RollBackEffect
  <1> QED
    BY <1>1, <1>2 DEF StoreSpent

-----------------------------------------------------------------------------
\* The base block's state brings no transactions.
LEMMA SaveBaseStateExact ==
    ASSUME NEW S, db \in Stores(S), IndexedHeights(db) = {}, StoreExact, NEW state,
           SaveBaseState(state)
    PROVE  StoreExact' /\ StoreSpent'
  <1>1. /\ db'.blockState = [db.blockState EXCEPT ![BaseHeight] = BaseBlock]
        /\ db'.tx = db.tx /\ db'.time = db.time /\ db'.heightIndex = db.heightIndex
        /\ db'.hashIndex = db.hashIndex /\ db'.timeIndex = db.timeIndex
    BY DEF SaveBaseState, SetState, Stores, BaseHeight
  <1>2. IndexedBlocks = {}
    BY DEF IndexedBlocks
  <1>3. IndexedBlocks' = {}
    <2>1. \A h \in IndexedHeights(db') : db'.blockState[h] = BaseBlock
      BY <1>1 DEF IndexedHeights, Stores
    <2>2. IndexedBlocks' = {db'.blockState[h] : h \in IndexedHeights(db')} \ {BaseBlock}
      BY DEF IndexedBlocks
    <2> QED
      BY <2>1, <2>2
  <1> QED
    BY <1>1, <1>2, <1>3 DEF StoreExact, StoreSpent, TransactionExact

\* setState types the store by the operation state it writes.
LEMMA SetStateStores ==
    ASSUME NEW S, NEW d \in Stores(S), NEW state, NEW b \in Blocks
    PROVE  SetState(d, state, b) \in Stores({state})
  BY LedgerTypes DEF Stores, SetState, Heights

\* A store without an operation state has no block states.
LEMMA SaveBaseStateInv ==
    ASSUME StoreInv, NEW state, state # NoState, SaveBaseState(state), db'.opState = state
    PROVE  StoreInv'
  <1>1. IndexedHeights(db) = {} /\ db \in Stores({db.opState})
    BY DEF StoreInv, StoreOnBranch, SaveBaseState, StoreTyped
  <1>2. db' = SetState(db, state, BaseBlock)
    BY DEF SaveBaseState
  <1>3. StoreTyped'
    BY <1>1, <1>2, LedgerTypes, SetStateStores DEF StoreTyped
  <1>4. Contiguous(db') /\ GetCurrentBlockState(db') = BaseBlock
    BY <1>1, <1>2, FirstBlockState
  <1>5. OnOneBranch(db')
    <2>1. \A h \in IndexedHeights(db') : h = BaseHeight
      BY <1>4, HeightType DEF Contiguous, BaseHeight
    <2>2. db'.blockState[BaseHeight] = BaseBlock /\ BaseBlock \in Lineage[BaseBlock]
      BY <1>4, LineageIsChain, LedgerTypes DEF Contiguous
    <2> QED
      BY <1>4, <2>1, <2>2 DEF OnOneBranch
  <1>6. StoreExact' /\ StoreSpent'
    BY <1>1, SaveBaseStateExact DEF StoreInv
  <1>7. UnspentAgrees(db')
    BY <1>1, <1>2, SetStateUnspent DEF StoreInv
  <1> QED
    BY <1>3, <1>4, <1>5, <1>6, <1>7 DEF StoreInv, StoreOnBranch

\* A block can only be a child of a block state there is.
LEMMA IndexBlockInv ==
    ASSUME StoreInv, NEW state, state # NoState, NEW b \in Blocks, IndexBlock(b, state),
           db'.opState = state
    PROVE  StoreInv'
  <1> DEFINE top == GetCurrentBlockState(db)
             d   == IndexTransactions(db, b, TxsOf(b), BlockTime(b))
  <1>1. /\ top \in Lineage[b] /\ Height[b] = Height[top] + 1
        /\ db' = SetState(d, state, b)
        /\ db \in Stores({db.opState})
    BY DEF IndexBlock, StoreInv, StoreTyped
  <1>2. Contiguous(db) /\ OnOneBranch(db)
    <2>1. top # NoBlock
      BY <1>1, LedgerTypes
    <2> QED
      BY <2>1 DEF StoreInv, StoreOnBranch, GetCurrentBlockState
  <1>3. TxsOf(b) \in SUBSET Txids /\ \A t \in TxsOf(b) : BlockTime(b)[t] \in Nat
    BY BlockTimeType
  <1>4. d \in Stores({db.opState}) /\ d.blockState = db.blockState /\ UnspentAgrees(d)
    BY <1>1, <1>3, IndexTransactionsType, IndexTransactionsStates, IndexTransactionsUnspent
    DEF StoreInv
  <1>5. StoreExact' /\ StoreSpent'
    BY <1>1, <1>2, IndexBlockExact, IndexBlockSpent DEF StoreInv
  <1> HIDE DEF d
  <1>6. StoreTyped'
    BY <1>1, <1>4, SetStateStores DEF StoreTyped
  <1>7. /\ Contiguous(d) /\ OnOneBranch(d) /\ GetCurrentBlockState(d) = top
    BY <1>2, <1>4 DEF OnOneBranch, Contiguous, GetCurrentBlockState, IndexedHeights
  <1>8. Contiguous(db') /\ OnOneBranch(db')
    <2>1. Height[b] = Height[GetCurrentBlockState(d)] + 1 /\ GetCurrentBlockState(d) \in Lineage[b]
      BY <1>1, <1>7
    <2>2. Contiguous(SetState(d, state, b))
      BY <1>4, <1>7, <2>1, AppendBlockState
    <2>3. OnOneBranch(SetState(d, state, b))
      BY <1>4, <1>7, <2>1, AppendOnOneBranch
    <2> QED
      BY <1>1, <2>2, <2>3
  <1>9. UnspentAgrees(db')
    BY <1>1, <1>4, SetStateUnspent
  <1> QED
    BY <1>5, <1>6, <1>8, <1>9 DEF StoreInv, StoreOnBranch

\* A rollback leaves the base block at least.
LEMMA RollBackInv ==
    ASSUME StoreInv, RollBack
    PROVE  StoreInv'
  <1> DEFINE top == GetCurrentBlockState(db)
  <1>1. top \in Blocks \ {BaseBlock} /\ db' = RemoveState(db, top) /\ db \in Stores({db.opState})
    BY DEF RollBack, StoreInv, StoreTyped
  <1>2. Contiguous(db) /\ OnOneBranch(db) /\ db.opState # NoState
    <2>1. top # NoBlock
      BY <1>1, LedgerTypes
    <2> QED
      BY <2>1 DEF StoreInv, StoreOnBranch, GetCurrentBlockState
  <1>3. db'.opState = db.opState /\ db' \in Stores({db.opState})
    BY <1>1, RemoveStateStates, RemoveStateType
  <1>4. Contiguous(db') /\ OnOneBranch(db')
    BY <1>1, <1>2, RemoveTopBlockState, RemoveOnOneBranch
  <1>5. UnspentAgrees(db')
    BY <1>1, RemoveStateUnspent DEF StoreInv
  <1>6. StoreExact' /\ StoreSpent'
    BY <1>1, <1>2, RollBackExact, RollBackSpent DEF StoreInv
  <1> QED
    BY <1>2, <1>3, <1>4, <1>5, <1>6 DEF StoreInv, StoreOnBranch, StoreTyped

\* Every step of the store keeps the invariant.
LEMMA StoreStepExact ==
    ASSUME StoreInv, [StoreNext(db'.opState)]_db
    PROVE  StoreInv'
  <1>1. CASE UNCHANGED db
    BY <1>1 DEF StoreInv, StoreTyped, StoreOnBranch, StoreExact, StoreSpent, TransactionExact,
                IndexedBlocks
  <1>2. CASE db'.opState # NoState /\ SaveBaseState(db'.opState)
    BY <1>2, SaveBaseStateInv
  <1>3. ASSUME db'.opState # NoState, NEW b \in Blocks, IndexBlock(b, db'.opState)
        PROVE  StoreInv'
    BY <1>3, IndexBlockInv
  <1>4. CASE RollBack
    BY <1>4, RollBackInv
  <1> QED
    BY <1>1, <1>2, <1>3, <1>4 DEF StoreNext

\* The empty store satisfies it.
LEMMA StoreInitInv ==
    ASSUME StoreInit
    PROVE  StoreInv
  <1> USE DEF StoreInit
  <1>1. IndexedHeights(db) = {} /\ db.opState = NoState
    BY DEF EmptyStore, IndexedHeights
  <1>2. IndexedBlocks = {}
    BY <1>1 DEF IndexedBlocks
  <1>3. StoreTyped
    BY DEF StoreTyped, EmptyStore, Stores, OutputStatus
  <1>4. UnspentAgrees(db)
    <2>1. \A o \in Outpoints : db.output[o] = "absent"
      BY DEF EmptyStore
    <2>2. \A o \in Outpoints : o[1] \in Txids
      BY DEF Outpoints
    <2>3. db.unspent = {} /\ \A t \in Txids : db.tx[t] = NoBlock
      BY DEF EmptyStore
    <2> QED
      BY <2>1, <2>2, <2>3 DEF UnspentAgrees
  <1>5. StoreExact /\ StoreSpent
    <2>1. /\ \A t \in Txids : db.tx[t] = NoBlock /\ db.time[t] = 0
          /\ db.heightIndex = {} /\ db.hashIndex = {} /\ db.timeIndex = {}
      BY DEF EmptyStore
    <2> QED
      BY <1>2, <2>1 DEF StoreExact, StoreSpent, TransactionExact
  <1> QED
    BY <1>1, <1>3, <1>4, <1>5 DEF StoreInv, StoreOnBranch

\* The store the readers find is exact and marks every spent output, whatever
\* commits and rollbacks it has been through, for every block tree.
THEOREM StoreInvariance == StoreSpec => []StoreInv
  BY StoreInitInv, StoreStepExact, PTL DEF StoreSpec

=============================================================================
