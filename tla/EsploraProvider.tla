--------------------------- MODULE EsploraProvider ---------------------------
(***************************************************************************)
(* The indexer on an Esplora server: sync() fetches a block's txids, then  *)
(* its transactions in groups of BatchSize, and commits and announces each *)
(* group by itself.  lastProcessedTxIndex, kept in the operation state, is *)
(* meant to resume a block where an interrupted sync left it.              *)
(***************************************************************************)
EXTENDS BlockDataProvider

CONSTANT BatchSize  \* esplora.batchSize

ASSUME BatchSizeIsPositive == BatchSize \in Nat \ {0}

\* currentBlockHeight is written once, as 0, and never read: left out.
OpStates == [indexedBlockHeight : Nat, lastProcessedTxIndex : Nat]

ASSUME NoStateIsNone == NoState \notin OpStates

\* Fault: the index before the coinbase's.
InitialStateBeforeCoinbase == [indexedBlockHeight |-> BaseHeight, lastProcessedTxIndex |-> -1]

InitialState == [indexedBlockHeight |-> BaseHeight, lastProcessedTxIndex |-> 0]

BootstrapCommits == SaveInitialState(InitialState)

\* txids[0] is the coinbase, so that the index i of a txid in the block is its
\* index in BlockTxs: the loop variable of processBlock, always one more than
\* the lastProcessedTxIndex of the local state.
NextTxIndex(r) == sync[r].state.lastProcessedTxIndex + 1

LastOfBatch(r) ==
    Min({NextTxIndex(r) + BatchSize - 1, Len(BlockTxs[sync[r].block])})

TxBatch(r) ==
    {BlockTxs[sync[r].block][i] : i \in NextTxIndex(r)..LastOfBatch(r)}

\* The head of processBlock's loop: another batch, or the next block.
ContinueBlock(r) ==
    IF NextTxIndex(r) <= Len(BlockTxs[sync[r].block])
    THEN /\ sync' = [sync EXCEPT ![r].phase = "txs"]
         /\ UNCHANGED isSyncing
    ELSE ContinueAt(r, sync[r].height + 1)

AnswerTxids(r) ==
    /\ sync[r].phase = "block"
    /\ ContinueBlock(r)
    /\ UNCHANGED <<tip, strayed, db, boot, silentBlock>>

\* A node's record of t: the time of the block of its branch that mined t.  Of a
\* transaction no longer mined it gives none, which is written as 0.
StatusTime(best, t) ==
    IF \E b \in Lineage[best] : t \in TxsOf(b)
    THEN Time[CHOOSE b \in Lineage[best] : t \in TxsOf(b)]
    ELSE 0

\* getTx of one transaction of the group is answered, from the branch the node is
\* on by then; the node may also know nothing of it, and the request fails.
AnswerTx(r, t) ==
    /\ sync[r].phase = "txs"
    /\ t \in TxBatch(r)
    /\ sync[r].times[t] = NotAnswered
    /\ sync' = [sync EXCEPT ![r].times[t] = StatusTime(tip, t)]
    /\ UNCHANGED <<tip, strayed, db, boot, isSyncing, silentBlock>>

AllAnswered(r) == \A t \in TxBatch(r) : sync[r].times[t] # NotAnswered

\* Fault: the operation state alone is saved with a batch.
CommitTxBatchWithoutBlockState(r) ==
    /\ sync[r].phase = "txs" /\ AllAnswered(r)
    /\ LET b     == sync[r].block
           state == [indexedBlockHeight   |-> sync[r].height,
                     lastProcessedTxIndex |-> NextTxIndex(r) + BatchSize - 1]
       IN  /\ db' = [IndexTransactions(db, b, TxBatch(r), sync[r].times) EXCEPT !.opState = state]
           /\ sync' = [sync EXCEPT ![r].phase = "emit", ![r].state = state, ![r].times = Idle.times]
    /\ UNCHANGED <<tip, strayed, boot, isSyncing, silentBlock>>

\* Every getTx of the group answered: index it and save both states.
CommitTxBatch(r) ==
    /\ sync[r].phase = "txs" /\ AllAnswered(r)
    /\ LET b     == sync[r].block
           state == [indexedBlockHeight   |-> sync[r].height,
                     lastProcessedTxIndex |-> NextTxIndex(r) + BatchSize - 1]
       IN  /\ db' = SetState(IndexTransactions(db, b, TxBatch(r), sync[r].times), state, b)
           /\ sync' = [sync EXCEPT ![r].phase = "emit", ![r].state = state, ![r].times = Idle.times]
    /\ UNCHANGED <<tip, strayed, boot, isSyncing, silentBlock>>

EmitIndexedBlock(r) ==
    /\ sync[r].phase = "emit"
    /\ Broadcast(sync[r].height)
    /\ ContinueBlock(r)
    /\ UNCHANGED <<tip, strayed, db, boot>>

-----------------------------------------------------------------------------
\* processBlock reads the operation state again for each block.
SyncStep(r) ==
    \/ NextSyncStep(r)
    \/ AnswerBlockHash(r, db.opState)
    \/ AnswerTxids(r)
    \/ \E t \in Txids : AnswerTx(r, t)
    \/ CommitTxBatch(r)
    \/ EmitIndexedBlock(r)

Init == BaseInit

Next ==
    \/ \E b \in Blocks : NodeAdvances(b)
    \/ StartProcess
    \/ BootstrapCommits
    \/ Crash
    \/ \E r \in Syncs : SyncStep(r)

Spec == Init /\ [][Next]_vars

\* A request in flight is answered or fails: makeRequest ends either way.  Weaker
\* than for the Bitcoin Core provider; nothing is assumed of how often one fails.
Fairness == WF_vars(\E r \in Syncs : SyncStep(r))

FairSpec == Spec /\ Fairness

-----------------------------------------------------------------------------
(* Properties *)

\* Every variable holds values of its type.
TypeOK == TypeInvariant(OpStates)

\* No transaction is served that the reorg trace could not take away again: a
\* saved transaction is one of a block whose block state is kept, under whose
\* hash it is found.
SavedFromIndexed ==
    \A t \in Txids : db.tx[t] # NoBlock =>
        /\ db.tx[t] \in IndexedBlocks
        /\ t \in TxsOf(db.tx[t])
        /\ <<db.tx[t], t>> \in db.hashIndex

\* The three indexes name saved transactions only, under their block's keys and
\* their own record's time, which need not be their block's.  A transaction saved
\* again from a block of another branch keeps its old entries.
IndexesAgree ==
    /\ \A e \in db.hashIndex : db.tx[e[2]] = e[1]
    /\ db.heightIndex = {<<Height[e[1]], e[2]>> : e \in db.hashIndex}
    /\ db.timeIndex = {<<db.time[e[2]], Height[e[1]]>> : e \in db.hashIndex}

\* What the endpoints read is what the reorg trace can find and take away: the
\* records always, the indexes unless the node has strayed.
IndexSound == SavedFromIndexed /\ (~strayed => IndexesAgree)

NoSpentServed ==
    \A t \in Txids : db.tx[t] # NoBlock => Spends[t] \cap db.unspent = {}

\* No output that a saved transaction spends is served as unspent, whether it was
\* saved in the same batch, in an earlier one or in an earlier block, unless the
\* node has strayed: an output saved again after its spender is unspent.
SpentBySaved == ~strayed => NoSpentServed

\* Every sync that has sent its first request comes to an end, whatever fails in
\* it, and so a later tick of the cron job finds the flag cleared.
SyncEnds == (\E r \in Syncs : sync[r].phase # "idle") ~> ~isSyncing

-----------------------------------------------------------------------------
(* The inductive invariant *)

\* The block states, of which an Esplora sync may leave out heights: those whose
\* transactions lastProcessedTxIndex passes over.
StatesStacked ==
    IF db.opState = NoState
    THEN IndexedHeights(db) = {}
    ELSE Stacked(db) /\ \A h \in IndexedHeights(db) : h <= Height[tip]

\* What an invocation remembers across its requests is still so in the store.
SyncConsistent(r) ==
    LET s   == sync[r]
        top == GetCurrentBlockState(db)
    IN  /\ s.phase # "idle" => isSyncing /\ boot = "done" /\ s.state = db.opState
        /\ s.phase \notin {"idle", "tip"} => s.tipHeight <= Height[tip]
        /\ s.phase \in {"trace", "traced"} => s.current = top
        /\ s.phase = "traced" => s.block \in Blocks /\ Height[s.block] = Height[top]
        /\ s.phase = "hash" =>
              /\ s.block \in Blocks /\ Height[top] <= Height[s.block]
              /\ s.height = Height[s.block] + 1 /\ s.height <= s.tipHeight
        /\ s.phase \in {"block", "txs", "emit"} =>
              /\ s.block \in Blocks /\ Height[s.block] = s.height
              /\ BaseHeight < s.height /\ s.height <= s.tipHeight
        /\ s.phase = "block" => Height[top] < s.height
        /\ s.phase = "txs" =>
              /\ s.block = top \/ Height[top] < s.height
              /\ NextTxIndex(r) <= Len(BlockTxs[s.block])
        /\ s.phase = "emit" => s.block = top

\* Of the block being indexed only groups up to lastProcessedTxIndex are saved.
GroupsInOrder(r) ==
    sync[r].phase \in {"txs", "emit"} =>
        \A t \in Txids : db.tx[t] = sync[r].block =>
            \E i \in DOMAIN BlockTxs[sync[r].block] :
                BlockTxs[sync[r].block][i] = t /\ i < NextTxIndex(r)

IndInv ==
    /\ TypeOK
    /\ AtMostOneSync
    /\ UnspentIndexAgrees
    /\ BootConsistent
    /\ StatesStacked
    /\ SavedFromIndexed
    /\ \A r \in Syncs : SyncConsistent(r) /\ GroupsInOrder(r)

\* While the node does not leave the branch of a sync in flight, the hash the
\* sync relies on is on the node's branch and on that of the indexed blocks.
SyncLinked(r) ==
    LET s   == sync[r]
        top == GetCurrentBlockState(db)
    IN  /\ s.phase = "traced" /\ s.block = s.current => s.block \in Lineage[tip]
        /\ s.phase = "hash" => s.block \in Lineage[tip]
        /\ s.phase \in {"hash", "block", "txs"} => top \in Lineage[s.block]
        /\ s.phase \in {"block", "txs", "emit"} /\ s.height < s.tipHeight =>
              s.block \in Lineage[tip]

LinkedInv ==
    ~strayed => /\ OnOneBranch(db)
                /\ \A r \in Syncs : SyncLinked(r)
                /\ IndexesAgree
                /\ NoSpentServed

-----------------------------------------------------------------------------
(* What the documentation promises *)

\* docs/design.md: "serve a silent payment index for each block".  When the
\* operation state says that the current block's last transaction has been
\* processed, every eligible transaction of it is served.
EachTransactionServed ==
    LET b == GetCurrentBlockState(db)
    IN  (/\ b \in IndexedBlocks
         /\ db.opState.lastProcessedTxIndex >= Len(BlockTxs[b])) =>
            \A t \in Eligible(TxsOf(b)) : db.tx[t] = b

=============================================================================
