------------------------- MODULE BitcoinCoreProvider -------------------------
(***************************************************************************)
(* The indexer on a Bitcoin Core node: sync() indexes one block per batch  *)
(* and announces it once the batch is committed.                           *)
(***************************************************************************)
EXTENDS BlockDataProvider

OpStates == [indexedBlockHeight : Nat]

ASSUME NoStateIsNone == NoState \notin OpStates

\* Fault: one block below the base block.
InitialStateBelowBase == [indexedBlockHeight |-> BaseHeight - 1]

InitialState == [indexedBlockHeight |-> BaseHeight]

BootstrapCommits == SaveInitialState(InitialState)

\* getBlock answered: index the block's transactions, mark the spent outputs
\* and move both states, in one batch.
CommitBlock(r) ==
    /\ sync[r].phase = "block"
    /\ LET b     == sync[r].block
           state == [sync[r].state EXCEPT !.indexedBlockHeight = sync[r].height]
       IN  /\ db' = SetState(IndexTransactions(db, b, TxsOf(b), BlockTime(b)), state, b)
           /\ sync' = [sync EXCEPT ![r].phase = "emit", ![r].state = state]
    /\ UNCHANGED <<tip, strayed, boot, isSyncing, silentBlock>>

\* Fault: the event is emitted after the loop, for its last block.
EmitLastBlock(r) ==
    /\ sync[r].phase = "emit"
    /\ IF sync[r].height = sync[r].tipHeight
       THEN Broadcast(sync[r].height)
       ELSE UNCHANGED silentBlock
    /\ ContinueAt(r, sync[r].height + 1)
    /\ UNCHANGED <<tip, strayed, db, boot>>

EmitIndexedBlock(r) ==
    /\ sync[r].phase = "emit"
    /\ Broadcast(sync[r].height)
    /\ ContinueAt(r, sync[r].height + 1)
    /\ UNCHANGED <<tip, strayed, db, boot>>

-----------------------------------------------------------------------------
SyncStep(r) ==
    \/ NextSyncStep(r)
    \/ AnswerBlockHash(r, sync[r].state)
    \/ CommitBlock(r)
    \/ EmitIndexedBlock(r)

Init == BaseInit

Next ==
    \/ \E b \in Blocks : NodeAdvances(b)
    \/ StartProcess
    \/ BootstrapCommits
    \/ Crash
    \/ \E r \in Syncs : SyncStep(r)

Spec == Init /\ [][Next]_vars

-----------------------------------------------------------------------------
(* Fairness: the cron job keeps firing, a process that ended is started     *)
(* again, and a request that is made over and over is answered eventually,  *)
(* at whichever point of a sync; nothing is assumed of failures, crashes or *)
(* the node's choice of blocks.                                             *)

Fairness ==
    /\ WF_vars(StartProcess)
    /\ SF_vars(BootstrapCommits)
    /\ SF_vars(\E r \in Syncs : StartSync(r))
    /\ SF_vars(\E r \in Syncs : NoNewBlocks(r) \/ NewBlocksFound(r))
    /\ SF_vars(\E r \in Syncs : AnswerTrace(r))
    /\ SF_vars(\E r \in Syncs : TraceMatches(r) \/ TraceMismatches(r))
    /\ SF_vars(\E r \in Syncs : AnswerBlockHash(r, sync[r].state))
    /\ SF_vars(\E r \in Syncs : CommitBlock(r))
    /\ WF_vars(\E r \in Syncs : EmitIndexedBlock(r))

FairSpec == Spec /\ Fairness

-----------------------------------------------------------------------------
(* Properties *)

\* Every variable holds values of its type.
TypeOK == TypeInvariant(OpStates)

\* traceReorg walks down the block states of every height from the base to the
\* current one, which is not above what the operation state or the node has
\* reached; the base block is never rolled back, so that the trace never
\* exhausts them and no height is left out when the loop resumes above it.
GapFree ==
    IF db.opState = NoState
    THEN IndexedHeights(db) = {}
    ELSE /\ Contiguous(db)
         /\ Height[GetCurrentBlockState(db)] <= db.opState.indexedBlockHeight
         /\ db.opState.indexedBlockHeight <= Height[tip]

\* The transaction records and the three indexes the endpoints read are those
\* of the indexed blocks and nothing else, unless the node has strayed: no
\* transaction of a rolled back block remains in one of them, none that was
\* mined again is lost.
IndexExact == ~strayed => StoreExact

\* An output some indexed block spends is not served as unspent, whichever block
\* created it and whether or not the spending transaction is eligible.
SpentMarked == ~strayed => StoreSpent

\* The outputs in what the clients were last sent.
SentOutputs == UNION {r.outputs : r \in silentBlock.txs}

\* What the clients are sent after a commit holds every unspent output of the block
\* indexed at that height, and no output of another block unless the node has
\* strayed: a transaction saved from two branches leaves its older entry in the
\* height index.  Of the block's spent outputs nothing is said: the code sends
\* them, docs/design.md:29 leaves them out.
BroadcastOfBlock ==
    [][silentBlock' # silentBlock =>
          LET outputs == OutpointsOf(TxsOf(db.blockState[silentBlock'.height]))
          IN  /\ outputs \cap db.unspent \subseteq SentOutputs'
              /\ ~strayed => SentOutputs' \subseteq outputs]_vars

\* The indexer as the clients see it, its spent flags aside, implements ChainView:
\* commits append a child block, the reorg trace takes the last block off, and
\* crashes, failed requests and repeated syncs show nothing.
View == INSTANCE ChainView WITH
            view    <- GetCurrentBlockState(db),
            served  <- [h \in Heights |-> {t \in Txids : <<h, t>> \in db.heightIndex}],
            strayed <- strayed
ImplementsChainView == View!Spec

\* The store, of which the endpoints are modelled, changes as BlockStore says:
\* block by block, each a child of the one before, until the node strays.
ImplementsBlockStore == StoreInit /\ [][StoreNext(db'.opState) \/ strayed']_db

\* A tick of the cron job that came before the bootstrap's end: it throws with
\* the flag set, which stays so until the process ends.
EarlyTick == boot = "hash" /\ isSyncing

\* The index catches up with the node's best block and stays with it, whatever
\* fails and however often the process ends, branch changes under a sync
\* included, unless a tick comes before the bootstrap's end.
CatchesUp == []~EarlyTick => <>[]InSync

\* The clients have been sent the block at b's height, with b's unspent outputs.
Announced(b) ==
    /\ silentBlock.height = Height[b]
    /\ OutpointsOf(TxsOf(b)) \cap db.unspent \subseteq SentOutputs

\* A committed block is announced to the clients, unless the process ends first:
\* then it never is, as the next process finds it indexed.
CommitAnnounced ==
    \A b \in Blocks : (\E r \in Syncs : sync[r].phase = "emit" /\ sync[r].block = b)
                       ~> (Announced(b) \/ boot = "down")

-----------------------------------------------------------------------------
(* The inductive invariant *)

\* What an invocation remembers across its requests is still so in the store.
SyncConsistent(r) ==
    LET s   == sync[r]
        top == GetCurrentBlockState(db)
    IN  /\ s.phase # "txs"
        /\ s.phase # "idle" =>
              isSyncing /\ boot = "done" /\ s.state = db.opState
        /\ s.phase \notin {"idle", "tip"} => s.tipHeight <= Height[tip]
        /\ s.phase \in {"trace", "traced"} => s.current = top
        /\ s.phase = "traced" => s.block \in Blocks /\ Height[s.block] = Height[top]
        /\ s.phase = "hash" => s.block = top
        /\ s.phase \in {"hash", "block"} =>
              s.height = Height[top] + 1 /\ s.height <= s.tipHeight
        /\ s.phase = "block" => s.block \in Blocks /\ Height[s.block] = s.height
        /\ s.phase = "emit" => s.block = top /\ s.height = Height[top]

\* While the node does not leave the branch of a sync in flight, the hash the
\* sync relies on is on the node's branch and on that of the indexed blocks.
SyncLinked(r) ==
    LET s == sync[r]
    IN  /\ s.phase = "traced" /\ s.block = s.current => s.block \in Lineage[tip]
        /\ s.phase = "hash" => s.block \in Lineage[tip]
        /\ s.phase = "block" => GetCurrentBlockState(db) \in Lineage[s.block]
        /\ s.phase \in {"block", "emit"} /\ s.height < s.tipHeight =>
              s.block \in Lineage[tip]

IndInv ==
    /\ TypeOK
    /\ AtMostOneSync
    /\ UnspentIndexAgrees
    /\ BootConsistent
    /\ GapFree
    /\ \A r \in Syncs : SyncConsistent(r)

LinkedInv ==
    ~strayed => /\ OnOneBranch(db)
                /\ \A r \in Syncs : SyncLinked(r)

\* Until it is announced a committed block stays as it was saved.
CommittedSaved ==
    \A r \in Syncs : sync[r].phase = "emit" =>
        \A t \in Eligible(TxsOf(sync[r].block)) :
            db.tx[t] = sync[r].block /\ <<sync[r].height, t>> \in db.heightIndex

-----------------------------------------------------------------------------
(* What the documentation promises *)

\* docs/design.md: "serve a silent payment index for each block".  Once the
\* index has reached the node's best block, every block below it is indexed.
EachBlockServed ==
    InSync => \A b \in Lineage[tip] : db.blockState[Height[b]] = b

\* docs/design.md: the silent block contains "everything that a silent payment
\* wallet needs to scan and spend outputs".  Once the index has reached the
\* node's best block, an output no block of the branch spends is served.
UnspentServed ==
    InSync => \A b \in IndexedBlocks :
        OutpointsOf(TxsOf(b)) \ UNION {SpentBy(TxsOf(c)) : c \in IndexedBlocks}
            \subseteq db.unspent

=============================================================================
