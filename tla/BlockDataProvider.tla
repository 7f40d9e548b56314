-------------------------- MODULE BlockDataProvider --------------------------
(***************************************************************************)
(* What the two block data providers share: the node that answers their    *)
(* requests, the process with its cold start, the scheduled sync with its  *)
(* isSyncing flag, and the reorg trace of BaseBlockDataProvider.  A step   *)
(* is the code that runs between two awaited requests: JavaScript runs it  *)
(* to the end, the reads and writes of the store included.                 *)
(***************************************************************************)
EXTENDS BlockStore

CONSTANT Syncs  \* invocations of sync() that may be in flight together

VARIABLES
    tip,         \* the node's best block
    strayed,     \* has the node left the branch a sync in flight relied on?  Only
                 \* properties read it
    boot,        \* the process: "down", "hash" (awaiting the base block's hash), "done"
    isSyncing,   \* the provider's flag
    sync,        \* sync[r]: the local state of invocation r
    silentBlock  \* the silent block last broadcast to the clients, with its height

vars == <<tip, strayed, db, boot, isSyncing, sync, silentBlock>>

\* Where an invocation is suspended: "tip" in getTipHeight, "trace" in the
\* getBlockHash of traceReorg and "traced" at its answer, "hash" in the sync's
\* own getBlockHash, "block" while it fetches the block (at Esplora its txids),
\* "txs" while it fetches a batch of transactions, "emit" past the commit.
Phases == {"idle", "tip", "trace", "traced", "hash", "block", "txs", "emit"}

\* Not the time of a transaction: the node has not answered for it.
NotAnswered == -1

Idle == [ phase     |-> "idle",
          state     |-> NoState,   \* the operation state read at the start
          tipHeight |-> 0,
          current   |-> NoBlock,   \* the block state traceReorg compares
          height    |-> 0,
          block     |-> NoBlock,   \* the last block hash the node answered
          times     |-> [t \in Txids |-> NotAnswered] ]  \* of the batch being fetched

SyncLocals(OpStates) ==
    [ phase     : Phases,
      state     : OpStates \cup {NoState},
      tipHeight : Nat,
      current   : Blocks \cup {NoBlock},
      height    : Nat,
      block     : Blocks \cup {NoBlock},
      times     : [Txids -> Nat \cup {NotAnswered}] ]

SilentBlocks == [height : Nat, txs : SUBSET [id : Txids, outputs : SUBSET Outpoints]]

NoSilentBlock == [height |-> 0, txs |-> {}]

BaseInit ==
    /\ tip \in Blocks
    /\ strayed = FALSE
    /\ StoreInit
    /\ boot = "down"
    /\ isSyncing = FALSE
    /\ sync = [r \in Syncs |-> Idle]
    /\ silentBlock = NoSilentBlock

-----------------------------------------------------------------------------
(* The node *)

\* Invocation r has compared, or been told, a hash of the node's branch and
\* goes on to ask for greater heights: would b as the best block keep it sound?
BuildsOn(r, b) ==
    CASE sync[r].phase = "traced" -> sync[r].block = sync[r].current =>
                                        sync[r].current \in Lineage[b]
      [] sync[r].phase = "hash"   -> sync[r].block \in Lineage[b]
      [] sync[r].phase \in {"block", "txs", "emit"} ->
            sync[r].height < sync[r].tipHeight => sync[r].block \in Lineage[b]
      [] OTHER -> TRUE

\* The best block changes for a higher one, on the same branch or another.
NodeAdvances(b) ==
    /\ Height[b] > Height[tip]
    /\ tip' = b
    /\ strayed' = (strayed \/ \E r \in Syncs : ~BuildsOn(r, b))
    /\ UNCHANGED <<db, boot, isSyncing, sync, silentBlock>>

-----------------------------------------------------------------------------
(* The process *)

StartProcess ==
    /\ boot = "down"
    /\ boot' = IF db.opState = NoState THEN "hash" ELSE "done"
    /\ UNCHANGED <<tip, strayed, db, isSyncing, sync, silentBlock>>

\* The rest of onApplicationBootstrap, the base block's hash answered.
SaveInitialState(initialState) ==
    /\ boot = "hash"
    /\ boot' = "done"
    /\ db' = SetState(db, initialState, BlockAt(tip, BaseHeight))
    /\ UNCHANGED <<tip, strayed, isSyncing, sync, silentBlock>>

\* The process ends, also because the bootstrap's request failed: only the
\* store survives.
Crash ==
    /\ boot # "down"
    /\ boot' = "down"
    /\ isSyncing' = FALSE
    /\ sync' = [r \in Syncs |-> Idle]
    /\ UNCHANGED <<tip, strayed, db, silentBlock>>

-----------------------------------------------------------------------------
(* sync() *)

\* The finally clause.
FinishSync(r) ==
    /\ isSyncing' = FALSE
    /\ sync' = [sync EXCEPT ![r] = Idle]

\* The for loop's head: fetch the block at height h, or fall out of the loop.
ContinueAt(r, h) ==
    \/ /\ h <= sync[r].tipHeight
       /\ sync' = [sync EXCEPT ![r].phase = "hash", ![r].height = h]
       /\ UNCHANGED isSyncing
    \/ /\ h > sync[r].tipHeight
       /\ FinishSync(r)

\* Fault: isSyncing is not consulted.
UnguardedCronFires(r) ==
    /\ boot # "down"
    /\ sync[r].phase = "idle"

\* @nestjs/schedule ticks from its own bootstrap hook on: perhaps before that of
\* the provider has ended.
CronFires(r) ==
    /\ boot # "down"
    /\ sync[r].phase = "idle"
    /\ ~isSyncing

StartSync(r) ==
    /\ CronFires(r)
    /\ db.opState # NoState
    /\ isSyncing' = TRUE
    /\ sync' = [sync EXCEPT ![r] = [Idle EXCEPT !.phase = "tip", !.state = db.opState]]
    /\ UNCHANGED <<tip, strayed, db, boot, silentBlock>>

\* "State not found" is thrown before the try block: the flag stays set.
StateNotFound(r) ==
    /\ CronFires(r)
    /\ db.opState = NoState
    /\ isSyncing' = TRUE
    /\ UNCHANGED <<tip, strayed, db, boot, sync, silentBlock>>

NoNewBlocks(r) ==
    /\ sync[r].phase = "tip"
    /\ Height[tip] <= sync[r].state.indexedBlockHeight
    /\ FinishSync(r)
    /\ UNCHANGED <<tip, strayed, db, boot, silentBlock>>

\* getTipHeight answered (and, at Bitcoin Core, getNetworkInfo, which changes
\* nothing): traceReorg reads the block state and asks for the hash at its
\* height.  Without a block state it answers null at once.
NewBlocksFound(r) ==
    /\ sync[r].phase = "tip"
    /\ Height[tip] > sync[r].state.indexedBlockHeight
    /\ LET current == GetCurrentBlockState(db)
           next    == sync[r].state.indexedBlockHeight + 1
           located == [sync[r] EXCEPT !.tipHeight = Height[tip], !.current = current]
       IN  sync' = [sync EXCEPT ![r] =
                      IF current = NoBlock
                      THEN [located EXCEPT !.phase = "hash", !.height = next]
                      ELSE [located EXCEPT !.phase = "trace"]]
    /\ UNCHANGED <<tip, strayed, db, boot, isSyncing, silentBlock>>

\* The node answers traceReorg's getBlockHash; its best block may change again
\* before the answer is looked at.
AnswerTrace(r) ==
    /\ sync[r].phase = "trace"
    /\ sync' = [sync EXCEPT ![r].phase = "traced",
                            ![r].block = BlockAt(tip, Height[sync[r].current])]
    /\ UNCHANGED <<tip, strayed, db, boot, isSyncing, silentBlock>>

\* Fault: the loop starts from the operation state, the traced height ignored.
TraceMatchesFromState(r) ==
    /\ sync[r].phase = "traced"
    /\ sync[r].block = sync[r].current
    /\ ContinueAt(r, sync[r].state.indexedBlockHeight + 1)
    /\ UNCHANGED <<tip, strayed, db, boot, silentBlock>>

TraceMatches(r) ==
    /\ sync[r].phase = "traced"
    /\ sync[r].block = sync[r].current
    /\ ContinueAt(r, Height[sync[r].current] + 1)
    /\ UNCHANGED <<tip, strayed, db, boot, silentBlock>>

\* Fault: one mismatch is rolled back and the trace ends there.
TraceMismatchesOnce(r) ==
    /\ sync[r].phase = "traced"
    /\ sync[r].block # sync[r].current
    /\ db' = RemoveState(db, sync[r].current)
    /\ ContinueAt(r, Height[sync[r].current])
    /\ UNCHANGED <<tip, strayed, boot, silentBlock>>

\* removeState, then the next block state down; with none left traceReorg throws.
TraceMismatches(r) ==
    /\ sync[r].phase = "traced"
    /\ sync[r].block # sync[r].current
    /\ db' = RemoveState(db, sync[r].current)
    /\ LET current == GetCurrentBlockState(db')
       IN  IF current = NoBlock
           THEN FinishSync(r)
           ELSE /\ sync' = [sync EXCEPT ![r].phase = "trace", ![r].current = current]
                /\ UNCHANGED isSyncing
    /\ UNCHANGED <<tip, strayed, boot, silentBlock>>

\* The sync's own getBlockHash is answered; state is the local operation state
\* from here on.
AnswerBlockHash(r, state) ==
    /\ sync[r].phase = "hash"
    /\ sync' = [sync EXCEPT ![r].phase = "block",
                            ![r].state = state,
                            ![r].block = BlockAt(tip, sync[r].height)]
    /\ UNCHANGED <<tip, strayed, db, boot, isSyncing, silentBlock>>

\* A request is awaited, or a batch is about to be committed.
MayFail(r) ==
    \/ sync[r].phase \in {"tip", "trace", "hash", "block", "txs"}
    \/ sync[r].phase = "traced" /\ sync[r].block # sync[r].current

\* Fault: the flag is cleared on success only.
RequestFailsKeepFlag(r) ==
    /\ MayFail(r)
    /\ sync' = [sync EXCEPT ![r] = Idle]
    /\ UNCHANGED <<tip, strayed, db, boot, isSyncing, silentBlock>>

\* A request has failed for good, its retries included, or a batch was discarded:
\* the error propagates out of sync() through the finally clause.
RequestFails(r) ==
    /\ MayFail(r)
    /\ FinishSync(r)
    /\ UNCHANGED <<tip, strayed, db, boot, silentBlock>>

\* INDEXED_BLOCK_EVENT: handleBlockIndexedEvent reads the store and broadcasts,
\* spent outputs included, before any other callback runs.
Broadcast(h) ==
    silentBlock' = [height |-> h, txs |-> GetTransactionsByBlockHeight(db, h, FALSE)]

NextSyncStep(r) ==
    \/ StartSync(r)
    \/ StateNotFound(r)
    \/ NoNewBlocks(r)
    \/ NewBlocksFound(r)
    \/ AnswerTrace(r)
    \/ TraceMatches(r)
    \/ TraceMismatches(r)
    \/ RequestFails(r)

-----------------------------------------------------------------------------
(* Properties of both providers *)

\* Every variable holds values of its type.
TypeInvariant(OpStates) ==
    /\ tip \in Blocks
    /\ strayed \in BOOLEAN
    /\ db \in Stores(OpStates)
    /\ boot \in {"down", "hash", "done"}
    /\ isSyncing \in BOOLEAN
    /\ sync \in [Syncs -> SyncLocals(OpStates)]
    /\ silentBlock \in SilentBlocks

\* A tick of the cron job that finds a sync in flight does not start another,
\* whatever that sync awaits, has failed on or has committed.
AtMostOneSync ==
    \A r, s \in Syncs : sync[r].phase # "idle" /\ sync[s].phase # "idle" => r = s

\* A process past its bootstrap has states to start from.
BootConsistent ==
    /\ boot = "hash" => db.opState = NoState
    /\ boot = "done" => db.opState # NoState

\* The unspent index, which filterSpent trusts, and the isSpent byte of the
\* output records never disagree, and no output outlives its transaction:
\* saves, same-block spends, respends and rollbacks all maintain both.
UnspentIndexAgrees == UnspentAgrees(db)

\* The block states are one branch of the tree, unless the node has changed
\* branch under a sync in flight: sync() compares no previous hash and
\* relies on traceReorg alone.
Linked == ~strayed => OnOneBranch(db)

\* Only a rollback step of the reorg trace takes a block state away, and only
\* that of the topmost height, after the node has answered another hash for it:
\* no failure, crash or commit loses or replaces an indexed block.
KeepsBelowTop ==
    \A h \in Heights :
        db.blockState'[h] # db.blockState[h] /\ db.blockState[h] # NoBlock =>
            /\ h = Max(IndexedHeights(db))
            /\ db.blockState'[h] = NoBlock
            /\ db.opState' = db.opState
            /\ \E r \in Syncs : /\ sync[r].phase = "traced"
                               /\ sync[r].current = db.blockState[h]
                               /\ sync[r].block # db.blockState[h]

OnlyTopRolledBack == [][KeepsBelowTop]_vars

\* The index has caught up with the node's best block.
InSync == GetCurrentBlockState(db) = tip

=============================================================================
