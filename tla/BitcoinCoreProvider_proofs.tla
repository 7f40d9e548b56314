--------------------- MODULE BitcoinCoreProvider_proofs ---------------------
(***************************************************************************)
(* The invariant IndInv of the Bitcoin Core provider is inductive, for     *)
(* every block tree and number of ticks; the safety theorems that follow   *)
(* from it, what the provider keeps while the node does not leave the      *)
(* branch of a sync in flight, and what no step of it does in any case.    *)
(***************************************************************************)
EXTENDS BitcoinCoreProvider, BlockStore_proofs

-----------------------------------------------------------------------------
(* Consequences of the invariant used by every step *)

\* While one invocation is in flight the others are not.
LEMMA OthersIdle ==
    ASSUME AtMostOneSync, NEW r \in Syncs, sync[r].phase # "idle"
    PROVE  \A s \in Syncs \ {r} : sync[s].phase = "idle"
  BY DEF AtMostOneSync

\* A store with an operation state has a current block state, between the base and
\* the node's best block.
LEMMA TopFacts ==
    ASSUME IndInv, db.opState # NoState
    PROVE  LET top == GetCurrentBlockState(db)
           IN  /\ Contiguous(db)
               /\ top \in Blocks
               /\ Height[top] \in Nat
               /\ BaseHeight <= Height[top]
               /\ Height[top] <= db.opState.indexedBlockHeight
               /\ db.opState.indexedBlockHeight <= Height[tip]
               /\ db.opState \in OpStates
               /\ db.opState.indexedBlockHeight \in Nat
               /\ tip \in Blocks
               /\ Height[tip] \in Nat
  <1>1. db.opState \in OpStates /\ db.opState.indexedBlockHeight \in Nat
    BY DEF IndInv, TypeOK, TypeInvariant, Stores, OpStates
  <1>2. tip \in Blocks /\ Height[tip] \in Nat
    BY HeightType DEF IndInv, TypeOK, TypeInvariant
  <1> QED
    BY <1>1, <1>2, ContiguousTop DEF IndInv, GapFree

\* An invocation in flight is alone, holds the flag and has a state to start from.
LEMMA ActiveFacts ==
    ASSUME IndInv, NEW r \in Syncs, sync[r].phase # "idle"
    PROVE  /\ isSyncing
           /\ boot = "done"
           /\ db.opState # NoState
           /\ sync[r].state = db.opState
           /\ sync[r] \in SyncLocals(OpStates)
           /\ \A s \in Syncs \ {r} : sync[s].phase = "idle"
  BY OthersIdle DEF IndInv, SyncConsistent, BootConsistent, TypeOK, TypeInvariant

\* A step that broadcasts nothing keeps the type of the last broadcast.
LEMMA SilentBlockKept ==
    ASSUME IndInv, UNCHANGED silentBlock
    PROVE  silentBlock' \in SilentBlocks
  BY DEF IndInv, TypeOK, TypeInvariant

\* No sync is in flight while the flag is cleared or the bootstrap has not ended.
LEMMA IdleFacts ==
    ASSUME IndInv, ~isSyncing \/ boot # "done"
    PROVE  \A r \in Syncs : sync[r].phase = "idle"
  BY DEF IndInv, SyncConsistent

-----------------------------------------------------------------------------
\* The empty store of a process not yet started satisfies the invariant.
LEMMA InitInv == Init => IndInv
  <1> SUFFICES ASSUME Init PROVE IndInv
    OBVIOUS
  <1> USE DEF Init, BaseInit, StoreInit
  <1>1. TypeOK
    BY LedgerTypes DEF TypeOK, TypeInvariant, EmptyStore, Stores, OutputStatus, SyncLocals, Idle,
                       Phases, SilentBlocks, NoSilentBlock
  <1>2. IndexedHeights(db) = {}
    BY DEF IndexedHeights, EmptyStore
  <1>3. UnspentIndexAgrees
    <2>1. \A o \in Outpoints : o[1] \in Txids
      BY DEF Outpoints
    <2> QED
      BY <2>1 DEF UnspentIndexAgrees, UnspentAgrees, EmptyStore
  <1> QED
    BY <1>1, <1>2, <1>3 DEF IndInv, AtMostOneSync, BootConsistent, GapFree, SyncConsistent, Idle,
                            EmptyStore

-----------------------------------------------------------------------------
(* One lemma per action *)

\* The node may only raise the height a sync has been told.
LEMMA NodeAdvancesInv ==
    ASSUME IndInv, NEW b \in Blocks, NodeAdvances(b)
    PROVE  IndInv'
  <1> USE DEF NodeAdvances
  <1>1. Height[tip] \in Nat /\ Height[b] \in Nat /\ Height[b] > Height[tip]
    BY HeightType DEF IndInv, TypeOK, TypeInvariant
  <1>2. TypeOK'
    BY DEF IndInv, TypeOK, TypeInvariant
  <1>3. GapFree'
    <2>1. CASE db.opState = NoState
      BY <2>1 DEF IndInv, GapFree
    <2>2. CASE db.opState # NoState
      BY <1>1, <2>2, TopFacts DEF IndInv, GapFree, OpStates
    <2> QED
      BY <2>1, <2>2
  <1>4. \A r \in Syncs : SyncConsistent(r)'
    <2> SUFFICES ASSUME NEW r \in Syncs PROVE SyncConsistent(r)'
      OBVIOUS
    <2>1. sync[r].tipHeight \in Nat /\ SyncConsistent(r)
      BY DEF IndInv, TypeOK, TypeInvariant, SyncLocals
    <2> QED
      BY <1>1, <2>1 DEF SyncConsistent
  <1> QED
    BY <1>2, <1>3, <1>4 DEF IndInv, AtMostOneSync, UnspentIndexAgrees, BootConsistent

\* A start finds the states a former process has committed, or none.
LEMMA StartProcessInv ==
    ASSUME IndInv, StartProcess
    PROVE  IndInv'
  <1> USE DEF StartProcess
  <1>1. \A r \in Syncs : sync[r].phase = "idle"
    BY IdleFacts
  <1> QED
    BY <1>1 DEF IndInv, TypeOK, TypeInvariant, AtMostOneSync, UnspentIndexAgrees, BootConsistent,
                GapFree, SyncConsistent

\* The bootstrap's commit makes the base block current; no sync is in flight then.
LEMMA BootstrapCommitsInv ==
    ASSUME IndInv, BootstrapCommits
    PROVE  IndInv'
  <1> USE DEF BootstrapCommits, SaveInitialState
  <1>1. \A r \in Syncs : sync[r].phase = "idle"
    BY IdleFacts
  <1>2. BlockAt(tip, BaseHeight) = BaseBlock
    BY HeightType, BlockAtType, BaseIsOnly DEF IndInv, TypeOK, TypeInvariant
  <1>3. db' = SetState(db, InitialState, BaseBlock) /\ db \in Stores(OpStates)
    BY <1>2 DEF IndInv, TypeOK, TypeInvariant
  <1>4. InitialState \in OpStates /\ BaseBlock \in Blocks /\ BaseBlock # NoBlock
    BY HeightType, LedgerTypes DEF InitialState, OpStates
  <1>5. TypeOK'
    BY <1>3, <1>4, SetStateType DEF IndInv, TypeOK, TypeInvariant
  <1>6. db'.opState = InitialState /\ InitialState # NoState
    BY <1>3, <1>4, NoStateIsNone DEF SetState, Stores
  <1>7. Contiguous(db') /\ GetCurrentBlockState(db') = BaseBlock
    <2>1. IndexedHeights(db) = {}
      BY DEF IndInv, BootConsistent, GapFree
    <2> QED
      BY <1>3, <2>1, FirstBlockState
  <1>8. GapFree'
    <2>1. BaseHeight \in Nat /\ Height[tip] \in Nat /\ BaseHeight <= Height[tip]
      BY HeightType DEF IndInv, TypeOK, TypeInvariant
    <2>2. InitialState.indexedBlockHeight = Height[BaseBlock] /\ tip' = tip
      BY DEF InitialState, BaseHeight
    <2> QED
      BY <1>6, <1>7, <2>1, <2>2 DEF GapFree, BaseHeight
  <1>9. UnspentIndexAgrees'
    BY <1>3, SetStateUnspent DEF IndInv, UnspentIndexAgrees
  <1> QED
    BY <1>1, <1>5, <1>6, <1>8, <1>9 DEF IndInv, AtMostOneSync, BootConsistent, SyncConsistent

\* A crash keeps the store and drops every invocation with the flag.
LEMMA CrashInv ==
    ASSUME IndInv, Crash
    PROVE  IndInv'
  <1> USE DEF Crash
  <1>1. TypeOK'
    BY DEF IndInv, TypeOK, TypeInvariant, SyncLocals, Idle, Phases
  <1> QED
    BY <1>1 DEF IndInv, AtMostOneSync, UnspentIndexAgrees, BootConsistent, GapFree,
                SyncConsistent, Idle

\* Clearing the flag and the locals of the one sync in flight.
LEMMA FinishSyncInv ==
    ASSUME IndInv, NEW r \in Syncs, sync[r].phase # "idle", FinishSync(r),
           UNCHANGED <<tip, strayed, db, boot>>, silentBlock' \in SilentBlocks
    PROVE  IndInv'
  <1> USE DEF FinishSync
  <1>1. \A s \in Syncs : sync'[s].phase = "idle"
    BY ActiveFacts DEF IndInv, TypeOK, TypeInvariant, Idle
  <1>2. TypeOK'
    BY DEF IndInv, TypeOK, TypeInvariant, SyncLocals, Idle, Phases
  <1> QED
    BY <1>1, <1>2 DEF IndInv, AtMostOneSync, UnspentIndexAgrees, BootConsistent, GapFree,
                      SyncConsistent

\* A step that changes the locals of the one sync in flight and nothing else.
LEMMA LocalStepInv ==
    ASSUME IndInv, NEW r \in Syncs, sync[r].phase # "idle",
           UNCHANGED <<tip, strayed, db, boot, isSyncing>>, silentBlock' \in SilentBlocks,
           NEW new \in SyncLocals(OpStates), sync' = [sync EXCEPT ![r] = new],
           SyncConsistent(r)'
    PROVE  IndInv'
  <1>1. TypeOK'
    BY DEF IndInv, TypeOK, TypeInvariant
  <1>2. \A s \in Syncs \ {r} : sync'[s] = sync[s] /\ sync[s].phase = "idle"
    BY ActiveFacts DEF IndInv, TypeOK, TypeInvariant
  <1> QED
    BY <1>1, <1>2 DEF IndInv, AtMostOneSync, UnspentIndexAgrees, BootConsistent, GapFree,
                      SyncConsistent

\* A tick that finds the flag cleared starts the only sync in flight.
LEMMA StartSyncInv ==
    ASSUME IndInv, NEW r \in Syncs, StartSync(r)
    PROVE  IndInv'
  <1> USE DEF StartSync, CronFires
  <1> DEFINE new == [Idle EXCEPT !.phase = "tip", !.state = db.opState]
  <1>1. \A s \in Syncs : sync[s].phase = "idle"
    BY IdleFacts
  <1>2. new \in SyncLocals(OpStates) /\ new.phase = "tip" /\ new.state = db.opState
    BY TopFacts DEF SyncLocals, Idle, Phases
  <1>3. sync' = [sync EXCEPT ![r] = new] /\ isSyncing' = TRUE
    OBVIOUS
  <1> HIDE DEF new
  <1>4. TypeOK'
    BY <1>2, <1>3 DEF IndInv, TypeOK, TypeInvariant
  <1>5. sync'[r] = new /\ \A s \in Syncs \ {r} : sync'[s] = sync[s]
    BY <1>3 DEF IndInv, TypeOK, TypeInvariant
  <1>6. boot = "done"
    BY DEF IndInv, BootConsistent, TypeOK, TypeInvariant
  <1>7. \A s \in Syncs : SyncConsistent(s)'
    BY <1>1, <1>2, <1>3, <1>5, <1>6 DEF SyncConsistent
  <1> QED
    BY <1>1, <1>2, <1>4, <1>5, <1>7
    DEF IndInv, AtMostOneSync, UnspentIndexAgrees, BootConsistent, GapFree

\* The tick that throws "State not found" leaves the flag set and no sync in flight.
LEMMA StateNotFoundInv ==
    ASSUME IndInv, NEW r \in Syncs, StateNotFound(r)
    PROVE  IndInv'
  <1> USE DEF StateNotFound, CronFires
  <1>1. \A s \in Syncs : sync[s].phase = "idle"
    BY IdleFacts
  <1> QED
    BY <1>1 DEF IndInv, TypeOK, TypeInvariant, AtMostOneSync, UnspentIndexAgrees, BootConsistent,
                GapFree, SyncConsistent

\* A sync that finds nothing new ends.
LEMMA NoNewBlocksInv ==
    ASSUME IndInv, NEW r \in Syncs, NoNewBlocks(r)
    PROVE  IndInv'
  BY FinishSyncInv, SilentBlockKept DEF NoNewBlocks

\* A sync whose request fails ends.
LEMMA RequestFailsInv ==
    ASSUME IndInv, NEW r \in Syncs, RequestFails(r)
    PROVE  IndInv'
  BY FinishSyncInv, SilentBlockKept DEF RequestFails, MayFail

\* The trace starts at the current block state, of which there always is one.
LEMMA NewBlocksFoundInv ==
    ASSUME IndInv, NEW r \in Syncs, NewBlocksFound(r)
    PROVE  IndInv'
  <1> USE DEF NewBlocksFound
  <1> DEFINE top == GetCurrentBlockState(db)
             new == [sync[r] EXCEPT !.tipHeight = Height[tip], !.current = top,
                                    !.phase = "trace"]
  <1>1. sync[r].phase # "idle" /\ db.opState # NoState /\ sync[r] \in SyncLocals(OpStates)
    BY ActiveFacts
  <1>2. top \in Blocks /\ top # NoBlock /\ Height[tip] \in Nat
    BY <1>1, TopFacts, LedgerTypes
  <1>3. sync' = [sync EXCEPT ![r] = new]
    BY <1>2
  <1>4. new \in SyncLocals(OpStates)
    BY <1>1, <1>2 DEF SyncLocals, Phases
  <1>5. sync'[r] = new
    BY <1>3 DEF IndInv, TypeOK, TypeInvariant
  <1>6. SyncConsistent(r)'
    <2>1. /\ new.phase = "trace" /\ new.tipHeight = Height[tip] /\ new.current = top
          /\ new.state = sync[r].state
      BY <1>1 DEF SyncLocals
    <2>2. Height[tip] <= Height[tip]
      BY <1>2
    <2> HIDE DEF new, top
    <2> QED
      BY <1>1, <1>5, <2>1, <2>2, ActiveFacts DEF SyncConsistent, top
  <1> HIDE DEF new
  <1> QED
    BY <1>1, <1>3, <1>4, <1>6, LocalStepInv, SilentBlockKept

\* The node has a block at the traced height, which is not above its best block.
LEMMA AnswerTraceInv ==
    ASSUME IndInv, NEW r \in Syncs, AnswerTrace(r)
    PROVE  IndInv'
  <1> USE DEF AnswerTrace
  <1> DEFINE top    == GetCurrentBlockState(db)
             answer == BlockAt(tip, Height[sync[r].current])
             new    == [sync[r] EXCEPT !.phase = "traced", !.block = answer]
  <1>1. sync[r].phase = "trace" /\ db.opState # NoState /\ sync[r] \in SyncLocals(OpStates)
    BY ActiveFacts
  <1>2. sync[r].current = top
    BY DEF IndInv, SyncConsistent
  <1>3. answer \in Blocks /\ Height[answer] = Height[top]
    <2>1. Height[top] \in BaseHeight..Height[tip] /\ tip \in Blocks
      BY <1>1, TopFacts, HeightType
    <2> QED
      BY <1>2, <2>1, BlockAtType
  <1>4. sync' = [sync EXCEPT ![r] = new]
    OBVIOUS
  <1>5. new \in SyncLocals(OpStates)
    BY <1>1, <1>3 DEF SyncLocals, Phases
  <1>6. sync'[r] = new
    BY <1>4 DEF IndInv, TypeOK, TypeInvariant
  <1>7. SyncConsistent(r)'
    <2>1. /\ new.phase = "traced" /\ new.tipHeight = sync[r].tipHeight
          /\ new.current = sync[r].current /\ new.block = answer /\ new.state = sync[r].state
      BY <1>1 DEF SyncLocals
    <2> HIDE DEF new, top, answer
    <2> QED
      BY <1>1, <1>2, <1>3, <1>6, <2>1, ActiveFacts DEF IndInv, SyncConsistent, top
  <1> HIDE DEF new
  <1> QED
    BY <1>1, <1>4, <1>5, <1>7, LocalStepInv, SilentBlockKept

\* The node has a block at the next height, which is not above the tip it told.
LEMMA AnswerBlockHashInv ==
    ASSUME IndInv, NEW r \in Syncs, AnswerBlockHash(r, sync[r].state)
    PROVE  IndInv'
  <1> USE DEF AnswerBlockHash
  <1> DEFINE answer == BlockAt(tip, sync[r].height)
             new    == [sync[r] EXCEPT !.phase = "block", !.state = sync[r].state,
                                       !.block = answer]
  <1>1. sync[r].phase = "hash" /\ db.opState # NoState /\ sync[r] \in SyncLocals(OpStates)
    BY ActiveFacts
  <1>2. answer \in Blocks /\ Height[answer] = sync[r].height
    <2>1. /\ sync[r].height = Height[GetCurrentBlockState(db)] + 1
          /\ sync[r].height <= sync[r].tipHeight
          /\ sync[r].tipHeight <= Height[tip]
      BY <1>1 DEF IndInv, SyncConsistent
    <2>2. sync[r].height \in Nat /\ sync[r].tipHeight \in Nat
      BY <1>1 DEF SyncLocals
    <2>3. sync[r].height \in BaseHeight..Height[tip] /\ tip \in Blocks
      BY <1>1, <2>1, <2>2, TopFacts, HeightType
    <2> QED
      BY <2>3, BlockAtType
  <1>3. sync' = [sync EXCEPT ![r] = new]
    BY <1>1 DEF SyncLocals
  <1>4. new \in SyncLocals(OpStates)
    BY <1>1, <1>2 DEF SyncLocals, Phases
  <1>5. sync'[r] = new
    BY <1>3 DEF IndInv, TypeOK, TypeInvariant
  <1>6. SyncConsistent(r)'
    <2>1. /\ new.phase = "block" /\ new.tipHeight = sync[r].tipHeight /\ new.block = answer
          /\ new.height = sync[r].height /\ new.state = sync[r].state
      BY <1>1 DEF SyncLocals
    <2> HIDE DEF new, answer
    <2> QED
      BY <1>1, <1>2, <1>5, <2>1, ActiveFacts DEF IndInv, SyncConsistent
  <1> HIDE DEF new
  <1> QED
    BY <1>1, <1>3, <1>4, <1>6, LocalStepInv, SilentBlockKept

\* The head of the loop, one above a current block state the node confirmed.
LEMMA ContinueAtInv ==
    ASSUME IndInv, NEW r \in Syncs, sync[r].phase \in {"traced", "emit"},
           sync[r].block = GetCurrentBlockState(db),
           ContinueAt(r, Height[GetCurrentBlockState(db)] + 1),
           UNCHANGED <<tip, strayed, db, boot>>, silentBlock' \in SilentBlocks
    PROVE  IndInv'
  <1> DEFINE next == Height[GetCurrentBlockState(db)] + 1
             new  == [sync[r] EXCEPT !.phase = "hash", !.height = next]
  <1>1. CASE FinishSync(r)
    BY <1>1, FinishSyncInv
  <1>2. CASE /\ next <= sync[r].tipHeight
             /\ sync' = [sync EXCEPT ![r].phase = "hash", ![r].height = next]
             /\ UNCHANGED isSyncing
    <2>1. db.opState # NoState /\ sync[r] \in SyncLocals(OpStates)
      BY ActiveFacts
    <2>2. next \in Nat
      BY <2>1, TopFacts
    <2>3. sync' = [sync EXCEPT ![r] = new]
      BY <1>2
    <2>4. new \in SyncLocals(OpStates)
      BY <2>1, <2>2 DEF SyncLocals, Phases
    <2>5. sync'[r] = new
      BY <2>3 DEF IndInv, TypeOK, TypeInvariant
    <2>6. /\ new.phase = "hash" /\ new.tipHeight = sync[r].tipHeight
          /\ new.block = sync[r].block /\ new.height = next /\ new.state = sync[r].state
      BY <2>1 DEF SyncLocals
    <2> HIDE DEF new
    <2>7. SyncConsistent(r)'
      BY <1>2, <2>5, <2>6, ActiveFacts DEF IndInv, SyncConsistent
    <2> QED
      BY <1>2, <2>3, <2>4, <2>7, LocalStepInv
  <1> QED
    BY <1>1, <1>2 DEF ContinueAt

\* The loop resumes one above the current block state the node confirmed.
LEMMA TraceMatchesInv ==
    ASSUME IndInv, NEW r \in Syncs, TraceMatches(r)
    PROVE  IndInv'
  <1>1. sync[r].phase = "traced" /\ sync[r].block = sync[r].current
    BY DEF TraceMatches
  <1>2. sync[r].current = GetCurrentBlockState(db)
    BY <1>1 DEF IndInv, SyncConsistent
  <1> QED
    BY <1>1, <1>2, ContinueAtInv, SilentBlockKept DEF TraceMatches

\* A step of the one sync in flight that writes the store.
LEMMA StoreStepInv ==
    ASSUME IndInv, NEW r \in Syncs, sync[r].phase # "idle",
           UNCHANGED <<tip, strayed, boot, isSyncing, silentBlock>>,
           NEW new \in SyncLocals(OpStates), sync' = [sync EXCEPT ![r] = new],
           SyncConsistent(r)',
           db' \in Stores(OpStates), db'.opState # NoState, UnspentAgrees(db'), GapFree'
    PROVE  IndInv'
  <1>1. TypeOK'
    BY DEF IndInv, TypeOK, TypeInvariant
  <1>2. \A s \in Syncs \ {r} : sync'[s] = sync[s] /\ sync[s].phase = "idle"
    BY ActiveFacts DEF IndInv, TypeOK, TypeInvariant
  <1>3. boot = "done"
    BY ActiveFacts
  <1> QED
    BY <1>1, <1>2, <1>3 DEF IndInv, AtMostOneSync, UnspentIndexAgrees, BootConsistent,
                            SyncConsistent

\* A block state the node denies is not the base block's, and the one below it is
\* the next to trace.
LEMMA TraceMismatchesInv ==
    ASSUME IndInv, NEW r \in Syncs, TraceMismatches(r)
    PROVE  IndInv'
  <1> USE DEF TraceMismatches
  <1> DEFINE top == GetCurrentBlockState(db)
             e   == RemoveState(db, top)
             new == [sync[r] EXCEPT !.phase = "trace", !.current = GetCurrentBlockState(e)]
  <1>1. sync[r].phase = "traced" /\ db.opState # NoState /\ sync[r] \in SyncLocals(OpStates)
    BY ActiveFacts
  <1>2. sync[r].current = top /\ db \in Stores(OpStates) /\ UnspentAgrees(db)
    BY <1>1 DEF IndInv, SyncConsistent, TypeOK, TypeInvariant, UnspentIndexAgrees
  <1>3. db' = e
    BY <1>2
  <1>4. top # BaseBlock
    <2>1. sync[r].block \in Blocks /\ Height[sync[r].block] = Height[top]
      BY <1>1 DEF IndInv, SyncConsistent
    <2> QED
      BY <1>2, <2>1, BaseIsOnly DEF BaseHeight
  <1>5. /\ Contiguous(e)
        /\ Height[GetCurrentBlockState(e)] = Height[top] - 1
        /\ GetCurrentBlockState(e) \in Blocks
        /\ GetCurrentBlockState(e) # NoBlock
    <2>1. Contiguous(db)
      BY <1>1, TopFacts
    <2>2. Contiguous(e) /\ Height[GetCurrentBlockState(e)] = Height[top] - 1
      BY <1>2, <1>4, <2>1, RemoveTopBlockState
    <2> QED
      BY <2>2, LedgerTypes DEF Contiguous
  <1>6. e \in Stores(OpStates) /\ UnspentAgrees(e) /\ e.opState = db.opState
    BY <1>1, <1>2, TopFacts, RemoveStateType, RemoveStateUnspent, RemoveStateStates
  <1> HIDE DEF e
  <1>7. GapFree'
    <2>1. Height[GetCurrentBlockState(db)] - 1 <= db.opState.indexedBlockHeight
      BY <1>1, TopFacts
    <2>2. Height[GetCurrentBlockState(db')] <= db'.opState.indexedBlockHeight
      BY <1>3, <1>5, <1>6, <2>1
    <2>3. db'.opState.indexedBlockHeight <= Height[tip'] /\ db'.opState # NoState
      BY <1>1, <1>3, <1>6, TopFacts
    <2>4. Contiguous(db')
      BY <1>3, <1>5
    <2> QED
      BY <2>2, <2>3, <2>4 DEF GapFree
  <1>8. sync' = [sync EXCEPT ![r] = new] /\ isSyncing' = isSyncing
    BY <1>3, <1>5
  <1>9. new \in SyncLocals(OpStates)
    BY <1>1, <1>5 DEF SyncLocals, Phases
  <1>10. sync'[r] = new
    BY <1>8 DEF IndInv, TypeOK, TypeInvariant
  <1>11. /\ new.phase = "trace" /\ new.tipHeight = sync[r].tipHeight
         /\ new.current = GetCurrentBlockState(e) /\ new.state = sync[r].state
    BY <1>1 DEF SyncLocals
  <1> HIDE DEF new
  <1>12. SyncConsistent(r)'
    BY <1>1, <1>3, <1>6, <1>8, <1>10, <1>11, ActiveFacts DEF IndInv, SyncConsistent
  <1> QED
    BY <1>1, <1>3, <1>6, <1>7, <1>8, <1>9, <1>12, StoreStepInv

\* The commit appends the block one above the current one.
LEMMA CommitBlockInv ==
    ASSUME IndInv, NEW r \in Syncs, CommitBlock(r)
    PROVE  IndInv'
  <1> USE DEF CommitBlock
  <1> DEFINE top   == GetCurrentBlockState(db)
             b     == sync[r].block
             state == [sync[r].state EXCEPT !.indexedBlockHeight = sync[r].height]
             d     == IndexTransactions(db, b, TxsOf(b), BlockTime(b))
             e     == SetState(d, state, b)
             new   == [sync[r] EXCEPT !.phase = "emit", !.state = state]
  <1>1. /\ sync[r].phase = "block" /\ db.opState # NoState /\ sync[r] \in SyncLocals(OpStates)
        /\ sync[r].state = db.opState
    BY ActiveFacts
  <1>2. /\ b \in Blocks /\ Height[b] = sync[r].height /\ sync[r].height = Height[top] + 1
        /\ sync[r].height <= sync[r].tipHeight /\ sync[r].tipHeight <= Height[tip]
        /\ db \in Stores(OpStates) /\ UnspentAgrees(db)
    BY <1>1 DEF IndInv, SyncConsistent, TypeOK, TypeInvariant, UnspentIndexAgrees
  <1>3. TxsOf(b) \in SUBSET Txids /\ \A t \in TxsOf(b) : BlockTime(b)[t] \in Nat
    BY <1>2, BlockTimeType
  <1>4. state \in OpStates /\ state.indexedBlockHeight = sync[r].height /\ state # NoState
    BY <1>1, <1>2, TopFacts, NoStateIsNone DEF OpStates, SyncLocals
  <1>5. /\ d \in Stores(OpStates) /\ UnspentAgrees(d)
        /\ d.blockState = db.blockState
    BY <1>2, <1>3, IndexTransactionsType, IndexTransactionsUnspent, IndexTransactionsStates
  <1> HIDE DEF d, b, state
  <1>6. /\ e \in Stores(OpStates) /\ UnspentAgrees(e) /\ e.opState = state
    <2>1. e.opState = state
      BY <1>5 DEF SetState, Stores
    <2> QED
      BY <1>2, <1>4, <1>5, <2>1, SetStateType, SetStateUnspent
  <1>7. Contiguous(e) /\ GetCurrentBlockState(e) = b
    <2>1. Contiguous(d) /\ GetCurrentBlockState(d) = top
      BY <1>1, <1>5, TopFacts DEF Contiguous, GetCurrentBlockState, IndexedHeights
    <2>2. Height[b] = Height[GetCurrentBlockState(d)] + 1 /\ b \in Blocks
      BY <1>2, <2>1
    <2>3. d \in Stores(OpStates)
      BY <1>5
    <2> HIDE DEF top
    <2>4. Contiguous(e) /\ GetCurrentBlockState(e) = b
      BY <2>1, <2>2, <2>3, AppendBlockState
    <2> QED
      BY <2>4
  <1>8. db' = e /\ sync' = [sync EXCEPT ![r] = new]
    BY <1>1 DEF SyncLocals, d, b, state
  <1>9. Height[tip] \in Nat /\ tip' = tip
    BY <1>1, TopFacts
  <1> HIDE DEF e
  <1>10. GapFree'
    <2>1. /\ Height[GetCurrentBlockState(db')] = sync[r].height
          /\ db'.opState.indexedBlockHeight = sync[r].height
          /\ db'.opState # NoState /\ Contiguous(db')
      BY <1>2, <1>4, <1>6, <1>7, <1>8
    <2>2. sync[r].height \in Nat /\ sync[r].tipHeight \in Nat /\ Height[tip] \in Nat
      BY <1>1, <1>9 DEF SyncLocals
    <2>3. sync[r].height <= Height[tip]
      BY <1>2, <2>2
    <2>4. sync[r].height <= sync[r].height
      BY <2>2
    <2> QED
      BY <1>9, <2>1, <2>3, <2>4 DEF GapFree
  <1>11. new \in SyncLocals(OpStates)
    BY <1>1, <1>4 DEF SyncLocals, Phases
  <1>12. sync'[r] = new
    BY <1>8 DEF IndInv, TypeOK, TypeInvariant
  <1>13. /\ new.phase = "emit" /\ new.tipHeight = sync[r].tipHeight /\ new.state = state
         /\ new.block = b /\ new.height = sync[r].height
    BY <1>1 DEF SyncLocals, b
  <1> HIDE DEF new
  <1>14. SyncConsistent(r)'
    BY <1>1, <1>2, <1>6, <1>7, <1>8, <1>12, <1>13, ActiveFacts DEF IndInv, SyncConsistent
  <1> QED
    BY <1>1, <1>4, <1>6, <1>8, <1>10, <1>11, <1>14, StoreStepInv

\* After the broadcast the loop goes on one above the block just committed.
LEMMA EmitIndexedBlockInv ==
    ASSUME IndInv, NEW r \in Syncs, EmitIndexedBlock(r)
    PROVE  IndInv'
  <1> USE DEF EmitIndexedBlock
  <1>1. sync[r].phase = "emit" /\ sync[r].height \in Nat
    BY DEF IndInv, TypeOK, TypeInvariant, SyncLocals
  <1>2. /\ sync[r].block = GetCurrentBlockState(db)
        /\ sync[r].height = Height[GetCurrentBlockState(db)]
    BY <1>1 DEF IndInv, SyncConsistent
  <1>3. silentBlock' \in SilentBlocks
    BY <1>1, ServedType DEF Broadcast, SilentBlocks
  <1>4. ContinueAt(r, Height[GetCurrentBlockState(db)] + 1)
    BY <1>2
  <1>5. UNCHANGED <<tip, strayed, db, boot>>
    OBVIOUS
  <1> QED
    BY ONLY IndInv, <1>1, <1>2, <1>3, <1>4, <1>5, ContinueAtInv

-----------------------------------------------------------------------------
\* Every step keeps the invariant.
LEMMA NextInv == IndInv /\ [Next]_vars => IndInv'
  <1> SUFFICES ASSUME IndInv, [Next]_vars PROVE IndInv'
    OBVIOUS
  <1>1. CASE UNCHANGED vars
    BY <1>1 DEF vars, IndInv, TypeOK, TypeInvariant, AtMostOneSync, UnspentIndexAgrees,
                BootConsistent, GapFree, SyncConsistent
  <1>2. ASSUME NEW b \in Blocks, NodeAdvances(b) PROVE IndInv'
    BY <1>2, NodeAdvancesInv
  <1>3. CASE StartProcess
    BY <1>3, StartProcessInv
  <1>4. CASE BootstrapCommits
    BY <1>4, BootstrapCommitsInv
  <1>5. CASE Crash
    BY <1>5, CrashInv
  <1>6. ASSUME NEW r \in Syncs, SyncStep(r) PROVE IndInv'
    <2>1. CASE StartSync(r)
      BY <2>1, StartSyncInv
    <2>2. CASE StateNotFound(r)
      BY <2>2, StateNotFoundInv
    <2>3. CASE NoNewBlocks(r)
      BY <2>3, NoNewBlocksInv
    <2>4. CASE NewBlocksFound(r)
      BY <2>4, NewBlocksFoundInv
    <2>5. CASE AnswerTrace(r)
      BY <2>5, AnswerTraceInv
    <2>6. CASE TraceMatches(r)
      BY <2>6, TraceMatchesInv
    <2>7. CASE TraceMismatches(r)
      BY <2>7, TraceMismatchesInv
    <2>8. CASE RequestFails(r)
      BY <2>8, RequestFailsInv
    <2>9. CASE AnswerBlockHash(r, sync[r].state)
      BY <2>9, AnswerBlockHashInv
    <2>10. CASE CommitBlock(r)
      BY <2>10, CommitBlockInv
    <2>11. CASE EmitIndexedBlock(r)
      BY <2>11, EmitIndexedBlockInv
    <2> QED
      BY <1>6, <2>1, <2>2, <2>3, <2>4, <2>5, <2>6, <2>7, <2>8, <2>9, <2>10, <2>11
      DEF SyncStep, NextSyncStep
  <1> QED
    BY <1>1, <1>2, <1>3, <1>4, <1>5, <1>6 DEF Next

\* The invariant holds in every behaviour, also when the node changes branch
\* under a sync and when the cron job fires before the bootstrap has ended.
THEOREM Invariance == Spec => []IndInv
  BY InitInv, NextInv, PTL DEF Spec

\* Every variable keeps its type, for every block tree and number of ticks.
THEOREM TypeCorrectness == Spec => []TypeOK
  <1>1. IndInv => TypeOK
    BY DEF IndInv
  <1> QED
    BY <1>1, Invariance, PTL

\* The isSyncing flag admits one invocation of sync() at a time.
THEOREM MutualExclusion == Spec => []AtMostOneSync
  <1>1. IndInv => AtMostOneSync
    BY DEF IndInv
  <1> QED
    BY <1>1, Invariance, PTL

\* The unspent index and the output records never disagree.
THEOREM UnspentIndexAgreement == Spec => []UnspentIndexAgrees
  <1>1. IndInv => UnspentIndexAgrees
    BY DEF IndInv
  <1> QED
    BY <1>1, Invariance, PTL

\* No height between the base and the current block state is missing, and the
\* reorg trace never takes the base block's state away.
THEOREM GapFreedom == Spec => []GapFree
  <1>1. IndInv => GapFree
    BY DEF IndInv
  <1> QED
    BY <1>1, Invariance, PTL

-----------------------------------------------------------------------------
(* The branch: what is kept while the node does not leave that of a sync *)

\* Of an idle invocation SyncLinked says nothing.
LEMMA IdleLinked ==
    ASSUME NEW r \in Syncs, sync[r].phase = "idle"
    PROVE  SyncLinked(r)
  BY DEF SyncLinked

\* A step of the one sync in flight that leaves the node's best block as it is.
LEMMA SyncLinkedStep ==
    ASSUME IndInv, NEW r \in Syncs, sync[r].phase # "idle",
           NEW new, sync' = [sync EXCEPT ![r] = new], SyncLinked(r)'
    PROVE  \A s \in Syncs : SyncLinked(s)'
  <1>1. \A s \in Syncs \ {r} : sync'[s].phase = "idle"
    BY ActiveFacts DEF IndInv, TypeOK, TypeInvariant
  <1>2. \A s \in Syncs \ {r} : SyncLinked(s)'
    BY <1>1 DEF SyncLinked
  <1> QED
    BY <1>2

\* Of a sync that ends SyncLinked says nothing.
LEMMA FinishSyncLinked ==
    ASSUME IndInv, NEW r \in Syncs, sync[r].phase # "idle", FinishSync(r)
    PROVE  \A s \in Syncs : SyncLinked(s)'
  <1>1. \A s \in Syncs : sync'[s].phase = "idle"
    BY ActiveFacts DEF IndInv, TypeOK, TypeInvariant, FinishSync, Idle
  <1> QED
    BY <1>1 DEF SyncLinked

\* A best block that builds on what a sync in flight relies on keeps it so.
LEMMA NodeAdvancesLinked ==
    ASSUME ~strayed', IndInv, LinkedInv, NEW b \in Blocks, NodeAdvances(b)
    PROVE  LinkedInv'
  <1> ~strayed
    BY DEF NodeAdvances
  <1> SUFFICES ASSUME NEW r \in Syncs PROVE SyncLinked(r)'
    BY DEF LinkedInv, NodeAdvances, OnOneBranch
  <1>1. BuildsOn(r, b) /\ SyncLinked(r) /\ tip' = b /\ UNCHANGED <<sync, db>>
    BY DEF NodeAdvances, LinkedInv
  <1>2. sync[r].phase \in Phases
    BY DEF IndInv, TypeOK, TypeInvariant, SyncLocals
  <1> QED
    BY <1>1, <1>2 DEF BuildsOn, SyncLinked, Phases

\* The head of the loop, above a current block state on the node's branch.
LEMMA ContinueAtLinked ==
    ASSUME ~strayed, IndInv, LinkedInv, NEW r \in Syncs, sync[r].phase \in {"traced", "emit"},
           sync[r].block = GetCurrentBlockState(db),
           sync[r].phase = "traced" => sync[r].block = sync[r].current,
           ContinueAt(r, Height[GetCurrentBlockState(db)] + 1), UNCHANGED <<tip, strayed, db>>
    PROVE  LinkedInv'
  <1> DEFINE next == Height[GetCurrentBlockState(db)] + 1
             new  == [sync[r] EXCEPT !.phase = "hash", !.height = next]
  <1>1. OnOneBranch(db')
    BY DEF LinkedInv
  <1>2. CASE FinishSync(r)
    BY <1>1, <1>2, FinishSyncLinked DEF LinkedInv
  <1>3. CASE /\ next <= sync[r].tipHeight
             /\ sync' = [sync EXCEPT ![r].phase = "hash", ![r].height = next]
             /\ UNCHANGED isSyncing
    <2>1. db.opState # NoState /\ sync[r] \in SyncLocals(OpStates)
      BY ActiveFacts
    <2>2. sync[r].phase = "emit" => sync[r].height < sync[r].tipHeight
      <3> SUFFICES ASSUME sync[r].phase = "emit" PROVE sync[r].height < sync[r].tipHeight
        OBVIOUS
      <3>1. sync[r].height = Height[GetCurrentBlockState(db)]
        BY DEF IndInv, SyncConsistent
      <3>2. sync[r].height \in Nat /\ sync[r].tipHeight \in Nat
        BY <2>1 DEF SyncLocals
      <3> QED
        BY <1>3, <3>1, <3>2
    <2>3. sync[r].block \in Lineage[tip]
      BY <2>2 DEF LinkedInv, SyncLinked
    <2>4. sync' = [sync EXCEPT ![r] = new]
      BY <1>3
    <2>5. sync'[r] = new /\ new.phase = "hash" /\ new.block = sync[r].block
      BY <2>1, <2>4 DEF IndInv, TypeOK, TypeInvariant, SyncLocals
    <2> HIDE DEF new
    <2>6. SyncLinked(r)'
      BY <2>3, <2>5 DEF SyncLinked
    <2> QED
      BY <1>1, <2>4, <2>6, SyncLinkedStep DEF LinkedInv
  <1> QED
    BY <1>2, <1>3 DEF ContinueAt

\* A confirmed hash is on the node's branch.
LEMMA AnswerTraceLinked ==
    ASSUME ~strayed, IndInv, LinkedInv, NEW r \in Syncs, AnswerTrace(r)
    PROVE  LinkedInv'
  <1> USE DEF AnswerTrace
  <1> DEFINE answer == BlockAt(tip, Height[sync[r].current])
             new    == [sync[r] EXCEPT !.phase = "traced", !.block = answer]
  <1>1. sync[r].phase = "trace" /\ db.opState # NoState /\ sync[r] \in SyncLocals(OpStates)
    BY ActiveFacts
  <1>2. answer \in Lineage[tip]
    <2>1. sync[r].current = GetCurrentBlockState(db)
      BY <1>1 DEF IndInv, SyncConsistent
    <2>2. Height[sync[r].current] \in BaseHeight..Height[tip] /\ tip \in Blocks
      BY <1>1, <2>1, TopFacts, HeightType
    <2> QED
      BY <2>2, BlockAtType
  <1>3. sync' = [sync EXCEPT ![r] = new]
    OBVIOUS
  <1>4. sync'[r] = new /\ new.phase = "traced" /\ new.block = answer
    BY <1>1, <1>3 DEF IndInv, TypeOK, TypeInvariant, SyncLocals
  <1> HIDE DEF new, answer
  <1>5. SyncLinked(r)'
    BY <1>2, <1>4 DEF SyncLinked
  <1> QED
    BY <1>1, <1>3, <1>5, SyncLinkedStep DEF LinkedInv

\* The block the node has above one of its own branch is a child of that one.
LEMMA AnswerBlockHashLinked ==
    ASSUME ~strayed, IndInv, LinkedInv, NEW r \in Syncs, AnswerBlockHash(r, sync[r].state)
    PROVE  LinkedInv'
  <1> USE DEF AnswerBlockHash
  <1> DEFINE top    == GetCurrentBlockState(db)
             answer == BlockAt(tip, sync[r].height)
             new    == [sync[r] EXCEPT !.phase = "block", !.state = sync[r].state,
                                       !.block = answer]
  <1>1. sync[r].phase = "hash" /\ db.opState # NoState /\ sync[r] \in SyncLocals(OpStates)
    BY ActiveFacts
  <1>2. /\ sync[r].height = Height[top] + 1
        /\ sync[r].height <= sync[r].tipHeight
        /\ sync[r].tipHeight <= Height[tip]
        /\ sync[r].height \in Nat /\ sync[r].tipHeight \in Nat
        /\ sync[r].block = top
    BY <1>1 DEF IndInv, SyncConsistent, SyncLocals
  <1>3. answer \in Lineage[tip] /\ Height[answer] = Height[top] + 1
    <2>1. sync[r].height \in BaseHeight..Height[tip] /\ tip \in Blocks
      BY <1>1, <1>2, TopFacts, HeightType
    <2> QED
      BY <1>2, <2>1, BlockAtType
  <1>4. top \in Lineage[answer]
    <2>1. top \in Lineage[tip]
      BY <1>1, <1>2 DEF LinkedInv, SyncLinked
    <2>2. Height[top] <= Height[answer] /\ tip \in Blocks
      BY <1>1, <1>3, TopFacts
    <2> QED
      BY <1>3, <2>1, <2>2, LineageOrdered
  <1>5. sync' = [sync EXCEPT ![r] = new]
    BY <1>1 DEF SyncLocals
  <1>6. sync'[r] = new /\ new.phase = "block" /\ new.block = answer
    BY <1>1, <1>5 DEF IndInv, TypeOK, TypeInvariant, SyncLocals
  <1> HIDE DEF new, answer
  <1>7. SyncLinked(r)'
    BY <1>3, <1>4, <1>6 DEF SyncLinked
  <1> QED
    BY <1>1, <1>5, <1>7, SyncLinkedStep DEF LinkedInv

\* The bootstrap's and the sync's writes keep the block states on one branch.
LEMMA BootstrapCommitsLinked ==
    ASSUME ~strayed, IndInv, LinkedInv, BootstrapCommits
    PROVE  LinkedInv'
  <1> USE DEF BootstrapCommits, SaveInitialState
  <1>1. \A r \in Syncs : sync'[r].phase = "idle"
    BY IdleFacts
  <1>2. BlockAt(tip, BaseHeight) = BaseBlock
    BY HeightType, BlockAtType, BaseIsOnly DEF IndInv, TypeOK, TypeInvariant
  <1>3. Contiguous(db') /\ GetCurrentBlockState(db') = BaseBlock
    <2>1. IndexedHeights(db) = {} /\ db \in Stores(OpStates)
      BY DEF IndInv, BootConsistent, GapFree, TypeOK, TypeInvariant
    <2> QED
      BY <1>2, <2>1, FirstBlockState
  <1>4. OnOneBranch(db')
    <2>1. \A h \in IndexedHeights(db') : h = BaseHeight
      BY <1>3, HeightType DEF Contiguous, BaseHeight
    <2>2. db'.blockState[BaseHeight] = BaseBlock /\ BaseBlock \in Lineage[BaseBlock]
      BY <1>3, LineageIsChain, LedgerTypes DEF Contiguous
    <2> QED
      BY <1>3, <2>1, <2>2 DEF OnOneBranch
  <1> QED
    BY <1>1, <1>4 DEF LinkedInv, SyncLinked

\* A rollback takes the last block off the branch.
LEMMA TraceMismatchesLinked ==
    ASSUME ~strayed, IndInv, LinkedInv, NEW r \in Syncs, TraceMismatches(r)
    PROVE  LinkedInv'
  <1> USE DEF TraceMismatches
  <1> DEFINE top == GetCurrentBlockState(db)
  <1>1. sync[r].phase = "traced" /\ db.opState # NoState
    BY ActiveFacts
  <1>2. sync[r].current = top /\ db \in Stores(OpStates)
    BY <1>1 DEF IndInv, SyncConsistent, TypeOK, TypeInvariant
  <1>3. top # BaseBlock
    <2>1. sync[r].block \in Blocks /\ Height[sync[r].block] = Height[top]
      BY <1>1 DEF IndInv, SyncConsistent
    <2> QED
      BY <1>2, <2>1, BaseIsOnly DEF BaseHeight
  <1>4. OnOneBranch(db')
    <2>1. Contiguous(db) /\ OnOneBranch(db)
      BY <1>1, TopFacts DEF LinkedInv
    <2> QED
      BY <1>2, <1>3, <2>1, RemoveOnOneBranch
  <1>5. \A s \in Syncs : SyncLinked(s)'
    <2>1. CASE FinishSync(r)
      BY <1>1, <2>1, FinishSyncLinked
    <2>2. CASE sync' = [sync EXCEPT ![r].phase = "trace",
                                    ![r].current = GetCurrentBlockState(db')]
      <3> DEFINE new == [sync[r] EXCEPT !.phase = "trace",
                                        !.current = GetCurrentBlockState(db')]
      <3>1. sync[r] \in SyncLocals(OpStates)
        BY <1>1, ActiveFacts
      <3>2. sync' = [sync EXCEPT ![r] = new]
        BY <2>2
      <3>3. sync'[r] = new /\ new.phase = "trace"
        BY <3>1, <3>2 DEF IndInv, TypeOK, TypeInvariant, SyncLocals
      <3> HIDE DEF new
      <3>4. SyncLinked(r)'
        BY <3>3 DEF SyncLinked
      <3> QED
        BY <1>1, <3>2, <3>4, SyncLinkedStep
    <2> QED
      BY <2>1, <2>2
  <1> QED
    BY <1>4, <1>5 DEF LinkedInv

\* The block committed is a child of the current one.
LEMMA CommitBlockLinked ==
    ASSUME ~strayed, IndInv, LinkedInv, NEW r \in Syncs, CommitBlock(r)
    PROVE  LinkedInv'
  <1> USE DEF CommitBlock
  <1> DEFINE top   == GetCurrentBlockState(db)
             b     == sync[r].block
             state == [sync[r].state EXCEPT !.indexedBlockHeight = sync[r].height]
             d     == IndexTransactions(db, b, TxsOf(b), BlockTime(b))
             new   == [sync[r] EXCEPT !.phase = "emit", !.state = state]
  <1>1. sync[r].phase = "block" /\ db.opState # NoState /\ sync[r] \in SyncLocals(OpStates)
    BY ActiveFacts
  <1>2. /\ b \in Blocks /\ Height[b] = Height[top] + 1 /\ db \in Stores(OpStates)
        /\ top \in Lineage[b]
    BY <1>1 DEF IndInv, SyncConsistent, TypeOK, TypeInvariant, LinkedInv, SyncLinked
  <1>3. d \in Stores(OpStates) /\ d.blockState = db.blockState
    <2>1. TxsOf(b) \in SUBSET Txids /\ \A t \in TxsOf(b) : BlockTime(b)[t] \in Nat
      BY <1>2, BlockTimeType
    <2> QED
      BY <1>2, <2>1, IndexTransactionsType, IndexTransactionsStates
  <1>4. db' = SetState(d, state, b) /\ sync' = [sync EXCEPT ![r] = new]
    BY <1>1 DEF SyncLocals
  <1> HIDE DEF d, b, state
  <1>5. Contiguous(d) /\ OnOneBranch(d) /\ GetCurrentBlockState(d) = top
    BY <1>1, <1>3, TopFacts
    DEF LinkedInv, OnOneBranch, Contiguous, GetCurrentBlockState, IndexedHeights
  <1>6. OnOneBranch(SetState(d, state, b))
    <2>1. Height[b] = Height[GetCurrentBlockState(d)] + 1 /\ GetCurrentBlockState(d) \in Lineage[b]
      BY <1>2, <1>5
    <2> QED
      BY <1>2, <1>3, <1>5, <2>1, AppendOnOneBranch
  <1>7. /\ sync'[r] = new /\ new.phase = "emit" /\ new.block = sync[r].block
        /\ new.height = sync[r].height /\ new.tipHeight = sync[r].tipHeight
    BY <1>1, <1>4 DEF IndInv, TypeOK, TypeInvariant, SyncLocals
  <1> HIDE DEF new
  <1>8. SyncLinked(r)'
    BY <1>1, <1>7 DEF LinkedInv, SyncLinked
  <1> QED
    BY <1>1, <1>4, <1>6, <1>8, SyncLinkedStep DEF LinkedInv

\* No step of a sync is one of the node.
LEMMA SyncStepStrayed ==
    ASSUME NEW r \in Syncs, SyncStep(r)
    PROVE  strayed' = strayed
  BY DEF SyncStep, NextSyncStep, StartSync, StateNotFound, NoNewBlocks, NewBlocksFound,
         AnswerTrace, TraceMatches, TraceMismatches, RequestFails, AnswerBlockHash, CommitBlock,
         EmitIndexedBlock

\* Every step of a sync keeps the branch.
LEMMA SyncStepLinked ==
    ASSUME ~strayed, IndInv, LinkedInv, NEW r \in Syncs, SyncStep(r)
    PROVE  LinkedInv'
  <1>1. CASE StartSync(r) \/ StateNotFound(r) \/ NewBlocksFound(r)
    <2>1. \A s \in Syncs : sync'[s].phase \in {"idle", "tip", "hash", "trace"}
      <3>1. CASE StartSync(r) \/ StateNotFound(r)
        <4>1. \A s \in Syncs : sync[s].phase = "idle"
          BY <3>1, IdleFacts DEF StartSync, StateNotFound, CronFires
        <4> QED
          BY <3>1, <4>1 DEF StartSync, StateNotFound, IndInv, TypeOK, TypeInvariant, Idle
      <3>2. CASE NewBlocksFound(r)
        BY <3>2, ActiveFacts DEF NewBlocksFound, IndInv, TypeOK, TypeInvariant, SyncLocals
      <3> QED
        BY <1>1, <3>1, <3>2
    <2>2. \A s \in Syncs : sync'[s].phase # "hash"
      <3>1. CASE StartSync(r) \/ StateNotFound(r)
        <4>1. \A s \in Syncs : sync[s].phase = "idle"
          BY <3>1, IdleFacts DEF StartSync, StateNotFound, CronFires
        <4> QED
          BY <3>1, <4>1 DEF StartSync, StateNotFound, IndInv, TypeOK, TypeInvariant, Idle
      <3>2. CASE NewBlocksFound(r)
        <4>1. GetCurrentBlockState(db) # NoBlock
          BY <3>2, ActiveFacts, TopFacts, LedgerTypes DEF NewBlocksFound
        <4> QED
          BY <3>2, <4>1, ActiveFacts
          DEF NewBlocksFound, IndInv, TypeOK, TypeInvariant, SyncLocals
      <3> QED
        BY <1>1, <3>1, <3>2
    <2> QED
      BY <1>1, <2>1, <2>2
      DEF StartSync, StateNotFound, NewBlocksFound, LinkedInv, SyncLinked
  <1>2. CASE NoNewBlocks(r) \/ RequestFails(r)
    BY <1>2, FinishSyncLinked DEF NoNewBlocks, RequestFails, MayFail, LinkedInv
  <1>3. CASE AnswerTrace(r)
    BY <1>3, AnswerTraceLinked
  <1>4. CASE TraceMatches(r)
    <2>1. sync[r].phase = "traced" /\ sync[r].block = sync[r].current
      BY <1>4 DEF TraceMatches
    <2>2. sync[r].current = GetCurrentBlockState(db)
      BY <2>1 DEF IndInv, SyncConsistent
    <2> QED
      BY <1>4, <2>1, <2>2, ContinueAtLinked DEF TraceMatches
  <1>5. CASE TraceMismatches(r)
    BY <1>5, TraceMismatchesLinked
  <1>6. CASE AnswerBlockHash(r, sync[r].state)
    BY <1>6, AnswerBlockHashLinked
  <1>7. CASE CommitBlock(r)
    BY <1>7, CommitBlockLinked
  <1>8. CASE EmitIndexedBlock(r)
    <2>1. sync[r].phase = "emit"
      BY <1>8 DEF EmitIndexedBlock
    <2>2. /\ sync[r].block = GetCurrentBlockState(db)
          /\ sync[r].height = Height[GetCurrentBlockState(db)]
      BY <2>1 DEF IndInv, SyncConsistent
    <2>3. ContinueAt(r, Height[GetCurrentBlockState(db)] + 1) /\ UNCHANGED <<tip, strayed, db>>
      BY <1>8, <2>2 DEF EmitIndexedBlock
    <2> QED
      BY <2>1, <2>2, <2>3, ContinueAtLinked
  <1> QED
    BY <1>1, <1>2, <1>3, <1>4, <1>5, <1>6, <1>7, <1>8 DEF SyncStep, NextSyncStep

\* Every step does, or the node has strayed.
LEMMA NextLinked ==
    ASSUME IndInv, LinkedInv, [Next]_vars
    PROVE  LinkedInv'
  <1> SUFFICES ASSUME ~strayed' PROVE LinkedInv'
    BY DEF LinkedInv
  <1>1. CASE UNCHANGED vars
    BY <1>1 DEF vars, LinkedInv, SyncLinked
  <1>2. ASSUME NEW b \in Blocks, NodeAdvances(b) PROVE LinkedInv'
    BY <1>2, NodeAdvancesLinked
  <1>3. CASE StartProcess
    BY <1>3 DEF StartProcess, LinkedInv, SyncLinked
  <1>4. CASE BootstrapCommits
    BY <1>4, BootstrapCommitsLinked DEF BootstrapCommits, SaveInitialState
  <1>5. CASE Crash
    BY <1>5 DEF Crash, LinkedInv, SyncLinked, Idle
  <1>6. ASSUME NEW r \in Syncs, SyncStep(r) PROVE LinkedInv'
    BY <1>6, SyncStepLinked, SyncStepStrayed
  <1> QED
    BY <1>1, <1>2, <1>3, <1>4, <1>5, <1>6 DEF Next

\* The inductive invariant of the branch.
THEOREM BranchInvariance == Spec => []LinkedInv
  <1>1. Init => LinkedInv
    <2> SUFFICES ASSUME Init PROVE LinkedInv
      OBVIOUS
    <2>1. IndexedHeights(db) = {}
      BY DEF Init, BaseInit, StoreInit, EmptyStore, IndexedHeights
    <2> QED
      BY <2>1 DEF LinkedInv, OnOneBranch, SyncLinked, Init, BaseInit, Idle
  <1>2. IndInv /\ LinkedInv /\ [Next]_vars => LinkedInv'
    BY NextLinked
  <1> QED
    BY <1>1, <1>2, Invariance, PTL DEF Spec

\* The indexed blocks are one branch of the tree, as long as the node does not
\* leave the branch of a sync in flight.
THEOREM BranchIntegrity == Spec => []Linked
  <1>1. LinkedInv => Linked
    BY DEF LinkedInv, Linked, OnOneBranch
  <1> QED
    BY <1>1, BranchInvariance, PTL

-----------------------------------------------------------------------------
(* Rollbacks *)

\* The bootstrap writes to a store without block states.
LEMMA BootstrapKeepsBelowTop ==
    ASSUME IndInv, BootstrapCommits
    PROVE  KeepsBelowTop
  <1>1. IndexedHeights(db) = {}
    BY DEF IndInv, BootConsistent, GapFree, BootstrapCommits, SaveInitialState
  <1> QED
    BY <1>1 DEF KeepsBelowTop, IndexedHeights

\* A commit writes above the current block state, over none.
LEMMA CommitKeepsBelowTop ==
    ASSUME IndInv, NEW r \in Syncs, CommitBlock(r)
    PROVE  KeepsBelowTop
  <1> DEFINE top == GetCurrentBlockState(db)
             b   == sync[r].block
             d   == IndexTransactions(db, b, TxsOf(b), BlockTime(b))
  <1>1. sync[r].phase = "block" /\ db.opState # NoState
    BY ActiveFacts DEF CommitBlock
  <1>2. /\ b \in Blocks /\ Height[b] = Height[top] + 1 /\ db \in Stores(OpStates)
    BY <1>1 DEF IndInv, SyncConsistent, TypeOK, TypeInvariant
  <1>3. d \in Stores(OpStates) /\ d.blockState = db.blockState
    <2>1. TxsOf(b) \in SUBSET Txids /\ \A t \in TxsOf(b) : BlockTime(b)[t] \in Nat
      BY <1>2, BlockTimeType
    <2> QED
      BY <1>2, <2>1, IndexTransactionsType, IndexTransactionsStates
  <1>4. \E state : db' = SetState(d, state, b)
    BY DEF CommitBlock
  <1> HIDE DEF d, b
  <1>5. db'.blockState = [db.blockState EXCEPT ![Height[b]] = b]
    BY <1>3, <1>4 DEF SetState, Stores
  <1>6. Height[b] \notin IndexedHeights(db)
    <2>1. IndexedHeights(db) = BaseHeight..Height[top] /\ Height[top] \in Nat
      BY <1>1, TopFacts, ContiguousTop
    <2> QED
      BY <1>2, <2>1, HeightType
  <1> QED
    BY <1>2, <1>5, <1>6 DEF KeepsBelowTop, IndexedHeights, Stores

\* A rollback deletes the current block state alone, the one the node was asked about.
LEMMA RollbackKeepsBelowTop ==
    ASSUME IndInv, NEW r \in Syncs, TraceMismatches(r)
    PROVE  KeepsBelowTop
  <1> DEFINE top == GetCurrentBlockState(db)
  <1>1. sync[r].phase = "traced" /\ db.opState # NoState
    BY ActiveFacts DEF TraceMismatches
  <1>2. sync[r].current = top /\ db \in Stores(OpStates)
    BY <1>1 DEF IndInv, SyncConsistent, TypeOK, TypeInvariant
  <1>3. /\ db'.blockState = [db.blockState EXCEPT ![Height[top]] = NoBlock]
        /\ db'.opState = db.opState
    <2>1. db' = RemoveState(db, top)
      BY <1>2 DEF TraceMismatches
    <2> QED
      BY <1>2, <2>1, RemoveStateStates
  <1>4. Height[top] = Max(IndexedHeights(db))
    BY <1>1, TopFacts, ContiguousTop, MaxOfInterval, HeightType
  <1>5. db.blockState \in [Heights -> Blocks \cup {NoBlock}]
    BY <1>2 DEF Stores
  <1>6. /\ sync[r].current = db.blockState[Height[top]]
        /\ sync[r].block # db.blockState[Height[top]]
    BY <1>1, <1>2, TopFacts, ContiguousTop DEF TraceMismatches
  <1> HIDE DEF top
  <1> QED
    BY <1>1, <1>3, <1>4, <1>5, <1>6 DEF KeepsBelowTop

\* No step takes away or replaces a block state but the topmost.
LEMMA NextKeepsBelowTop ==
    ASSUME IndInv, [Next]_vars
    PROVE  KeepsBelowTop
  <1>1. CASE UNCHANGED db
    BY <1>1 DEF KeepsBelowTop
  <1>2. CASE BootstrapCommits
    BY <1>2, BootstrapKeepsBelowTop
  <1>3. ASSUME NEW r \in Syncs, TraceMismatches(r) PROVE KeepsBelowTop
    BY <1>3, RollbackKeepsBelowTop
  <1>4. ASSUME NEW r \in Syncs, CommitBlock(r) PROVE KeepsBelowTop
    BY <1>4, CommitKeepsBelowTop
  <1> QED
    BY <1>1, <1>2, <1>3, <1>4
    DEF Next, vars, NodeAdvances, StartProcess, Crash, SyncStep, NextSyncStep, StartSync,
        StateNotFound, NoNewBlocks, NewBlocksFound, AnswerTrace, TraceMatches, AnswerBlockHash,
        RequestFails, EmitIndexedBlock

\* No step but the trace's rollback of the topmost block state takes one away.
THEOREM RollbackFromTheTop == Spec => OnlyTopRolledBack
  <1>1. IndInv /\ [Next]_vars => [KeepsBelowTop]_vars
    BY NextKeepsBelowTop
  <1> QED
    BY <1>1, Invariance, PTL DEF Spec, OnlyTopRolledBack

-----------------------------------------------------------------------------
(* The provider implements BlockStore and ChainView while the node does not *)
(* stray: its index is exactly that of the indexed blocks.                  *)

\* The bootstrap's write is the store's first.
LEMMA BootstrapSavesBaseState ==
    ASSUME IndInv, BootstrapCommits
    PROVE  db'.opState # NoState /\ SaveBaseState(db'.opState)
  <1>1. BlockAt(tip, BaseHeight) = BaseBlock
    BY HeightType, BlockAtType, BaseIsOnly DEF IndInv, TypeOK, TypeInvariant
  <1>2. db' = SetState(db, InitialState, BaseBlock) /\ boot = "hash"
    BY <1>1 DEF BootstrapCommits, SaveInitialState
  <1>3. db.opState = NoState /\ db \in Stores(OpStates)
    BY <1>2 DEF IndInv, BootConsistent, TypeOK, TypeInvariant
  <1>4. db'.opState = InitialState
    BY <1>2, <1>3 DEF SetState, Stores
  <1>5. InitialState # NoState
    BY HeightType, NoStateIsNone DEF InitialState, OpStates
  <1> QED
    BY <1>2, <1>3, <1>4, <1>5 DEF SaveBaseState

\* A rollback of the trace is one of the store: the base block's hash is never
\* found to differ.
LEMMA MismatchRollsBack ==
    ASSUME IndInv, NEW r \in Syncs, TraceMismatches(r)
    PROVE  RollBack
  <1>1. sync[r].phase = "traced" /\ sync[r].block # sync[r].current /\ db.opState # NoState
    BY ActiveFacts DEF TraceMismatches
  <1>2. /\ sync[r].current = GetCurrentBlockState(db)
        /\ sync[r].block \in Blocks
        /\ Height[sync[r].block] = Height[GetCurrentBlockState(db)]
    BY <1>1 DEF IndInv, SyncConsistent
  <1>3. GetCurrentBlockState(db) \in Blocks /\ GetCurrentBlockState(db) # BaseBlock
    BY <1>1, <1>2, TopFacts, BaseIsOnly DEF BaseHeight
  <1> QED
    BY <1>2, <1>3 DEF TraceMismatches, RollBack

\* The block committed is a child of the current one.
LEMMA CommitIndexesBlock ==
    ASSUME ~strayed, IndInv, LinkedInv, NEW r \in Syncs, CommitBlock(r)
    PROVE  /\ db'.opState # NoState
           /\ \E b \in Blocks : IndexBlock(b, db'.opState)
  <1> DEFINE b     == sync[r].block
             state == [sync[r].state EXCEPT !.indexedBlockHeight = sync[r].height]
             d     == IndexTransactions(db, b, TxsOf(b), BlockTime(b))
  <1>1. sync[r].phase = "block" /\ sync[r] \in SyncLocals(OpStates) /\ sync[r].state = db.opState
    BY ActiveFacts DEF CommitBlock
  <1>2. db.opState # NoState
    BY <1>1, ActiveFacts
  <1>3. /\ b \in Blocks /\ Height[b] = Height[GetCurrentBlockState(db)] + 1
        /\ db \in Stores(OpStates) /\ GetCurrentBlockState(db) \in Lineage[b]
    BY <1>1 DEF IndInv, SyncConsistent, TypeOK, TypeInvariant, LinkedInv, SyncLinked
  <1>4. state \in OpStates
    <2>1. sync[r].state \in OpStates /\ sync[r].height \in Nat
      BY <1>1, <1>2 DEF SyncLocals
    <2> QED
      BY <2>1 DEF OpStates
  <1>5. d \in Stores(OpStates)
    <2>1. TxsOf(b) \in SUBSET Txids /\ \A t \in TxsOf(b) : BlockTime(b)[t] \in Nat
      BY <1>3, BlockTimeType
    <2> QED
      BY <1>3, <2>1, IndexTransactionsType
  <1>6. db' = SetState(d, state, b)
    BY DEF CommitBlock
  <1>7. db'.opState = state
    <2> HIDE DEF d, state, b
    <2> QED
      BY <1>5, <1>6 DEF SetState, Stores
  <1>8. IndexBlock(b, state)
    BY <1>3, <1>6 DEF IndexBlock
  <1> QED
    BY <1>3, <1>4, <1>7, <1>8, NoStateIsNone

\* A step changes the store as a step of BlockStore does, or not at all, or it
\* is one of the node straying.
LEMMA StepOfStore ==
    ASSUME IndInv, LinkedInv, [Next]_vars, ~strayed'
    PROVE  [StoreNext(db'.opState)]_db /\ ~strayed
  <1>1. ~strayed
    BY SyncStepStrayed
    DEF Next, vars, NodeAdvances, StartProcess, BootstrapCommits, SaveInitialState, Crash
  <1>2. CASE UNCHANGED db
    BY <1>1, <1>2
  <1>3. CASE BootstrapCommits
    BY <1>1, <1>3, BootstrapSavesBaseState DEF StoreNext
  <1>4. ASSUME NEW r \in Syncs, TraceMismatches(r) PROVE StoreNext(db'.opState)
    BY <1>4, MismatchRollsBack DEF StoreNext
  <1>5. ASSUME NEW r \in Syncs, CommitBlock(r) PROVE StoreNext(db'.opState)
    BY <1>1, <1>5, CommitIndexesBlock DEF StoreNext
  <1> QED
    BY <1>1, <1>2, <1>3, <1>4, <1>5
    DEF Next, vars, NodeAdvances, StartProcess, Crash, SyncStep, NextSyncStep, StartSync,
        StateNotFound, NoNewBlocks, NewBlocksFound, AnswerTrace, TraceMatches, AnswerBlockHash,
        RequestFails, EmitIndexedBlock

\* The store changes block by block until the node strays.
THEOREM BlockStoreImplementation == Spec => ImplementsBlockStore
  <1>1. Init => StoreInit
    BY DEF Init, BaseInit
  <1>2. IndInv /\ LinkedInv /\ [Next]_vars => [StoreNext(db'.opState) \/ strayed']_db
    BY StepOfStore
  <1> QED
    BY <1>1, <1>2, Invariance, BranchInvariance, PTL DEF Spec, ImplementsBlockStore

\* What the store keeps for any sequence of such steps it keeps here.
THEOREM StoreIntegrity == Spec => [](~strayed => StoreInv)
  <1>1. Init => (~strayed => StoreInv)
    BY StoreInitInv DEF Init, BaseInit
  <1>2. IndInv /\ LinkedInv /\ (~strayed => StoreInv) /\ [Next]_vars => (~strayed => StoreInv)'
    <2> SUFFICES ASSUME IndInv, LinkedInv, ~strayed => StoreInv, [Next]_vars, ~strayed'
                 PROVE  StoreInv'
      OBVIOUS
    <2>1. [StoreNext(db'.opState)]_db /\ ~strayed
      BY StepOfStore
    <2>2. StoreInv
      BY <2>1
    <2>3. CASE UNCHANGED db
      BY <2>2, <2>3 DEF StoreInv, StoreTyped, StoreOnBranch, StoreExact, StoreSpent,
                        TransactionExact, IndexedBlocks
    <2>4. CASE StoreNext(db'.opState)
      BY <2>2, <2>4, SaveBaseStateInv, IndexBlockInv, RollBackInv DEF StoreNext
    <2> QED
      BY <2>1, <2>3, <2>4
  <1> QED
    BY <1>1, <1>2, Invariance, BranchInvariance, PTL DEF Spec

\* The records and indexes are those of the indexed blocks and nothing else.
THEOREM IndexExactness == Spec => []IndexExact
  <1>1. (~strayed => StoreInv) => IndexExact
    BY DEF StoreInv, IndexExact
  <1> QED
    BY <1>1, StoreIntegrity, PTL

\* No output an indexed block spends is served as unspent.
THEOREM SpentMarking == Spec => []SpentMarked
  <1>1. (~strayed => StoreInv) => SpentMarked
    BY DEF StoreInv, SpentMarked
  <1> QED
    BY <1>1, StoreIntegrity, PTL

-----------------------------------------------------------------------------
\* The transactions served at a height: those of the block indexed there.
ServedExact ==
    \A h \in Heights :
        {t \in Txids : <<h, t>> \in db.heightIndex} =
            IF db.blockState[h] \in Blocks \ {BaseBlock}
            THEN Eligible(TxsOf(db.blockState[h])) ELSE {}

\* StoreExact gives the view of the heights.
LEMMA ServedExactness == StoreInv => ServedExact
  <1> SUFFICES ASSUME StoreInv, NEW h \in Heights
               PROVE  {t \in Txids : <<h, t>> \in db.heightIndex} =
                          IF db.blockState[h] \in Blocks \ {BaseBlock}
                          THEN Eligible(TxsOf(db.blockState[h])) ELSE {}
    BY DEF ServedExact
  <1>1. /\ db.heightIndex = UNION {{Height[b]} \X Eligible(TxsOf(b)) : b \in IndexedBlocks}
        /\ db \in Stores({db.opState})
    BY DEF StoreInv, StoreExact, StoreTyped
  <1>2. \A c \in IndexedBlocks : /\ c \in Blocks \ {BaseBlock}
                                 /\ db.blockState[Height[c]] = c
    <2>1. CASE IndexedHeights(db) = {}
      BY <2>1 DEF IndexedBlocks
    <2>2. CASE Contiguous(db) /\ OnOneBranch(db)
      BY <1>1, <2>2, IndexedOnBranch
    <2> QED
      BY <2>1, <2>2 DEF StoreInv, StoreOnBranch
  <1>3. db.blockState[h] \in Blocks \ {BaseBlock} =>
           db.blockState[h] \in IndexedBlocks /\ Height[db.blockState[h]] = h
    <2>1. db.blockState[h] # NoBlock => Contiguous(db)
      BY DEF StoreInv, StoreOnBranch, IndexedHeights
    <2> QED
      BY <2>1, LedgerTypes DEF IndexedBlocks, IndexedHeights, Contiguous
  <1>4. \A b \in Blocks : Eligible(TxsOf(b)) \subseteq Txids
    BY LedgerTypes DEF Eligible, TxsOf, Range
  <1> QED
    BY <1>1, <1>2, <1>3, <1>4

\* Where the block state is replaced by b's the transactions served are b's.
LEMMA ServedChanges ==
    ASSUME ServedExact, ServedExact', NEW n \in Heights, NEW new,
           db'.blockState = [db.blockState EXCEPT ![n] = new], db \in Stores({db.opState})
    PROVE  [h \in Heights |-> {t \in Txids : <<h, t>> \in db'.heightIndex}] =
               [[h \in Heights |-> {t \in Txids : <<h, t>> \in db.heightIndex}] EXCEPT
                   ![n] = IF new \in Blocks \ {BaseBlock} THEN Eligible(TxsOf(new)) ELSE {}]
  <1> DEFINE S(h) == {t \in Txids : <<h, t>> \in db.heightIndex}
             T(h) == {t \in Txids : <<h, t>> \in db'.heightIndex}
             N    == IF new \in Blocks \ {BaseBlock} THEN Eligible(TxsOf(new)) ELSE {}
  <1>1. DOMAIN db.blockState = Heights
    BY DEF Stores
  <1>2. \A h \in Heights : h # n => T(h) = S(h)
    BY <1>1 DEF ServedExact
  <1>3. T(n) = N
    BY <1>1 DEF ServedExact
  <1> HIDE DEF S, T, N
  <1>4. [h \in Heights |-> T(h)] = [[h \in Heights |-> S(h)] EXCEPT ![n] = N]
    BY <1>2, <1>3
  <1> QED
    BY <1>4 DEF S, T, N

\* A step of the store is one of the view.
LEMMA StoreStepOfView ==
    ASSUME StoreInv, StoreInv', ServedExact, ServedExact', StoreNext(db'.opState),
           UNCHANGED strayed
    PROVE  View!Next
  <1> DEFINE top == GetCurrentBlockState(db)
  <1>1. db \in Stores({db.opState}) /\ NoBlock \notin Blocks /\ BaseBlock \in Blocks
    BY LedgerTypes DEF StoreInv, StoreTyped
  <1>2. top # NoBlock => Contiguous(db) /\ OnOneBranch(db) /\ top \in Blocks
    BY DEF StoreInv, StoreOnBranch, GetCurrentBlockState, Contiguous
  <1>3. ASSUME SaveBaseState(db'.opState) PROVE View!Begin
    <2>1. IndexedHeights(db) = {} /\ db' = SetState(db, db'.opState, BaseBlock)
      BY <1>3 DEF StoreInv, StoreOnBranch, SaveBaseState
    <2>2. top = NoBlock
      BY <2>1 DEF GetCurrentBlockState
    <2>3. GetCurrentBlockState(SetState(db, db'.opState, BaseBlock)) = BaseBlock
      BY <1>1, <2>1, FirstBlockState
    <2>4. GetCurrentBlockState(db') = BaseBlock
      BY <2>1, <2>3
    <2>5. db'.heightIndex = db.heightIndex
      BY <1>1, <2>1 DEF SetState, Stores
    <2> QED
      BY <2>2, <2>4, <2>5 DEF View!Begin
  <1>4. ASSUME NEW b \in Blocks, NEW state, IndexBlock(b, state) PROVE View!Extend(b)
    <2> DEFINE d == IndexTransactions(db, b, TxsOf(b), BlockTime(b))
    <2>1. /\ top \in Lineage[b] /\ Height[b] = Height[top] + 1
          /\ db' = SetState(d, state, b)
      BY <1>4 DEF IndexBlock
    <2>2. top # NoBlock
      BY <1>1, <2>1, LedgerTypes
    <2>3. TxsOf(b) \in SUBSET Txids /\ \A t \in TxsOf(b) : BlockTime(b)[t] \in Nat
      BY BlockTimeType
    <2>4. d \in Stores({db.opState}) /\ d.blockState = db.blockState
      BY <1>1, <2>3, IndexTransactionsType, IndexTransactionsStates
    <2> HIDE DEF d
    <2>5. Contiguous(d) /\ GetCurrentBlockState(d) = top
      BY <1>2, <2>2, <2>4 DEF Contiguous, GetCurrentBlockState, IndexedHeights
    <2>6. Height[b] = Height[GetCurrentBlockState(d)] + 1
      BY <2>1, <2>5
    <2>7. GetCurrentBlockState(SetState(d, state, b)) = b
      <3>1. Contiguous(d)
        BY <2>5
      <3> QED
        BY ONLY b \in Blocks, <2>4, <2>6, <3>1, AppendBlockState
    <2>8. GetCurrentBlockState(db') = b
      BY <2>1, <2>7
    <2>9. /\ db'.blockState = [db.blockState EXCEPT ![Height[b]] = b]
          /\ Height[b] \in Heights
      BY <1>1, <1>4, IndexBlockEffect DEF Heights
    <2>10. b # BaseBlock
      BY <2>1, <2>2, <1>2, HeightType, ContiguousTop DEF BaseHeight
    <2>11. [h \in Heights |-> {t \in Txids : <<h, t>> \in db'.heightIndex}] =
              [[h \in Heights |-> {t \in Txids : <<h, t>> \in db.heightIndex}] EXCEPT
                  ![Height[b]] = Eligible(TxsOf(b))]
      <3>1. Eligible(TxsOf(b)) = IF b \in Blocks \ {BaseBlock} THEN Eligible(TxsOf(b)) ELSE {}
        BY <2>10
      <3> QED
        BY <1>1, <2>9, <3>1, ServedChanges
    <2>12. View!Eligible(View!TxsOf(b)) = Eligible(TxsOf(b))
      BY DEF View!Eligible, View!TxsOf, View!Range, Eligible, TxsOf, Range
    <2> QED
      BY <2>1, <2>2, <2>8, <2>11, <2>12 DEF View!Extend, View!IsParent
  <1>5. ASSUME RollBack PROVE \E p \in Blocks : View!Rollback(p)
    <2> DEFINE p == GetCurrentBlockState(db')
    <2>1. top \in Blocks \ {BaseBlock} /\ db' = RemoveState(db, top) /\ top # NoBlock
      BY <1>1, <1>5 DEF RollBack
    <2> DEFINE q == GetCurrentBlockState(RemoveState(db, top))
    <2>2. p = q
      BY <2>1
    <2>3. /\ RemoveState(db, top).blockState = [db.blockState EXCEPT ![Height[top]] = NoBlock]
          /\ q = db.blockState[Height[top] - 1]
          /\ Height[q] = Height[top] - 1
          /\ Contiguous(RemoveState(db, top))
      BY <1>1, <1>2, <2>1, RemoveTopBlockState
    <2>4. /\ db'.blockState = [db.blockState EXCEPT ![Height[top]] = NoBlock]
          /\ Height[top] \in Heights
      BY <2>1, <2>3 DEF Heights
    <2>5. q \in Blocks
      BY <2>3 DEF Contiguous
    <2>6. IndexedHeights(db) = BaseHeight..Height[top] /\ Height[top] \in Nat /\ Height[q] \in Nat
      BY <1>2, <2>1, <2>5, ContiguousTop, HeightType
    <2>7. Height[top] - 1 \in IndexedHeights(db)
      <3>1. Height[top] - 1 \in Heights
        BY <2>3, <2>5 DEF Heights
      <3> QED
        BY <1>1, <2>3, <2>5, <3>1 DEF IndexedHeights
    <2>8. q \in Lineage[top]
      BY <1>2, <2>1, <2>3, <2>7 DEF OnOneBranch
    <2>9. [h \in Heights |-> {t \in Txids : <<h, t>> \in db'.heightIndex}] =
              [[h \in Heights |-> {t \in Txids : <<h, t>> \in db.heightIndex}] EXCEPT
                  ![Height[top]] = {}]
      BY <1>1, <2>4, ServedChanges
    <2>10. Height[top] = Height[q] + 1
      BY <2>3, <2>6
    <2> HIDE DEF q
    <2> QED
      BY <2>1, <2>2, <2>5, <2>8, <2>9, <2>10 DEF View!Rollback, View!IsParent
  <1> QED
    BY <1>1, <1>3, <1>4, <1>5 DEF StoreNext, View!Next

\* The clients see a branch that grows by a child or loses its last block, and
\* at each height the transactions of its block, whatever fails or ends.
THEOREM ChainViewImplementation == Spec => ImplementsChainView
  <1>1. Init => View!Init
    <2> SUFFICES ASSUME Init PROVE View!Init
      OBVIOUS
    <2>1. db.heightIndex = {} /\ IndexedHeights(db) = {} /\ strayed = FALSE
      BY DEF Init, BaseInit, StoreInit, EmptyStore, IndexedHeights
    <2>2. GetCurrentBlockState(db) = NoBlock
      BY <2>1 DEF GetCurrentBlockState
    <2>3. [h \in Heights |-> {t \in Txids : <<h, t>> \in db.heightIndex}] = [h \in Heights |-> {}]
      BY <2>1
    <2> QED
      BY <2>1, <2>2, <2>3 DEF View!Init, View!Heights, Heights
  <1>2. ASSUME IndInv, IndInv', LinkedInv, ~strayed => StoreInv, (~strayed => StoreInv)',
               ~strayed => ServedExact, (~strayed => ServedExact)', [Next]_vars
        PROVE  View!Next \/ UNCHANGED <<GetCurrentBlockState(db),
                   [h \in Heights |-> {t \in Txids : <<h, t>> \in db.heightIndex}], strayed>>
    <2>1. CASE strayed'
      BY <2>1 DEF View!Next
    <2>2. CASE ~strayed'
      <3>1. [StoreNext(db'.opState)]_db /\ ~strayed
        BY <1>2, <2>2, StepOfStore
      <3>2. strayed \in BOOLEAN /\ strayed' \in BOOLEAN
        BY <1>2 DEF IndInv, TypeOK, TypeInvariant
      <3>3. UNCHANGED strayed
        BY <2>2, <3>1, <3>2
      <3>4. CASE UNCHANGED db
        BY <3>3, <3>4
      <3>5. CASE StoreNext(db'.opState)
        BY <1>2, <2>2, <3>1, <3>3, <3>5, StoreStepOfView
      <3> QED
        BY <3>1, <3>4, <3>5
    <2> QED
      BY <2>1, <2>2
  <1>3. (~strayed => StoreInv) => (~strayed => ServedExact)
    BY ServedExactness
  <1> QED
    BY <1>1, <1>2, <1>3, Invariance, BranchInvariance, StoreIntegrity, PTL
    DEF Spec, ImplementsChainView, View!Spec

-----------------------------------------------------------------------------
(* Broadcasts *)

\* A commit saves the block's eligible transactions under its height, on whichever
\* branch it is.
LEMMA CommitSaves ==
    ASSUME IndInv, NEW r \in Syncs, CommitBlock(r)
    PROVE  \A t \in Eligible(TxsOf(sync[r].block)) :
              db'.tx[t] = sync[r].block /\ <<Height[sync[r].block], t>> \in db'.heightIndex
  <1> DEFINE b     == sync[r].block
             saved == Eligible(TxsOf(b))
  <1>1. db \in Stores(OpStates) /\ b \in Blocks
    BY DEF CommitBlock, IndInv, TypeOK, TypeInvariant, SyncConsistent
  <1>2. saved \subseteq Txids
    BY <1>1, LedgerTypes DEF Eligible, TxsOf, Range
  <1>3. /\ db'.tx = [t \in Txids |-> IF t \in saved THEN b ELSE db.tx[t]]
        /\ db'.heightIndex = db.heightIndex \cup ({Height[b]} \X saved)
    BY <1>1 DEF CommitBlock, SetState, IndexTransactions, MarkOutputsSpent, SaveTransactions,
                Stores
  <1> HIDE DEF saved, b
  <1>4. \A t \in saved : db'.tx[t] = b /\ <<Height[b], t>> \in db'.heightIndex
    BY <1>2, <1>3
  <1> QED
    BY <1>4 DEF saved, b

\* Between its commit and its announcement nothing is written.
LEMMA EmitIsQuiet ==
    ASSUME IndInv, [Next]_vars, NEW r \in Syncs, sync'[r].phase = "emit"
    PROVE  \/ CommitBlock(r)
           \/ sync[r] = sync'[r] /\ UNCHANGED db
  <1>1. CASE UNCHANGED <<db, sync>>
    BY <1>1
  <1>2. CASE BootstrapCommits
    BY <1>2, IdleFacts DEF BootstrapCommits, SaveInitialState
  <1>3. CASE Crash
    BY <1>3 DEF Crash, Idle
  <1>4. ASSUME NEW s \in Syncs, StartSync(s) PROVE FALSE
    BY <1>4, IdleFacts DEF StartSync, CronFires, Idle, IndInv, TypeOK, TypeInvariant
  <1>5. ASSUME NEW s \in Syncs, sync[s].phase # "idle", SyncStep(s)
        PROVE  s = r /\ CommitBlock(r)
    <2>1. /\ sync[s] \in SyncLocals(OpStates) /\ \A q \in Syncs \ {s} : sync[q].phase = "idle"
          /\ sync \in [Syncs -> SyncLocals(OpStates)]
      BY <1>5, ActiveFacts DEF IndInv, TypeOK, TypeInvariant
    <2>2. CASE CommitBlock(s)
      BY <2>1, <2>2 DEF CommitBlock
    <2>3. ASSUME NEW new \in {"idle", "tip", "trace", "traced", "hash", "block"},
                 sync'[s].phase = new, \A q \in Syncs \ {s} : sync'[q] = sync[q]
          PROVE  FALSE
      BY <2>1, <2>3
    <2>7. CASE AnswerTrace(s) \/ AnswerBlockHash(s, sync[s].state)
      BY <2>1, <2>3, <2>7 DEF AnswerTrace, AnswerBlockHash, SyncLocals
    <2>8. CASE NewBlocksFound(s)
      BY <2>1, <2>3, <2>8 DEF NewBlocksFound, SyncLocals
    <2>9. CASE StartSync(s) \/ StateNotFound(s)
      BY <1>5, <2>9 DEF StartSync, StateNotFound, CronFires
    <2>4. CASE FinishSync(s)
      BY <2>1, <2>4 DEF FinishSync, Idle
    <2>5. ASSUME NEW h, ContinueAt(s, h) PROVE FALSE
      BY <2>1, <2>5 DEF ContinueAt, FinishSync, Idle, SyncLocals
    <2>6. CASE TraceMismatches(s)
      BY <2>1, <2>4, <2>6 DEF TraceMismatches, SyncLocals
    <2> QED
      BY <1>5, <2>2, <2>4, <2>5, <2>6, <2>7, <2>8, <2>9
      DEF SyncStep, NextSyncStep, NoNewBlocks, RequestFails, TraceMatches, EmitIndexedBlock
  <1>6. ASSUME NEW s \in Syncs, sync[s].phase = "idle", SyncStep(s)
        PROVE  StartSync(s) \/ UNCHANGED <<db, sync>>
    BY <1>6
    DEF SyncStep, NextSyncStep, StateNotFound, NoNewBlocks, NewBlocksFound, AnswerTrace,
        TraceMatches, TraceMismatches, RequestFails, MayFail, AnswerBlockHash, CommitBlock,
        EmitIndexedBlock
  <1> QED
    BY <1>1, <1>2, <1>3, <1>4, <1>5, <1>6 DEF Next, vars, NodeAdvances, StartProcess

\* What was committed is still there when it is announced, straying or not.
THEOREM CommitKept == Spec => []CommittedSaved
  <1>1. Init => CommittedSaved
    BY DEF Init, BaseInit, Idle, CommittedSaved
  <1>2. IndInv /\ CommittedSaved /\ [Next]_vars => CommittedSaved'
    <2> SUFFICES ASSUME IndInv, CommittedSaved, [Next]_vars,
                        NEW r \in Syncs, sync'[r].phase = "emit",
                        NEW t \in Eligible(TxsOf(sync'[r].block))
                 PROVE  /\ db'.tx[t] = sync'[r].block
                        /\ <<sync'[r].height, t>> \in db'.heightIndex
      BY DEF CommittedSaved
    <2>1. CASE sync[r] = sync'[r] /\ UNCHANGED db
      BY <2>1 DEF CommittedSaved
    <2>2. CASE CommitBlock(r)
      <3>1. /\ sync[r].phase = "block" /\ sync[r] \in SyncLocals(OpStates)
            /\ Height[sync[r].block] = sync[r].height
        BY <2>2 DEF CommitBlock, IndInv, TypeOK, TypeInvariant, SyncConsistent
      <3>2. sync'[r].block = sync[r].block /\ sync'[r].height = sync[r].height
        BY <2>2, <3>1 DEF CommitBlock, IndInv, TypeOK, TypeInvariant, SyncLocals
      <3> QED
        BY <2>2, <3>1, <3>2, CommitSaves
    <2> QED
      BY <2>1, <2>2, EmitIsQuiet
  <1> QED
    BY <1>1, <1>2, Invariance, PTL DEF Spec

\* What fetching saved, eligible transactions gives: each with all its outputs.
LEMMA FetchSaved ==
    ASSUME UnspentAgrees(db), NEW T \in SUBSET Txids, NEW S \in SUBSET T,
           \A t \in S : db.tx[t] # NoBlock /\ Outputs[t] # {}
    PROVE  LET all == {[id |-> t, outputs |-> OutpointsOf({t})] : t \in S}
           IN  /\ all \subseteq FetchTransactions(db, T, FALSE)
               /\ T = S => FetchTransactions(db, T, FALSE) = all
  <1>1. \A t \in S : GetOutputsForTxid(db, t, FALSE) = OutpointsOf({t})
    BY DEF UnspentAgrees, GetOutputsForTxid, OutpointsOf
  <1>2. \A t \in S : OutpointsOf({t}) # {}
    <2> SUFFICES ASSUME NEW t \in S PROVE OutpointsOf({t}) # {}
      OBVIOUS
    <2>1. PICK v \in Outputs[t] : TRUE
      OBVIOUS
    <2>2. <<t, v>> \in Outpoints
      BY <2>1 DEF Outpoints
    <2> QED
      BY <2>2 DEF OutpointsOf
  <1> DEFINE entry(t) == [id |-> t, outputs |-> GetOutputsForTxid(db, t, FALSE)]
             shown    == {u \in T : db.tx[u] # NoBlock /\ GetOutputsForTxid(db, u, FALSE) # {}}
  <1>3. S \subseteq shown /\ shown \subseteq T
    BY <1>1, <1>2
  <1>4. FetchTransactions(db, T, FALSE) = {entry(t) : t \in shown}
    BY DEF FetchTransactions
  <1>5. {entry(t) : t \in S} = {[id |-> t, outputs |-> OutpointsOf({t})] : t \in S}
    BY <1>1
  <1> HIDE DEF entry, shown
  <1> QED
    BY <1>3, <1>4, <1>5

\* The announcement of a block holds what the store holds of it.
LEMMA EmitExact ==
    ASSUME IndInv, CommittedSaved, ~strayed => ServedExact,
           NEW r \in Syncs, EmitIndexedBlock(r)
    PROVE  LET all == {[id |-> t, outputs |-> OutpointsOf({t})] :
                          t \in Eligible(TxsOf(db.blockState[silentBlock'.height]))}
           IN  /\ all \subseteq silentBlock'.txs
               /\ ~strayed => silentBlock'.txs = all
  <1> DEFINE h   == sync[r].height
             top == GetCurrentBlockState(db)
             S   == Eligible(TxsOf(top))
             T   == {t \in Txids : <<h, t>> \in db.heightIndex}
  <1>1. sync[r].phase = "emit" /\ db.opState # NoState
    BY ActiveFacts DEF EmitIndexedBlock
  <1>2. sync[r].block = top /\ h = Height[top]
    BY <1>1 DEF IndInv, SyncConsistent
  <1>3. /\ top \in Blocks /\ db.blockState[h] = top /\ h \in Heights
        /\ UnspentAgrees(db)
    BY <1>1, <1>2, TopFacts, ContiguousTop, HeightType DEF IndInv, UnspentIndexAgrees
  <1>4. /\ silentBlock'.height = h
        /\ silentBlock'.txs = FetchTransactions(db, T, FALSE)
    BY DEF EmitIndexedBlock, Broadcast, GetTransactionsByBlockHeight
  <1>5. S \in SUBSET Txids /\ \A t \in S : Outputs[t] # {}
    BY <1>3, LedgerTypes DEF Eligible, TxsOf, Range
  <1>6. \A t \in S : db.tx[t] # NoBlock /\ t \in T
    BY <1>1, <1>2, <1>3, <1>5, LedgerTypes DEF CommittedSaved
  <1>7. ~strayed => T = S
    BY <1>3, <1>6 DEF ServedExact
  <1> HIDE DEF S, T, h, top
  <1>8. S \in SUBSET T /\ T \in SUBSET Txids
    BY <1>6 DEF T
  <1>9. /\ {[id |-> t, outputs |-> OutpointsOf({t})] : t \in S} \subseteq silentBlock'.txs
        /\ T = S => silentBlock'.txs = {[id |-> t, outputs |-> OutpointsOf({t})] : t \in S}
    <2>1. UnspentAgrees(db) /\ \A t \in S : db.tx[t] # NoBlock /\ Outputs[t] # {}
      BY <1>3, <1>5, <1>6
    <2>2. /\ {[id |-> t, outputs |-> OutpointsOf({t})] : t \in S}
                \subseteq FetchTransactions(db, T, FALSE)
          /\ T = S => FetchTransactions(db, T, FALSE)
                         = {[id |-> t, outputs |-> OutpointsOf({t})] : t \in S}
      BY ONLY <1>8, <2>1, FetchSaved
    <2> QED
      BY <1>4, <2>2
  <1>10. Eligible(TxsOf(db.blockState[silentBlock'.height])) = S
    BY <1>3, <1>4 DEF S
  <1> QED
    BY <1>7, <1>9, <1>10

\* So the clients are sent every output of the block, the unspent ones among them.
LEMMA EmitOfBlock ==
    ASSUME IndInv, CommittedSaved, ~strayed => ServedExact,
           NEW r \in Syncs, EmitIndexedBlock(r)
    PROVE  LET outputs == OutpointsOf(TxsOf(db.blockState[silentBlock'.height]))
           IN  /\ outputs \subseteq SentOutputs'
               /\ ~strayed => SentOutputs' \subseteq outputs
  <1> DEFINE txs     == TxsOf(db.blockState[silentBlock'.height])
             all     == {[id |-> t, outputs |-> OutpointsOf({t})] : t \in Eligible(txs)}
             outputs == OutpointsOf(txs)
  <1>1. all \subseteq silentBlock'.txs /\ (~strayed => silentBlock'.txs = all)
    BY EmitExact
  <1>2. SentOutputs' = UNION {s.outputs : s \in silentBlock'.txs}
    BY DEF SentOutputs
  <1> HIDE DEF txs
  <1>3. \A o \in outputs : o[1] \in Eligible(txs) /\ o \in OutpointsOf({o[1]})
    BY DEF OutpointsOf, Outpoints, Eligible
  <1>4. outputs = UNION {s.outputs : s \in all}
    <2>1. \A t \in Eligible(txs) : OutpointsOf({t}) \subseteq outputs
      BY DEF OutpointsOf, Eligible
    <2>2. \A o \in outputs : \E s \in all : o \in s.outputs
      <3> SUFFICES ASSUME NEW o \in outputs PROVE \E s \in all : o \in s.outputs
        OBVIOUS
      <3>1. o[1] \in Eligible(txs) /\ o \in OutpointsOf({o[1]})
        BY <1>3
      <3>2. [id |-> o[1], outputs |-> OutpointsOf({o[1]})] \in all
        BY <3>1
      <3> QED
        BY <3>1, <3>2
    <2>3. \A s \in all : s.outputs \subseteq outputs
      <3> SUFFICES ASSUME NEW s \in all PROVE s.outputs \subseteq outputs
        OBVIOUS
      <3>1. PICK t \in Eligible(txs) : s = [id |-> t, outputs |-> OutpointsOf({t})]
        OBVIOUS
      <3>2. s.outputs = OutpointsOf({t})
        BY <3>1
      <3> QED
        BY <2>1, <3>2
    <2> HIDE DEF all, outputs
    <2> QED
      BY <2>2, <2>3
  <1>5. outputs \subseteq SentOutputs'
    <2> HIDE DEF all, outputs
    <2> QED
      BY <1>1, <1>2, <1>4
  <1>6. ~strayed => SentOutputs' \subseteq outputs
    <2> HIDE DEF all, outputs
    <2> QED
      BY <1>1, <1>2, <1>4
  <1> QED
    BY <1>5, <1>6 DEF txs

\* The clients are sent every unspent output of a block, and outputs of that block
\* alone unless the node has strayed.
THEOREM BroadcastSoundness == Spec => BroadcastOfBlock
  <1>1. ASSUME IndInv, CommittedSaved, ~strayed => ServedExact, [Next]_vars,
               silentBlock' # silentBlock
        PROVE  LET outputs == OutpointsOf(TxsOf(db.blockState[silentBlock'.height]))
               IN  /\ outputs \cap db.unspent \subseteq SentOutputs'
                   /\ ~strayed => SentOutputs' \subseteq outputs
    <2>1. \E r \in Syncs : EmitIndexedBlock(r)
      BY <1>1
      DEF Next, vars, NodeAdvances, StartProcess, BootstrapCommits, SaveInitialState, Crash,
          SyncStep, NextSyncStep, StartSync, StateNotFound, NoNewBlocks, NewBlocksFound,
          AnswerTrace, TraceMatches, TraceMismatches, AnswerBlockHash, RequestFails, CommitBlock
    <2> QED
      BY <1>1, <2>1, EmitOfBlock
  <1>2. (~strayed => StoreInv) => (~strayed => ServedExact)
    BY ServedExactness
  <1> QED
    BY <1>1, <1>2, Invariance, CommitKept, StoreIntegrity, PTL DEF Spec, BroadcastOfBlock

=============================================================================
