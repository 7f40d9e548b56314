------------------------ MODULE EsploraProvider_proofs ------------------------
(***************************************************************************)
(* The invariant IndInv of the Esplora provider is inductive, for every    *)
(* block tree, batch size and number of ticks, and LinkedInv as long as    *)
(* the node does not leave the branch of a sync in flight; the safety      *)
(* theorems that follow from them.                                         *)
(***************************************************************************)
EXTENDS EsploraProvider, BlockStore_proofs

-----------------------------------------------------------------------------
(* Consequences of the invariant used by every step *)

\* A store with an operation state has a current block state, not above the node's
\* best block, and no block state above it.
LEMMA TopFacts ==
    ASSUME IndInv, db.opState # NoState
    PROVE  LET top == GetCurrentBlockState(db)
           IN  /\ db \in Stores(OpStates) /\ Stacked(db)
               /\ top \in Blocks /\ top # NoBlock
               /\ Height[top] \in Nat /\ BaseHeight <= Height[top]
               /\ Height[top] \in IndexedHeights(db)
               /\ db.blockState[Height[top]] = top
               /\ \A h \in IndexedHeights(db) : h <= Height[top]
               /\ tip \in Blocks /\ Height[tip] \in Nat /\ Height[top] <= Height[tip]
  <1>1. db \in Stores(OpStates) /\ tip \in Blocks /\ Height[tip] \in Nat
    BY HeightType DEF IndInv, TypeOK, TypeInvariant
  <1>2. Stacked(db) /\ \A h \in IndexedHeights(db) : h <= Height[tip]
    BY DEF IndInv, StatesStacked
  <1> QED
    BY <1>1, <1>2, StackedTop, HeightType, LedgerTypes

\* An invocation in flight is alone, holds the flag and has a state to start from.
LEMMA ActiveFacts ==
    ASSUME IndInv, NEW r \in Syncs, sync[r].phase # "idle"
    PROVE  /\ isSyncing
           /\ boot = "done"
           /\ db.opState # NoState
           /\ db.opState \in OpStates
           /\ sync[r].state = db.opState
           /\ sync[r] \in SyncLocals(OpStates)
           /\ \A s \in Syncs \ {r} : sync[s].phase = "idle"
  BY DEF IndInv, SyncConsistent, BootConsistent, TypeOK, TypeInvariant, AtMostOneSync, Stores

\* No sync is in flight while the flag is cleared or the bootstrap has not ended.
LEMMA IdleFacts ==
    ASSUME IndInv, ~isSyncing \/ boot # "done"
    PROVE  \A r \in Syncs : sync[r].phase = "idle"
  BY DEF IndInv, SyncConsistent

\* A step that broadcasts nothing keeps the type of the last broadcast.
LEMMA SilentBlockKept ==
    ASSUME IndInv, UNCHANGED silentBlock
    PROVE  silentBlock' \in SilentBlocks
  BY DEF IndInv, TypeOK, TypeInvariant

\* The index of the next transaction of the block being indexed.
LEMMA NextTxIndexType ==
    ASSUME IndInv, NEW r \in Syncs, sync[r].phase # "idle"
    PROVE  NextTxIndex(r) \in Nat \ {0} /\ NextTxIndex(r) = db.opState.lastProcessedTxIndex + 1
  BY ActiveFacts DEF NextTxIndex, OpStates

-----------------------------------------------------------------------------
\* The empty store of a process not yet started satisfies the invariant.
LEMMA InitInv == Init => IndInv
  <1> SUFFICES ASSUME Init PROVE IndInv
    OBVIOUS
  <1> USE DEF Init, BaseInit, StoreInit
  <1>1. TypeOK
    BY LedgerTypes DEF TypeOK, TypeInvariant, EmptyStore, Stores, OutputStatus, SyncLocals, Idle,
                       Phases, SilentBlocks, NoSilentBlock
  <1>2. IndexedHeights(db) = {} /\ db.opState = NoState /\ \A t \in Txids : db.tx[t] = NoBlock
    BY DEF IndexedHeights, EmptyStore
  <1>3. UnspentIndexAgrees
    <2>1. \A o \in Outpoints : o[1] \in Txids
      BY DEF Outpoints
    <2> QED
      BY <2>1 DEF UnspentIndexAgrees, UnspentAgrees, EmptyStore
  <1>4. \A r \in Syncs : sync[r].phase = "idle"
    BY DEF Idle
  <1> QED
    BY <1>1, <1>2, <1>3, <1>4
    DEF IndInv, AtMostOneSync, BootConsistent, StatesStacked, SavedFromIndexed, SyncConsistent,
        GroupsInOrder

-----------------------------------------------------------------------------
(* Steps by the variables they change *)

\* Steps after which no invocation is in flight, the store kept.
LEMMA AllIdleInv ==
    ASSUME IndInv, UNCHANGED <<tip, strayed, db, silentBlock>>, isSyncing' \in BOOLEAN,
           boot' \in {"down", "hash", "done"}, BootConsistent',
           sync' \in [Syncs -> SyncLocals(OpStates)], \A r \in Syncs : sync'[r].phase = "idle"
    PROVE  IndInv'
  <1>1. TypeOK'
    BY DEF IndInv, TypeOK, TypeInvariant
  <1>2. UnspentIndexAgrees' /\ StatesStacked' /\ SavedFromIndexed'
    BY DEF IndInv, UnspentIndexAgrees, StatesStacked, SavedFromIndexed, IndexedBlocks
  <1>3. \A r \in Syncs : SyncConsistent(r)' /\ GroupsInOrder(r)'
    BY DEF SyncConsistent, GroupsInOrder
  <1> QED
    BY <1>1, <1>2, <1>3 DEF IndInv, AtMostOneSync

\* A step of the one sync in flight.
LEMMA OneSyncInv ==
    ASSUME IndInv, NEW r \in Syncs, sync[r].phase # "idle",
           UNCHANGED <<tip, strayed, boot, isSyncing>>, silentBlock' \in SilentBlocks,
           NEW new \in SyncLocals(OpStates), sync' = [sync EXCEPT ![r] = new],
           SyncConsistent(r)', GroupsInOrder(r)',
           db' \in Stores(OpStates), db'.opState # NoState, UnspentAgrees(db'),
           StatesStacked', SavedFromIndexed'
    PROVE  IndInv'
  <1>1. TypeOK'
    BY DEF IndInv, TypeOK, TypeInvariant
  <1>2. \A s \in Syncs \ {r} : sync'[s] = sync[s] /\ sync[s].phase = "idle"
    BY ActiveFacts DEF IndInv, TypeOK, TypeInvariant
  <1>3. boot = "done"
    BY ActiveFacts
  <1>4. \A s \in Syncs \ {r} : SyncConsistent(s)' /\ GroupsInOrder(s)'
    BY <1>2 DEF SyncConsistent, GroupsInOrder
  <1> QED
    BY <1>1, <1>2, <1>3, <1>4 DEF IndInv, AtMostOneSync, UnspentIndexAgrees, BootConsistent

\* One that leaves the store as it is.
LEMMA LocalStepInv ==
    ASSUME IndInv, NEW r \in Syncs, sync[r].phase # "idle",
           UNCHANGED <<tip, strayed, db, boot, isSyncing>>, silentBlock' \in SilentBlocks,
           NEW new \in SyncLocals(OpStates), sync' = [sync EXCEPT ![r] = new],
           SyncConsistent(r)', GroupsInOrder(r)'
    PROVE  IndInv'
  <1>1. db' \in Stores(OpStates) /\ db'.opState # NoState
    BY ActiveFacts DEF IndInv, TypeOK, TypeInvariant
  <1>2. UnspentAgrees(db') /\ StatesStacked' /\ SavedFromIndexed'
    BY DEF IndInv, UnspentIndexAgrees, StatesStacked, SavedFromIndexed, IndexedBlocks
  <1>3. UNCHANGED <<tip, strayed, boot, isSyncing>>
    OBVIOUS
  <1> QED
    BY ONLY IndInv, sync[r].phase # "idle", <1>1, <1>2, <1>3, OneSyncInv, r \in Syncs,
            silentBlock' \in SilentBlocks, new \in SyncLocals(OpStates),
            sync' = [sync EXCEPT ![r] = new], SyncConsistent(r)', GroupsInOrder(r)'

\* Clearing the flag and the locals of the one sync in flight.
LEMMA FinishSyncInv ==
    ASSUME IndInv, NEW r \in Syncs, sync[r].phase # "idle", FinishSync(r),
           UNCHANGED <<tip, strayed, db, boot>>, silentBlock' \in SilentBlocks
    PROVE  IndInv'
  <1> USE DEF FinishSync
  <1>1. \A s \in Syncs : sync'[s].phase = "idle"
    BY ActiveFacts DEF IndInv, TypeOK, TypeInvariant, Idle
  <1>2. TypeOK'
    BY DEF IndInv, TypeOK, TypeInvariant, SyncLocals, Idle, Phases
  <1>3. UnspentIndexAgrees' /\ StatesStacked' /\ SavedFromIndexed' /\ BootConsistent'
    BY DEF IndInv, UnspentIndexAgrees, StatesStacked, SavedFromIndexed, IndexedBlocks,
           BootConsistent
  <1>4. \A s \in Syncs : SyncConsistent(s)' /\ GroupsInOrder(s)'
    BY <1>1 DEF SyncConsistent, GroupsInOrder
  <1> QED
    BY <1>1, <1>2, <1>3, <1>4 DEF IndInv, AtMostOneSync

-----------------------------------------------------------------------------
(* One lemma per action *)

\* The node may only raise the height a sync has been told.
LEMMA NodeAdvancesInv ==
    ASSUME IndInv, NEW b \in Blocks, NodeAdvances(b)
    PROVE  IndInv'
  <1> USE DEF NodeAdvances
  <1>1. Height[tip] \in Nat /\ Height[b] \in Nat /\ Height[b] > Height[tip]
    BY HeightType DEF IndInv, TypeOK, TypeInvariant
  <1>2. TypeOK'
    BY DEF IndInv, TypeOK, TypeInvariant
  <1>3. StatesStacked'
    <2>1. \A h \in IndexedHeights(db) : h \in Nat
      BY HeightType DEF IndexedHeights, Heights
    <2> QED
      BY <1>1, <2>1 DEF IndInv, StatesStacked
  <1>4. \A r \in Syncs : SyncConsistent(r)' /\ GroupsInOrder(r)'
    <2> SUFFICES ASSUME NEW r \in Syncs PROVE SyncConsistent(r)' /\ GroupsInOrder(r)'
      OBVIOUS
    <2>1. sync[r].tipHeight \in Nat /\ SyncConsistent(r) /\ GroupsInOrder(r)
      BY DEF IndInv, TypeOK, TypeInvariant, SyncLocals
    <2> QED
      BY <1>1, <2>1 DEF SyncConsistent, GroupsInOrder, NextTxIndex
  <1>5. UnspentIndexAgrees' /\ SavedFromIndexed' /\ BootConsistent' /\ AtMostOneSync'
    BY DEF IndInv, UnspentIndexAgrees, SavedFromIndexed, IndexedBlocks, BootConsistent,
           AtMostOneSync
  <1> QED
    BY <1>2, <1>3, <1>4, <1>5 DEF IndInv

\* A start finds the states a former process has committed, or none.
LEMMA StartProcessInv ==
    ASSUME IndInv, StartProcess
    PROVE  IndInv'
  <1>1. \A r \in Syncs : sync[r].phase = "idle"
    BY IdleFacts DEF StartProcess
  <1> QED
    BY <1>1, AllIdleInv DEF StartProcess, BootConsistent, IndInv, TypeOK, TypeInvariant

\* A crash keeps the store and drops every invocation with the flag.
LEMMA CrashInv ==
    ASSUME IndInv, Crash
    PROVE  IndInv'
  <1>1. /\ sync' \in [Syncs -> SyncLocals(OpStates)]
        /\ \A r \in Syncs : sync'[r].phase = "idle"
    BY DEF Crash, SyncLocals, Idle, Phases
  <1> QED
    BY <1>1, AllIdleInv DEF Crash, BootConsistent

\* The bootstrap's commit makes the base block current; no sync is in flight then.
LEMMA BootstrapCommitsInv ==
    ASSUME IndInv, BootstrapCommits
    PROVE  IndInv'
  <1> USE DEF BootstrapCommits, SaveInitialState
  <1>1. \A r \in Syncs : sync[r].phase = "idle"
    BY IdleFacts
  <1>2. BlockAt(tip, BaseHeight) = BaseBlock
    BY HeightType, BlockAtType, BaseIsOnly DEF IndInv, TypeOK, TypeInvariant
  <1>3. db' = SetState(db, InitialState, BaseBlock) /\ db \in Stores(OpStates)
    BY <1>2 DEF IndInv, TypeOK, TypeInvariant
  <1>4. InitialState \in OpStates /\ BaseBlock \in Blocks /\ BaseBlock # NoBlock
    BY HeightType, LedgerTypes DEF InitialState, OpStates
  <1>5. TypeOK'
    BY <1>3, <1>4, SetStateType DEF IndInv, TypeOK, TypeInvariant
  <1>6. db'.opState = InitialState /\ InitialState # NoState
    BY <1>3, <1>4, NoStateIsNone DEF SetState, Stores
  <1>7. Contiguous(db') /\ GetCurrentBlockState(db') = BaseBlock
    <2>1. IndexedHeights(db) = {}
      BY DEF IndInv, BootConsistent, StatesStacked
    <2> QED
      BY <1>3, <2>1, FirstBlockState
  <1>8. StatesStacked'
    <2>1. /\ BaseHeight \in Nat /\ Height[tip] \in Nat /\ BaseHeight <= Height[tip]
          /\ tip' = tip
      BY HeightType DEF IndInv, TypeOK, TypeInvariant
    <2>2. \A h \in IndexedHeights(db') : h = BaseHeight
      BY <1>7, <2>1 DEF Contiguous, BaseHeight
    <2> QED
      BY <1>6, <1>7, <2>1, <2>2 DEF StatesStacked, Stacked, Contiguous
  <1>9. UnspentIndexAgrees'
    BY <1>3, SetStateUnspent DEF IndInv, UnspentIndexAgrees
  <1>10. SavedFromIndexed'
    <2>1. \A t \in Txids : db.tx[t] = NoBlock
      <3>1. IndexedBlocks = {}
        BY DEF IndInv, BootConsistent, StatesStacked, IndexedBlocks
      <3> QED
        BY <3>1 DEF IndInv, SavedFromIndexed
    <2>2. db'.tx = db.tx
      BY <1>3 DEF SetState, Stores
    <2> QED
      BY <2>1, <2>2 DEF SavedFromIndexed
  <1> QED
    BY <1>1, <1>5, <1>6, <1>8, <1>9, <1>10
    DEF IndInv, AtMostOneSync, BootConsistent, SyncConsistent, GroupsInOrder

\* A tick that finds the flag cleared starts the only sync in flight.
LEMMA StartSyncInv ==
    ASSUME IndInv, NEW r \in Syncs, StartSync(r)
    PROVE  IndInv'
  <1> USE DEF StartSync, CronFires
  <1> DEFINE new == [Idle EXCEPT !.phase = "tip", !.state = db.opState]
  <1>1. \A s \in Syncs : sync[s].phase = "idle"
    BY IdleFacts
  <1>2. new \in SyncLocals(OpStates) /\ new.phase = "tip" /\ new.state = db.opState
    BY DEF SyncLocals, Idle, Phases, IndInv, TypeOK, TypeInvariant, Stores
  <1>3. sync' = [sync EXCEPT ![r] = new] /\ isSyncing' = TRUE
    OBVIOUS
  <1> HIDE DEF new
  <1>4. TypeOK'
    BY <1>2, <1>3 DEF IndInv, TypeOK, TypeInvariant
  <1>5. sync'[r] = new /\ \A s \in Syncs \ {r} : sync'[s] = sync[s]
    BY <1>3 DEF IndInv, TypeOK, TypeInvariant
  <1>6. boot = "done"
    BY DEF IndInv, BootConsistent, TypeOK, TypeInvariant
  <1>7. \A s \in Syncs : SyncConsistent(s)' /\ GroupsInOrder(s)'
    BY <1>1, <1>2, <1>3, <1>5, <1>6 DEF SyncConsistent, GroupsInOrder
  <1>8. UnspentIndexAgrees' /\ SavedFromIndexed' /\ StatesStacked' /\ BootConsistent'
    BY DEF IndInv, UnspentIndexAgrees, SavedFromIndexed, IndexedBlocks, StatesStacked,
           BootConsistent
  <1> QED
    BY <1>1, <1>2, <1>4, <1>5, <1>7, <1>8 DEF IndInv, AtMostOneSync

\* The tick that throws "State not found" leaves the flag set and no sync in flight.
LEMMA StateNotFoundInv ==
    ASSUME IndInv, NEW r \in Syncs, StateNotFound(r)
    PROVE  IndInv'
  <1>1. \A s \in Syncs : sync[s].phase = "idle"
    BY IdleFacts DEF StateNotFound, CronFires
  <1> QED
    BY <1>1, AllIdleInv DEF StateNotFound, BootConsistent, IndInv, TypeOK, TypeInvariant

\* A sync that finds nothing new ends.
LEMMA NoNewBlocksInv ==
    ASSUME IndInv, NEW r \in Syncs, NoNewBlocks(r)
    PROVE  IndInv'
  BY FinishSyncInv, SilentBlockKept DEF NoNewBlocks

\* A sync whose request fails ends.
LEMMA RequestFailsInv ==
    ASSUME IndInv, NEW r \in Syncs, RequestFails(r)
    PROVE  IndInv'
  BY FinishSyncInv, SilentBlockKept DEF RequestFails, MayFail

\* The trace starts at the current block state, of which there always is one.
LEMMA NewBlocksFoundInv ==
    ASSUME IndInv, NEW r \in Syncs, NewBlocksFound(r)
    PROVE  IndInv'
  <1> USE DEF NewBlocksFound
  <1> DEFINE top == GetCurrentBlockState(db)
             new == [sync[r] EXCEPT !.tipHeight = Height[tip], !.current = top,
                                    !.phase = "trace"]
  <1>1. sync[r].phase # "idle" /\ db.opState # NoState /\ sync[r] \in SyncLocals(OpStates)
    BY ActiveFacts
  <1>2. top \in Blocks /\ top # NoBlock /\ Height[tip] \in Nat
    BY <1>1, TopFacts
  <1>3. sync' = [sync EXCEPT ![r] = new]
    BY <1>2
  <1>4. new \in SyncLocals(OpStates)
    BY <1>1, <1>2 DEF SyncLocals, Phases
  <1>5. sync'[r] = new
    BY <1>3 DEF IndInv, TypeOK, TypeInvariant
  <1>6. SyncConsistent(r)' /\ GroupsInOrder(r)'
    <2>1. /\ new.phase = "trace" /\ new.tipHeight = Height[tip] /\ new.current = top
          /\ new.state = sync[r].state
      BY <1>1 DEF SyncLocals
    <2>2. Height[tip] <= Height[tip]
      BY <1>2
    <2> HIDE DEF new, top
    <2> QED
      BY <1>1, <1>5, <2>1, <2>2, ActiveFacts DEF SyncConsistent, GroupsInOrder, top
  <1> HIDE DEF new
  <1> QED
    BY <1>1, <1>3, <1>4, <1>6, LocalStepInv, SilentBlockKept

\* The node has a block at the traced height, which is not above its best block.
LEMMA AnswerTraceInv ==
    ASSUME IndInv, NEW r \in Syncs, AnswerTrace(r)
    PROVE  IndInv'
  <1> USE DEF AnswerTrace
  <1> DEFINE top    == GetCurrentBlockState(db)
             answer == BlockAt(tip, Height[sync[r].current])
             new    == [sync[r] EXCEPT !.phase = "traced", !.block = answer]
  <1>1. sync[r].phase = "trace" /\ db.opState # NoState /\ sync[r] \in SyncLocals(OpStates)
    BY ActiveFacts
  <1>2. sync[r].current = top
    BY DEF IndInv, SyncConsistent
  <1>3. answer \in Blocks /\ Height[answer] = Height[top]
    <2>1. Height[top] \in BaseHeight..Height[tip] /\ tip \in Blocks
      BY <1>1, TopFacts, HeightType
    <2> QED
      BY <1>2, <2>1, BlockAtType
  <1>4. sync' = [sync EXCEPT ![r] = new]
    OBVIOUS
  <1>5. new \in SyncLocals(OpStates)
    BY <1>1, <1>3 DEF SyncLocals, Phases
  <1>6. sync'[r] = new
    BY <1>4 DEF IndInv, TypeOK, TypeInvariant
  <1>7. SyncConsistent(r)' /\ GroupsInOrder(r)'
    <2>1. /\ new.phase = "traced" /\ new.tipHeight = sync[r].tipHeight
          /\ new.current = sync[r].current /\ new.block = answer /\ new.state = sync[r].state
      BY <1>1 DEF SyncLocals
    <2> HIDE DEF new, top, answer
    <2> QED
      BY <1>1, <1>2, <1>3, <1>6, <2>1, ActiveFacts DEF IndInv, SyncConsistent, GroupsInOrder, top
  <1> HIDE DEF new
  <1> QED
    BY <1>1, <1>4, <1>5, <1>7, LocalStepInv, SilentBlockKept

\* The node has a block at the next height, which is not above the tip it told.
LEMMA AnswerBlockHashInv ==
    ASSUME IndInv, NEW r \in Syncs, AnswerBlockHash(r, db.opState)
    PROVE  IndInv'
  <1> USE DEF AnswerBlockHash
  <1> DEFINE top    == GetCurrentBlockState(db)
             answer == BlockAt(tip, sync[r].height)
             new    == [sync[r] EXCEPT !.phase = "block", !.state = db.opState,
                                       !.block = answer]
  <1>1. /\ sync[r].phase = "hash" /\ db.opState # NoState /\ db.opState \in OpStates
        /\ sync[r] \in SyncLocals(OpStates)
    BY ActiveFacts
  <1>2. /\ sync[r].block \in Blocks /\ Height[top] <= Height[sync[r].block]
        /\ sync[r].height = Height[sync[r].block] + 1 /\ sync[r].height <= sync[r].tipHeight
        /\ sync[r].tipHeight <= Height[tip]
    BY <1>1 DEF IndInv, SyncConsistent
  <1>3. /\ sync[r].height \in Nat /\ sync[r].tipHeight \in Nat /\ Height[tip] \in Nat
        /\ tip \in Blocks /\ BaseHeight \in Nat /\ Height[top] \in Nat
        /\ Height[sync[r].block] \in Nat /\ BaseHeight <= Height[sync[r].block]
    BY <1>1, <1>2, TopFacts, HeightType DEF SyncLocals
  <1>4. /\ answer \in Blocks /\ Height[answer] = sync[r].height
        /\ Height[top] < sync[r].height /\ BaseHeight < sync[r].height
    <2>1. sync[r].height \in BaseHeight..Height[tip]
      BY <1>2, <1>3
    <2> QED
      BY <1>2, <1>3, <2>1, BlockAtType
  <1>5. sync' = [sync EXCEPT ![r] = new]
    BY <1>1 DEF SyncLocals
  <1>6. new \in SyncLocals(OpStates)
    BY <1>1, <1>4 DEF SyncLocals, Phases
  <1>7. sync'[r] = new
    BY <1>5 DEF IndInv, TypeOK, TypeInvariant
  <1>8. SyncConsistent(r)' /\ GroupsInOrder(r)'
    <2>1. /\ new.phase = "block" /\ new.tipHeight = sync[r].tipHeight /\ new.block = answer
          /\ new.height = sync[r].height /\ new.state = db.opState
      BY <1>1 DEF SyncLocals
    <2> HIDE DEF new, answer
    <2> QED
      BY <1>1, <1>2, <1>4, <1>7, <2>1, ActiveFacts DEF SyncConsistent, GroupsInOrder
  <1> HIDE DEF new
  <1> QED
    BY <1>1, <1>5, <1>6, <1>8, LocalStepInv, SilentBlockKept

\* The head of the loop, above a block the node confirmed or has answered.
LEMMA ContinueAtInv ==
    ASSUME IndInv, NEW r \in Syncs, sync[r].phase \in {"traced", "block", "emit"},
           sync[r].block \in Blocks,
           Height[GetCurrentBlockState(db)] <= Height[sync[r].block],
           ContinueAt(r, Height[sync[r].block] + 1),
           UNCHANGED <<tip, strayed, db, boot>>, silentBlock' \in SilentBlocks
    PROVE  IndInv'
  <1> DEFINE next == Height[sync[r].block] + 1
             new  == [sync[r] EXCEPT !.phase = "hash", !.height = next]
  <1>1. CASE FinishSync(r)
    BY <1>1, FinishSyncInv
  <1>2. CASE /\ next <= sync[r].tipHeight
             /\ sync' = [sync EXCEPT ![r].phase = "hash", ![r].height = next]
             /\ UNCHANGED isSyncing
    <2>1. sync[r] \in SyncLocals(OpStates)
      BY ActiveFacts
    <2>2. next \in Nat
      BY HeightType
    <2>3. sync' = [sync EXCEPT ![r] = new]
      BY <1>2
    <2>4. new \in SyncLocals(OpStates)
      BY <2>1, <2>2 DEF SyncLocals, Phases
    <2>5. sync'[r] = new
      BY <2>3 DEF IndInv, TypeOK, TypeInvariant
    <2>6. /\ new.phase = "hash" /\ new.tipHeight = sync[r].tipHeight
          /\ new.block = sync[r].block /\ new.height = next /\ new.state = sync[r].state
      BY <2>1 DEF SyncLocals
    <2> HIDE DEF new
    <2>7. SyncConsistent(r)' /\ GroupsInOrder(r)'
      BY <1>2, <2>5, <2>6, ActiveFacts DEF IndInv, SyncConsistent, GroupsInOrder
    <2> QED
      BY <1>2, <2>3, <2>4, <2>7, LocalStepInv
  <1> QED
    BY <1>1, <1>2 DEF ContinueAt

\* The loop resumes one above the current block state the node confirmed.
LEMMA TraceMatchesInv ==
    ASSUME IndInv, NEW r \in Syncs, TraceMatches(r)
    PROVE  IndInv'
  <1>1. sync[r].phase = "traced" /\ sync[r].block = sync[r].current
    BY DEF TraceMatches
  <1>2. sync[r].current = GetCurrentBlockState(db) /\ sync[r].block \in Blocks
    BY <1>1 DEF IndInv, SyncConsistent
  <1>3. Height[GetCurrentBlockState(db)] <= Height[sync[r].block]
    BY <1>1, <1>2, HeightType
  <1> QED
    BY <1>1, <1>2, <1>3, ContinueAtInv, SilentBlockKept DEF TraceMatches

\* An indexed block is the one whose state is kept at its height.
LEMMA IndexedFacts ==
    ASSUME NEW S, db \in Stores(S), Stacked(db), NEW c \in IndexedBlocks
    PROVE  /\ c \in Blocks /\ c # BaseBlock /\ c # NoBlock
           /\ Height[c] \in IndexedHeights(db)
           /\ db.blockState[Height[c]] = c
  BY LedgerTypes DEF IndexedBlocks, IndexedHeights, Stacked, Stores

\* After a block's txids are known, or a group is announced: another group of it
\* or the next block.
LEMMA ContinueBlockInv ==
    ASSUME IndInv, NEW r \in Syncs, sync[r].phase \in {"block", "emit"}, ContinueBlock(r),
           UNCHANGED <<tip, strayed, db, boot>>, silentBlock' \in SilentBlocks
    PROVE  IndInv'
  <1> DEFINE b   == sync[r].block
             top == GetCurrentBlockState(db)
             new == [sync[r] EXCEPT !.phase = "txs"]
  <1>1. db.opState # NoState /\ sync[r] \in SyncLocals(OpStates)
    BY ActiveFacts
  <1>2. /\ b \in Blocks /\ Height[b] = sync[r].height
        /\ BaseHeight < sync[r].height /\ sync[r].height <= sync[r].tipHeight
        /\ sync[r].phase = "block" => Height[top] < sync[r].height
        /\ sync[r].phase = "emit" => b = top
    BY DEF IndInv, SyncConsistent
  <1>3. CASE ContinueAt(r, sync[r].height + 1)
    <2>1. Height[top] <= Height[b]
      BY <1>1, <1>2, TopFacts, HeightType
    <2> QED
      BY <1>2, <1>3, <2>1, ContinueAtInv
  <1>4. CASE /\ NextTxIndex(r) <= Len(BlockTxs[b])
             /\ sync' = [sync EXCEPT ![r].phase = "txs"]
             /\ UNCHANGED isSyncing
    <2>1. sync' = [sync EXCEPT ![r] = new]
      BY <1>4
    <2>2. new \in SyncLocals(OpStates)
      BY <1>1 DEF SyncLocals, Phases
    <2>3. sync'[r] = new
      BY <2>1 DEF IndInv, TypeOK, TypeInvariant
    <2>4. /\ new.phase = "txs" /\ new.tipHeight = sync[r].tipHeight
          /\ new.block = b /\ new.height = sync[r].height /\ new.state = sync[r].state
      BY <1>1 DEF SyncLocals
    <2>5. NextTxIndex(r)' = NextTxIndex(r)
      BY <2>3, <2>4 DEF NextTxIndex
    <2> HIDE DEF new
    <2>6. SyncConsistent(r)'
      BY <1>2, <1>4, <2>3, <2>4, <2>5, ActiveFacts DEF IndInv, SyncConsistent
    <2>7. GroupsInOrder(r)'
      <3>1. CASE sync[r].phase = "emit"
        BY <2>3, <2>4, <2>5, <3>1 DEF IndInv, GroupsInOrder
      <3>2. CASE sync[r].phase = "block"
        <4>1. b \notin IndexedBlocks
          <5>1. Height[b] \notin IndexedHeights(db)
            BY <1>1, <1>2, <3>2, TopFacts, HeightType
          <5> QED
            BY <1>1, <5>1, TopFacts, IndexedFacts
        <4>2. \A t \in Txids : db'.tx[t] # b
          BY <1>2, <4>1, LedgerTypes DEF IndInv, SavedFromIndexed
        <4> QED
          BY <2>3, <2>4, <4>2 DEF GroupsInOrder
      <3> QED
        BY <3>1, <3>2
    <2> QED
      BY <1>4, <2>1, <2>2, <2>6, <2>7, LocalStepInv
  <1> QED
    BY <1>3, <1>4 DEF ContinueBlock

\* A block without transactions to fetch is passed over.
LEMMA AnswerTxidsInv ==
    ASSUME IndInv, NEW r \in Syncs, AnswerTxids(r)
    PROVE  IndInv'
  BY ContinueBlockInv, SilentBlockKept DEF AnswerTxids

-----------------------------------------------------------------------------
(* Rollbacks *)

\* What a rollback of the current block state deletes: every transaction recorded
\* with that block, perhaps others found under its hash.
LEMMA RollbackSaved ==
    ASSUME NEW S, db \in Stores(S), Stacked(db), SavedFromIndexed,
           NEW b \in IndexedBlocks, db' = RemoveState(db, b)
    PROVE  SavedFromIndexed' /\ IndexedBlocks' = IndexedBlocks \ {b}
  <1> DEFINE txids == {t \in Txids : <<b, t>> \in db.hashIndex /\ db.tx[t] # NoBlock}
  <1>1. b \in Blocks /\ b # BaseBlock /\ db.blockState[Height[b]] = b
    BY IndexedFacts
  <1>2. /\ db'.blockState = [db.blockState EXCEPT ![Height[b]] = NoBlock]
        /\ IndexedHeights(db') = IndexedHeights(db) \ {Height[b]}
    BY <1>1, StackedRemoveState
  <1>3. db.blockState \in [Heights -> Blocks \cup {NoBlock}] /\ IndexedHeights(db) \subseteq Heights
    BY DEF Stores, IndexedHeights
  <1>4. \A h \in IndexedHeights(db') : db'.blockState[h] = db.blockState[h] /\ db.blockState[h] # b
    BY <1>2, <1>3 DEF Stacked
  <1>5. IndexedBlocks' = {db'.blockState[h] : h \in IndexedHeights(db')} \ {BaseBlock}
    BY DEF IndexedBlocks
  <1>6. {db'.blockState[h] : h \in IndexedHeights(db')}
            = {db.blockState[h] : h \in IndexedHeights(db)} \ {b}
    BY <1>1, <1>2, <1>4
  <1>7. IndexedBlocks' = IndexedBlocks \ {b}
    BY <1>5, <1>6 DEF IndexedBlocks
  <1>8. /\ db'.tx = [t \in Txids |-> IF t \in txids THEN NoBlock ELSE db.tx[t]]
        /\ db'.hashIndex = db.hashIndex \ ({b} \X txids)
    BY DEF RemoveState, DeleteTransactionsByBlockHash, Stores
  <1>9. SavedFromIndexed'
    <2> SUFFICES ASSUME NEW t \in Txids, db'.tx[t] # NoBlock
                 PROVE  /\ db'.tx[t] \in IndexedBlocks'
                        /\ t \in TxsOf(db'.tx[t])
                        /\ <<db'.tx[t], t>> \in db'.hashIndex
      BY DEF SavedFromIndexed
    <2>1. t \notin txids /\ db'.tx[t] = db.tx[t]
      BY <1>8
    <2>2. /\ db.tx[t] \in IndexedBlocks /\ t \in TxsOf(db.tx[t])
          /\ <<db.tx[t], t>> \in db.hashIndex
      BY <2>1 DEF SavedFromIndexed
    <2>3. db.tx[t] # b
      BY <2>1, <2>2
    <2> QED
      BY <1>7, <1>8, <2>1, <2>2, <2>3
  <1> QED
    BY <1>7, <1>9

\* The trace rolls back the topmost block state, never the base block's.
LEMMA MismatchFacts ==
    ASSUME IndInv, NEW r \in Syncs, TraceMismatches(r)
    PROVE  LET top == GetCurrentBlockState(db)
           IN  /\ sync[r].phase = "traced" /\ sync[r].current = top
               /\ db' = RemoveState(db, top)
               /\ top \in Blocks /\ top # BaseBlock /\ top \in IndexedBlocks
  <1> DEFINE top == GetCurrentBlockState(db)
  <1>1. /\ sync[r].phase = "traced" /\ db' = RemoveState(db, sync[r].current)
        /\ sync[r].block # sync[r].current /\ db.opState # NoState
    BY ActiveFacts DEF TraceMismatches
  <1>2. /\ sync[r].current = top /\ sync[r].block \in Blocks
        /\ Height[sync[r].block] = Height[top]
    BY <1>1 DEF IndInv, SyncConsistent
  <1>3. top # BaseBlock
    BY <1>1, <1>2, BaseIsOnly DEF BaseHeight
  <1>4. top \in Blocks /\ top \in IndexedBlocks
    BY <1>1, <1>3, TopFacts DEF IndexedBlocks
  <1> QED
    BY <1>1, <1>2, <1>3, <1>4

\* The block state the node denies is taken off; the one below it is traced next.
LEMMA TraceMismatchesInv ==
    ASSUME IndInv, NEW r \in Syncs, TraceMismatches(r)
    PROVE  IndInv'
  <1> DEFINE top  == GetCurrentBlockState(db)
             next == GetCurrentBlockState(db')
             new  == [sync[r] EXCEPT !.phase = "trace", !.current = next]
  <1>1. /\ sync[r].phase = "traced" /\ sync[r] \in SyncLocals(OpStates)
        /\ db.opState # NoState /\ db.opState \in OpStates
    BY MismatchFacts, ActiveFacts
  <1>2. /\ db' = RemoveState(db, top)
        /\ top \in Blocks /\ top # BaseBlock /\ top \in IndexedBlocks
    BY MismatchFacts
  <1>3. db \in Stores(OpStates) /\ Stacked(db) /\ db.blockState[Height[top]] = top
    BY <1>1, TopFacts
  <1>4. db' \in Stores(OpStates) /\ db'.opState = db.opState /\ UnspentAgrees(db')
    <2>1. UnspentAgrees(db)
      BY DEF IndInv, UnspentIndexAgrees
    <2> QED
      BY <1>2, <1>3, <2>1, RemoveStateType, RemoveStateStates, RemoveStateUnspent
  <1>5. SavedFromIndexed'
    BY <1>2, <1>3, RollbackSaved DEF IndInv
  <1>6. Stacked(db') /\ IndexedHeights(db') = IndexedHeights(db) \ {Height[top]}
    BY <1>2, <1>3, StackedRemoveState
  <1>7. StatesStacked' /\ UNCHANGED <<tip, strayed, boot, silentBlock>>
    BY <1>1, <1>4, <1>6 DEF IndInv, StatesStacked, TraceMismatches
  <1>8. next \in Blocks /\ next # NoBlock
    <2>1. tip \in Blocks /\ Height[tip] \in Nat /\ \A h \in IndexedHeights(db') : h <= Height[tip]
      BY <1>1, <1>4, <1>7, TopFacts DEF StatesStacked
    <2> QED
      BY <1>4, <1>6, <2>1, StackedTop, LedgerTypes
  <1>9. sync' = [sync EXCEPT ![r] = new] /\ UNCHANGED isSyncing
    BY <1>8 DEF TraceMismatches
  <1>10. new \in SyncLocals(OpStates)
    BY <1>1, <1>8 DEF SyncLocals, Phases
  <1>11. sync'[r] = new
    BY <1>9 DEF IndInv, TypeOK, TypeInvariant
  <1>12. /\ new.phase = "trace" /\ new.tipHeight = sync[r].tipHeight
         /\ new.current = next /\ new.state = sync[r].state
    BY <1>1 DEF SyncLocals
  <1> HIDE DEF new
  <1>13. SyncConsistent(r)' /\ GroupsInOrder(r)'
    BY <1>1, <1>4, <1>7, <1>9, <1>11, <1>12, ActiveFacts DEF IndInv, SyncConsistent, GroupsInOrder
  <1>14. silentBlock' \in SilentBlocks /\ db'.opState # NoState /\ sync[r].phase # "idle"
    BY <1>1, <1>4, <1>7, SilentBlockKept
  <1> QED
    BY <1>4, <1>5, <1>7, <1>9, <1>10, <1>13, <1>14, OneSyncInv

-----------------------------------------------------------------------------
(* Commits *)

\* The smaller of two numbers.
LEMMA MinOfPair ==
    ASSUME NEW m \in Nat, NEW n \in Nat
    PROVE  Min({m, n}) \in {m, n} /\ Min({m, n}) <= m /\ Min({m, n}) <= n
  <1>1. \E x \in {m, n} : \A y \in {m, n} : x <= y
    OBVIOUS
  <1>2. Min({m, n}) \in {m, n} /\ \A y \in {m, n} : Min({m, n}) <= y
    BY <1>1 DEF Min
  <1> QED
    BY <1>2

\* A group is the transactions of the block from the next index on, at most
\* BatchSize of them.
LEMMA TxBatchFacts ==
    ASSUME IndInv, NEW r \in Syncs, sync[r].phase = "txs"
    PROVE  /\ TxBatch(r) \in SUBSET TxsOf(sync[r].block) /\ TxBatch(r) \in SUBSET Txids
           /\ \A t \in TxBatch(r) :
                 \E i \in DOMAIN BlockTxs[sync[r].block] :
                    /\ BlockTxs[sync[r].block][i] = t
                    /\ NextTxIndex(r) <= i /\ i < NextTxIndex(r) + BatchSize
  <1> DEFINE b == sync[r].block
             n == NextTxIndex(r)
             s == BlockTxs[b]
  <1>1. b \in Blocks /\ n \in Nat \ {0} /\ n <= Len(s)
    BY NextTxIndexType DEF IndInv, SyncConsistent
  <1>2. s \in Seq(Txids) /\ Len(s) \in Nat /\ DOMAIN s = 1..Len(s)
    BY <1>1, LedgerTypes
  <1>3. n + BatchSize - 1 \in Nat
    BY <1>1, BatchSizeIsPositive
  <1>4. /\ LastOfBatch(r) \in Nat /\ LastOfBatch(r) <= Len(s)
        /\ LastOfBatch(r) <= n + BatchSize - 1
    BY <1>2, <1>3, MinOfPair DEF LastOfBatch
  <1>5. \A i \in n..LastOfBatch(r) : i \in DOMAIN s /\ n <= i /\ i < n + BatchSize
    BY <1>1, <1>2, <1>4, BatchSizeIsPositive
  <1>6. TxBatch(r) = {s[i] : i \in n..LastOfBatch(r)}
    BY DEF TxBatch
  <1>7. TxsOf(b) = {s[i] : i \in DOMAIN s} /\ TxsOf(b) \subseteq Txids
    BY <1>2 DEF TxsOf, Range
  <1> HIDE DEF b, n, s
  <1>8. TxBatch(r) \subseteq TxsOf(b)
    BY <1>5, <1>6, <1>7
  <1> QED
    BY <1>5, <1>6, <1>7, <1>8 DEF b, n, s

\* The time a node tells is a natural number.
LEMMA StatusTimeType ==
    ASSUME NEW best \in Blocks, NEW t \in Txids
    PROVE  StatusTime(best, t) \in Nat
  <1>1. CASE \E b \in Lineage[best] : t \in TxsOf(b)
    <2> DEFINE b == CHOOSE c \in Lineage[best] : t \in TxsOf(c)
    <2>1. b \in Lineage[best]
      BY <1>1
    <2> QED
      BY <1>1, <2>1, LedgerTypes DEF StatusTime
  <1>2. CASE ~\E b \in Lineage[best] : t \in TxsOf(b)
    BY <1>2 DEF StatusTime
  <1> QED
    BY <1>1, <1>2

\* An answer for one transaction of a group.
LEMMA AnswerTxFacts ==
    ASSUME IndInv, NEW r \in Syncs, NEW t \in Txids, AnswerTx(r, t)
    PROVE  /\ sync[r].phase = "txs" /\ sync[r] \in SyncLocals(OpStates)
           /\ \E new \in SyncLocals(OpStates) :
                 /\ sync' = [sync EXCEPT ![r] = new] /\ sync'[r] = new
                 /\ new.phase = "txs" /\ new.state = sync[r].state
                 /\ new.tipHeight = sync[r].tipHeight /\ new.current = sync[r].current
                 /\ new.height = sync[r].height /\ new.block = sync[r].block
  <1> DEFINE new == [sync[r] EXCEPT !.times[t] = StatusTime(tip, t)]
  <1>1. sync[r].phase = "txs" /\ sync[r] \in SyncLocals(OpStates)
    BY ActiveFacts DEF AnswerTx
  <1>2. StatusTime(tip, t) \in Nat
    BY StatusTimeType DEF IndInv, TypeOK, TypeInvariant
  <1>3. new \in SyncLocals(OpStates)
    BY <1>1, <1>2 DEF SyncLocals
  <1>4. sync' = [sync EXCEPT ![r] = new]
    BY <1>1 DEF AnswerTx, SyncLocals
  <1>5. sync'[r] = new
    BY <1>4 DEF IndInv, TypeOK, TypeInvariant
  <1>6. /\ new.phase = "txs" /\ new.state = sync[r].state
        /\ new.tipHeight = sync[r].tipHeight /\ new.current = sync[r].current
        /\ new.height = sync[r].height /\ new.block = sync[r].block
    BY <1>1 DEF SyncLocals
  <1> HIDE DEF new
  <1> QED
    BY <1>1, <1>3, <1>4, <1>5, <1>6

\* It says nothing of the block or the group.
LEMMA AnswerTxInv ==
    ASSUME IndInv, NEW r \in Syncs, NEW t \in Txids, AnswerTx(r, t)
    PROVE  IndInv'
  <1>1. PICK new \in SyncLocals(OpStates) :
           /\ sync' = [sync EXCEPT ![r] = new] /\ sync'[r] = new
           /\ new.phase = "txs" /\ new.state = sync[r].state
           /\ new.tipHeight = sync[r].tipHeight /\ new.current = sync[r].current
           /\ new.height = sync[r].height /\ new.block = sync[r].block
    BY AnswerTxFacts
  <1>2. /\ UNCHANGED <<tip, strayed, db, boot, isSyncing, silentBlock>>
        /\ sync[r].phase = "txs"
    BY DEF AnswerTx
  <1>3. NextTxIndex(r)' = NextTxIndex(r)
    BY <1>1 DEF NextTxIndex
  <1>4. SyncConsistent(r)' /\ GroupsInOrder(r)'
    BY <1>1, <1>2, <1>3, ActiveFacts DEF IndInv, SyncConsistent, GroupsInOrder
  <1> QED
    BY <1>1, <1>2, <1>4, LocalStepInv, SilentBlockKept

\* The locals of a sync whose commit is next, and the commit.
LEMMA CommitFacts ==
    ASSUME IndInv, NEW r \in Syncs, CommitTxBatch(r)
    PROVE  LET b     == sync[r].block
               top   == GetCurrentBlockState(db)
               state == [indexedBlockHeight   |-> sync[r].height,
                         lastProcessedTxIndex |-> NextTxIndex(r) + BatchSize - 1]
           IN  /\ sync[r].phase = "txs" /\ sync[r] \in SyncLocals(OpStates)
               /\ db.opState # NoState
               /\ b \in Blocks /\ Height[b] = sync[r].height
               /\ BaseHeight < Height[b] /\ Height[b] <= Height[tip]
               /\ Height[b] \in Nat /\ Height[top] <= Height[b]
               /\ b = top \/ Height[top] < Height[b]
               /\ \A h \in IndexedHeights(db) : h <= Height[b]
               /\ db \in Stores(OpStates) /\ Stacked(db) /\ UnspentAgrees(db)
               /\ state \in OpStates
               /\ \A t \in TxBatch(r) : sync[r].times[t] \in Nat
               /\ db' = SetState(IndexTransactions(db, b, TxBatch(r), sync[r].times), state, b)
               /\ sync' = [sync EXCEPT ![r] = [sync[r] EXCEPT !.phase = "emit", !.state = state,
                                                                 !.times = Idle.times]]
  <1> DEFINE b     == sync[r].block
             top   == GetCurrentBlockState(db)
             state == [indexedBlockHeight   |-> sync[r].height,
                       lastProcessedTxIndex |-> NextTxIndex(r) + BatchSize - 1]
  <1>1. sync[r].phase = "txs" /\ sync[r] \in SyncLocals(OpStates) /\ db.opState # NoState
    BY ActiveFacts DEF CommitTxBatch
  <1>2. /\ b \in Blocks /\ Height[b] = sync[r].height /\ BaseHeight < sync[r].height
        /\ sync[r].height <= sync[r].tipHeight /\ sync[r].tipHeight <= Height[tip]
        /\ b = top \/ Height[top] < sync[r].height
    BY <1>1 DEF IndInv, SyncConsistent
  <1>3. /\ Height[top] \in Nat /\ Height[tip] \in Nat /\ sync[r].height \in Nat
        /\ sync[r].tipHeight \in Nat /\ \A h \in IndexedHeights(db) : h \in Nat /\ h <= Height[top]
    BY <1>1, TopFacts, HeightType DEF SyncLocals, IndexedHeights, Heights
  <1>4. NextTxIndex(r) + BatchSize - 1 \in Nat
    BY <1>1, NextTxIndexType, BatchSizeIsPositive
  <1>5. state \in OpStates
    BY <1>3, <1>4 DEF OpStates
  <1>6. db \in Stores(OpStates) /\ Stacked(db) /\ UnspentAgrees(db)
    BY <1>1, TopFacts DEF IndInv, UnspentIndexAgrees
  <1>7. /\ Height[b] <= Height[tip] /\ Height[top] <= Height[b]
        /\ \A h \in IndexedHeights(db) : h <= Height[b]
    BY <1>2, <1>3
  <1>8. /\ db' = SetState(IndexTransactions(db, b, TxBatch(r), sync[r].times), state, b)
        /\ sync' = [sync EXCEPT ![r] = [sync[r] EXCEPT !.phase = "emit", !.state = state,
                                                          !.times = Idle.times]]
    BY <1>1 DEF CommitTxBatch, SyncLocals
  <1>9. \A t \in TxBatch(r) : sync[r].times[t] \in Nat
    <2>1. TxBatch(r) \in SUBSET Txids /\ sync[r].times \in [Txids -> Nat \cup {NotAnswered}]
      BY <1>1, TxBatchFacts DEF SyncLocals
    <2> QED
      BY <2>1 DEF CommitTxBatch, AllAnswered
  <1> HIDE DEF b, state
  <1> QED
    BY <1>1, <1>2, <1>3, <1>5, <1>6, <1>7, <1>8, <1>9 DEF b, state

\* What the commit of a group writes, part by part.
LEMMA CommitEffect ==
    ASSUME IndInv, NEW r \in Syncs, CommitTxBatch(r)
    PROVE  LET b     == sync[r].block
               saved == Eligible(TxBatch(r))
               new   == OutpointsOf(saved)
           IN  /\ db'.tx = [t \in Txids |-> IF t \in saved THEN b ELSE db.tx[t]]
               /\ db'.time = [t \in Txids |-> IF t \in saved THEN sync[r].times[t] ELSE db.time[t]]
               /\ db'.unspent = (db.unspent \cup new)
                    \ {o \in Outpoints \cap SpentBy(TxBatch(r)) :
                           o \in new \/ db.output[o] = "unspent"}
               /\ db'.heightIndex = db.heightIndex \cup ({Height[b]} \X saved)
               /\ db'.hashIndex = db.hashIndex \cup ({b} \X saved)
               /\ db'.timeIndex = db.timeIndex \cup {<<sync[r].times[t], Height[b]>> : t \in saved}
  <1>1. db \in Stores(OpStates)
    BY DEF IndInv, TypeOK, TypeInvariant
  <1> QED
    BY <1>1 DEF CommitTxBatch, SetState, IndexTransactions, MarkOutputsSpent,
                SaveTransactions, Stores

\* The block states after the commit: the block is the topmost, as it was or above
\* the one that was.
LEMMA CommitStates ==
    ASSUME IndInv, NEW r \in Syncs, CommitTxBatch(r)
    PROVE  LET b == sync[r].block
           IN  /\ db' \in Stores(OpStates) /\ UnspentAgrees(db') /\ Stacked(db')
               /\ GetCurrentBlockState(db') = b
               /\ db'.blockState = [db.blockState EXCEPT ![Height[b]] = b]
               /\ IndexedHeights(db') = IndexedHeights(db) \cup {Height[b]}
               /\ db'.opState = [indexedBlockHeight   |-> sync[r].height,
                                 lastProcessedTxIndex |-> NextTxIndex(r) + BatchSize - 1]
               /\ IndexedBlocks' = IndexedBlocks \cup {b}
  <1> DEFINE b     == sync[r].block
             d     == IndexTransactions(db, b, TxBatch(r), sync[r].times)
             state == [indexedBlockHeight   |-> sync[r].height,
                       lastProcessedTxIndex |-> NextTxIndex(r) + BatchSize - 1]
  <1>1. /\ sync[r].phase = "txs" /\ b \in Blocks /\ BaseHeight < Height[b] /\ Height[b] \in Nat
        /\ b = GetCurrentBlockState(db) \/ Height[GetCurrentBlockState(db)] < Height[b]
        /\ \A h \in IndexedHeights(db) : h <= Height[b]
        /\ db \in Stores(OpStates) /\ Stacked(db) /\ UnspentAgrees(db) /\ db.opState # NoState
        /\ state \in OpStates /\ db' = SetState(d, state, b)
        /\ \A t \in TxBatch(r) : sync[r].times[t] \in Nat
    BY CommitFacts
  <1>2. /\ d \in Stores(OpStates) /\ UnspentAgrees(d)
        /\ d.blockState = db.blockState /\ d.opState = db.opState
    <2>1. TxBatch(r) \in SUBSET Txids
      BY <1>1, TxBatchFacts
    <2> QED
      BY <1>1, <2>1, IndexTransactionsType, IndexTransactionsUnspent, IndexTransactionsStates
  <1> HIDE DEF d
  <1>3. IndexedHeights(d) = IndexedHeights(db) /\ Stacked(d)
    BY <1>1, <1>2 DEF IndexedHeights, Stacked
  <1>4. db' \in Stores(OpStates) /\ UnspentAgrees(db')
    BY <1>1, <1>2, SetStateType, SetStateUnspent
  <1>5. db'.opState = state
    BY <1>1, <1>2 DEF SetState, Stores
  <1> HIDE DEF state
  <1>6. /\ Stacked(db') /\ GetCurrentBlockState(db') = b
        /\ db'.blockState = [db.blockState EXCEPT ![Height[b]] = b]
        /\ IndexedHeights(db') = IndexedHeights(db) \cup {Height[b]}
    <2>1. \A h \in IndexedHeights(d) : h <= Height[b]
      BY <1>1, <1>3
    <2> HIDE DEF b
    <2>2. d \in Stores(OpStates) /\ Stacked(d) /\ b \in Blocks /\ BaseHeight < Height[b]
      BY <1>1, <1>2, <1>3
    <2>3. /\ Stacked(SetState(d, state, b)) /\ GetCurrentBlockState(SetState(d, state, b)) = b
          /\ SetState(d, state, b).blockState = [d.blockState EXCEPT ![Height[b]] = b]
          /\ IndexedHeights(SetState(d, state, b)) = IndexedHeights(d) \cup {Height[b]}
      BY <2>1, <2>2, StackedSetState
    <2> QED
      BY <1>1, <1>2, <1>3, <2>3
  <1>7. IndexedBlocks' = IndexedBlocks \cup {b}
    <2>1. \A h \in IndexedHeights(db) : h = Height[b] => db.blockState[h] = b
      BY <1>1, TopFacts, HeightType
    <2>2. db.blockState \in [Heights -> Blocks \cup {NoBlock}] /\ Height[b] \in Heights
      BY <1>1, HeightType DEF Stores
    <2>3. {db'.blockState[h] : h \in IndexedHeights(db')}
              = {db.blockState[h] : h \in IndexedHeights(db)} \cup {b}
      BY <1>6, <2>1, <2>2 DEF IndexedHeights
    <2>4. b # BaseBlock
      BY <1>1, HeightType DEF BaseHeight
    <2>5. IndexedBlocks' = {db'.blockState[h] : h \in IndexedHeights(db')} \ {BaseBlock}
      BY DEF IndexedBlocks
    <2> QED
      BY <2>3, <2>4, <2>5 DEF IndexedBlocks
  <1> QED
    BY <1>4, <1>5, <1>6, <1>7 DEF state

\* A commit keeps what the trace relies on: it saves with the transactions the
\* state of their block.
LEMMA CommitTxBatchInv ==
    ASSUME IndInv, NEW r \in Syncs, CommitTxBatch(r)
    PROVE  IndInv'
  <1> DEFINE b     == sync[r].block
             state == [indexedBlockHeight   |-> sync[r].height,
                       lastProcessedTxIndex |-> NextTxIndex(r) + BatchSize - 1]
             new   == [sync[r] EXCEPT !.phase = "emit", !.state = state, !.times = Idle.times]
             saved == Eligible(TxBatch(r))
  <1>1. /\ sync[r].phase = "txs" /\ sync[r] \in SyncLocals(OpStates)
        /\ b \in Blocks /\ Height[b] = sync[r].height /\ BaseHeight < Height[b]
        /\ Height[b] \in Nat /\ Height[b] <= Height[tip]
        /\ db \in Stores(OpStates) /\ db.opState # NoState
        /\ state \in OpStates
        /\ db' = SetState(IndexTransactions(db, b, TxBatch(r), sync[r].times), state, b)
        /\ sync' = [sync EXCEPT ![r] = new]
    BY CommitFacts
  <1>2. /\ db' \in Stores(OpStates) /\ UnspentAgrees(db') /\ Stacked(db')
        /\ GetCurrentBlockState(db') = b
        /\ IndexedHeights(db') = IndexedHeights(db) \cup {Height[b]}
        /\ db'.opState = state
        /\ IndexedBlocks' = IndexedBlocks \cup {b}
    BY CommitStates
  <1>3. state # NoState
    BY <1>1, NoStateIsNone
  <1>4. UNCHANGED <<tip, strayed, boot, isSyncing, silentBlock>>
    BY DEF CommitTxBatch
  <1>5. StatesStacked'
    BY <1>1, <1>2, <1>3, <1>4 DEF IndInv, StatesStacked
  <1>6. /\ db'.tx = [t \in Txids |-> IF t \in saved THEN b ELSE db.tx[t]]
        /\ db'.hashIndex = db.hashIndex \cup ({b} \X saved)
    BY CommitEffect
  <1>7. /\ saved \subseteq TxBatch(r) /\ saved \subseteq TxsOf(b)
        /\ \A t \in TxBatch(r) : \E i \in DOMAIN BlockTxs[b] :
              BlockTxs[b][i] = t /\ NextTxIndex(r) <= i /\ i < NextTxIndex(r) + BatchSize
    BY <1>1, TxBatchFacts DEF Eligible
  <1> HIDE DEF saved
  <1>8. SavedFromIndexed'
    BY <1>2, <1>6, <1>7 DEF IndInv, SavedFromIndexed
  <1>9. new \in SyncLocals(OpStates)
    BY <1>1 DEF SyncLocals, Phases, Idle
  <1>10. sync'[r] = new
    BY <1>1 DEF IndInv, TypeOK, TypeInvariant
  <1>11. /\ new.phase = "emit" /\ new.tipHeight = sync[r].tipHeight /\ new.state = state
         /\ new.block = b /\ new.height = sync[r].height
    BY <1>1 DEF SyncLocals
  <1>12. NextTxIndex(r)' = NextTxIndex(r) + BatchSize /\ NextTxIndex(r) \in Nat
    <2>1. NextTxIndex(r) \in Nat /\ BatchSize \in Nat
      BY <1>1, NextTxIndexType, BatchSizeIsPositive
    <2>2. sync'[r].state.lastProcessedTxIndex = NextTxIndex(r) + BatchSize - 1
      BY <1>10, <1>11
    <2>3. NextTxIndex(r)' = sync'[r].state.lastProcessedTxIndex + 1
      BY DEF NextTxIndex
    <2> QED
      BY <2>1, <2>2, <2>3
  <1> HIDE DEF new, state
  <1>13. SyncConsistent(r)'
    BY <1>1, <1>2, <1>4, <1>10, <1>11, ActiveFacts DEF IndInv, SyncConsistent
  <1>14. GroupsInOrder(r)'
    <2> SUFFICES ASSUME NEW t \in Txids, db'.tx[t] = b
                 PROVE  \E i \in DOMAIN BlockTxs[b] :
                            BlockTxs[b][i] = t /\ i < NextTxIndex(r) + BatchSize
      BY <1>10, <1>11, <1>12 DEF GroupsInOrder
    <2>1. CASE t \in saved
      BY <1>7, <2>1
    <2>2. CASE t \notin saved
      <3>1. db.tx[t] = b
        BY <1>6, <2>2
      <3>2. PICK i \in DOMAIN BlockTxs[b] : BlockTxs[b][i] = t /\ i < NextTxIndex(r)
        BY <1>1, <3>1 DEF IndInv, GroupsInOrder
      <3>3. i \in Nat
        BY <1>1, LedgerTypes
      <3> QED
        BY <1>12, <3>2, <3>3, BatchSizeIsPositive
    <2> QED
      BY <2>1, <2>2
  <1>15. silentBlock' \in SilentBlocks /\ sync[r].phase # "idle" /\ db'.opState # NoState
    BY <1>1, <1>2, <1>3, <1>4, SilentBlockKept
  <1> QED
    BY <1>1, <1>2, <1>4, <1>5, <1>8, <1>9, <1>13, <1>14, <1>15, OneSyncInv

\* After the broadcast: another group of the block, or the next block.
LEMMA EmitIndexedBlockInv ==
    ASSUME IndInv, NEW r \in Syncs, EmitIndexedBlock(r)
    PROVE  IndInv'
  <1>1. sync[r].phase = "emit" /\ ContinueBlock(r) /\ UNCHANGED <<tip, strayed, db, boot>>
    BY DEF EmitIndexedBlock
  <1>2. sync[r].height \in Nat
    BY <1>1, ActiveFacts DEF SyncLocals
  <1>3. silentBlock' \in SilentBlocks
    BY <1>2, ServedType DEF EmitIndexedBlock, Broadcast, SilentBlocks
  <1> QED
    BY <1>1, <1>3, ContinueBlockInv

-----------------------------------------------------------------------------
\* Every step keeps the invariant.
LEMMA NextInv == IndInv /\ [Next]_vars => IndInv'
  <1> SUFFICES ASSUME IndInv, [Next]_vars PROVE IndInv'
    OBVIOUS
  <1>1. CASE UNCHANGED vars
    BY <1>1 DEF vars, IndInv, TypeOK, TypeInvariant, AtMostOneSync, UnspentIndexAgrees,
                BootConsistent, StatesStacked, SavedFromIndexed, IndexedBlocks, SyncConsistent,
                GroupsInOrder, NextTxIndex
  <1>2. ASSUME NEW b \in Blocks, NodeAdvances(b) PROVE IndInv'
    BY <1>2, NodeAdvancesInv
  <1>3. CASE StartProcess
    BY <1>3, StartProcessInv
  <1>4. CASE BootstrapCommits
    BY <1>4, BootstrapCommitsInv
  <1>5. CASE Crash
    BY <1>5, CrashInv
  <1>6. ASSUME NEW r \in Syncs, SyncStep(r) PROVE IndInv'
    <2>1. CASE StartSync(r)
      BY <2>1, StartSyncInv
    <2>2. CASE StateNotFound(r)
      BY <2>2, StateNotFoundInv
    <2>3. CASE NoNewBlocks(r)
      BY <2>3, NoNewBlocksInv
    <2>4. CASE NewBlocksFound(r)
      BY <2>4, NewBlocksFoundInv
    <2>5. CASE AnswerTrace(r)
      BY <2>5, AnswerTraceInv
    <2>6. CASE TraceMatches(r)
      BY <2>6, TraceMatchesInv
    <2>7. CASE TraceMismatches(r)
      BY <2>7, TraceMismatchesInv
    <2>8. CASE RequestFails(r)
      BY <2>8, RequestFailsInv
    <2>9. CASE AnswerBlockHash(r, db.opState)
      BY <2>9, AnswerBlockHashInv
    <2>10. CASE AnswerTxids(r)
      BY <2>10, AnswerTxidsInv
    <2>11. CASE CommitTxBatch(r)
      BY <2>11, CommitTxBatchInv
    <2>12. CASE EmitIndexedBlock(r)
      BY <2>12, EmitIndexedBlockInv
    <2>13. ASSUME NEW t \in Txids, AnswerTx(r, t) PROVE IndInv'
      BY <2>13, AnswerTxInv
    <2> QED
      BY <1>6, <2>1, <2>2, <2>3, <2>4, <2>5, <2>6, <2>7, <2>8, <2>9, <2>10, <2>11, <2>12, <2>13
      DEF SyncStep, NextSyncStep
  <1> QED
    BY <1>1, <1>2, <1>3, <1>4, <1>5, <1>6 DEF Next

\* The invariant holds in every behaviour, also when the node changes branch
\* under a sync and when the cron job fires before the bootstrap has ended.
THEOREM Invariance == Spec => []IndInv
  BY InitInv, NextInv, PTL DEF Spec

\* Every variable keeps its type, for every block tree, batch size and number of
\* ticks.
THEOREM TypeCorrectness == Spec => []TypeOK
  <1>1. IndInv => TypeOK
    BY DEF IndInv
  <1> QED
    BY <1>1, Invariance, PTL

\* The isSyncing flag admits one invocation of sync() at a time.
THEOREM MutualExclusion == Spec => []AtMostOneSync
  <1>1. IndInv => AtMostOneSync
    BY DEF IndInv
  <1> QED
    BY <1>1, Invariance, PTL

\* The unspent index and the output records never disagree.
THEOREM UnspentIndexAgreement == Spec => []UnspentIndexAgrees
  <1>1. IndInv => UnspentIndexAgrees
    BY DEF IndInv
  <1> QED
    BY <1>1, Invariance, PTL

-----------------------------------------------------------------------------
(* The branch: what is kept while the node does not leave that of a sync *)

\* A step of the one sync in flight that leaves the store as it is.
LEMMA LocalStepLinked ==
    ASSUME IndInv, LinkedInv, ~strayed, UNCHANGED db, NEW r \in Syncs, sync[r].phase # "idle",
           NEW new, sync' = [sync EXCEPT ![r] = new], SyncLinked(r)'
    PROVE  LinkedInv'
  <1>1. OnOneBranch(db') /\ IndexesAgree' /\ NoSpentServed'
    BY DEF LinkedInv, OnOneBranch, IndexesAgree, NoSpentServed
  <1>2. \A s \in Syncs \ {r} : sync'[s].phase = "idle"
    BY ActiveFacts DEF IndInv, TypeOK, TypeInvariant
  <1>3. \A s \in Syncs \ {r} : SyncLinked(s)'
    BY <1>2 DEF SyncLinked
  <1> QED
    BY <1>1, <1>3 DEF LinkedInv

\* Steps after which no invocation is at a block, the store kept.
LEMMA NoBlockLinked ==
    ASSUME LinkedInv, ~strayed, UNCHANGED db,
           \A r \in Syncs : sync'[r].phase \in {"idle", "tip", "trace"}
    PROVE  LinkedInv'
  <1>1. OnOneBranch(db') /\ IndexesAgree' /\ NoSpentServed'
    BY DEF LinkedInv, OnOneBranch, IndexesAgree, NoSpentServed
  <1> QED
    BY <1>1 DEF LinkedInv, SyncLinked

\* A best block that builds on what a sync in flight relies on keeps it so.
LEMMA NodeAdvancesLinked ==
    ASSUME ~strayed', IndInv, LinkedInv, NEW b \in Blocks, NodeAdvances(b)
    PROVE  LinkedInv'
  <1>1. ~strayed /\ tip' = b /\ UNCHANGED <<sync, db>>
    BY DEF NodeAdvances
  <1>2. OnOneBranch(db') /\ IndexesAgree' /\ NoSpentServed'
    BY <1>1 DEF LinkedInv, OnOneBranch, IndexesAgree, NoSpentServed
  <1>3. ASSUME NEW r \in Syncs PROVE SyncLinked(r)'
    <2>1. BuildsOn(r, b) /\ SyncLinked(r)
      BY <1>1 DEF NodeAdvances, LinkedInv
    <2>2. sync[r].phase \in Phases
      BY DEF IndInv, TypeOK, TypeInvariant, SyncLocals
    <2> QED
      BY <1>1, <2>1, <2>2 DEF BuildsOn, SyncLinked, Phases
  <1> QED
    BY <1>2, <1>3 DEF LinkedInv

\* Of a sync that ends nothing is asked.
LEMMA FinishSyncLinked ==
    ASSUME IndInv, LinkedInv, ~strayed, UNCHANGED db, NEW r \in Syncs, sync[r].phase # "idle",
           FinishSync(r)
    PROVE  LinkedInv'
  <1>1. \A s \in Syncs : sync'[s].phase = "idle"
    BY ActiveFacts DEF IndInv, TypeOK, TypeInvariant, FinishSync, Idle
  <1> QED
    BY <1>1, NoBlockLinked

\* The head of the loop, past a block of the node's branch.
LEMMA ContinueAtLinked ==
    ASSUME IndInv, LinkedInv, ~strayed, UNCHANGED <<tip, db>>,
           NEW r \in Syncs, sync[r].phase # "idle", NEW h \in Nat, ContinueAt(r, h),
           GetCurrentBlockState(db) \in Lineage[sync[r].block],
           h <= sync[r].tipHeight => sync[r].block \in Lineage[tip]
    PROVE  LinkedInv'
  <1>1. CASE FinishSync(r)
    BY <1>1, FinishSyncLinked
  <1>2. CASE h <= sync[r].tipHeight /\ sync' = [sync EXCEPT ![r].phase = "hash", ![r].height = h]
    <2> DEFINE new == [sync[r] EXCEPT !.phase = "hash", !.height = h]
    <2>1. sync' = [sync EXCEPT ![r] = new]
      BY <1>2
    <2>2. sync'[r] = new /\ new.phase = "hash" /\ new.block = sync[r].block
      BY <2>1, ActiveFacts DEF IndInv, TypeOK, TypeInvariant, SyncLocals
    <2> HIDE DEF new
    <2>3. SyncLinked(r)'
      BY <1>2, <2>2 DEF SyncLinked
    <2> QED
      BY <2>1, <2>3, LocalStepLinked
  <1> QED
    BY <1>1, <1>2 DEF ContinueAt

\* A confirmed block state is on the node's branch.
LEMMA TraceMatchesLinked ==
    ASSUME IndInv, LinkedInv, ~strayed, NEW r \in Syncs, TraceMatches(r)
    PROVE  LinkedInv'
  <1> DEFINE top == GetCurrentBlockState(db)
  <1>1. /\ sync[r].phase = "traced" /\ sync[r].block = sync[r].current
        /\ ContinueAt(r, Height[sync[r].current] + 1) /\ UNCHANGED <<tip, db>>
    BY DEF TraceMatches
  <1>2. sync[r].current = top /\ top \in Blocks /\ Height[top] \in Nat
    BY <1>1, ActiveFacts, TopFacts DEF IndInv, SyncConsistent
  <1>3. sync[r].block \in Lineage[tip] /\ top \in Lineage[sync[r].block]
    BY <1>1, <1>2, LineageIsChain DEF LinkedInv, SyncLinked
  <1>4. Height[sync[r].current] + 1 \in Nat
    BY <1>2
  <1> QED
    BY <1>1, <1>3, <1>4, ContinueAtLinked

\* From group to group of a block, and from block to block.
LEMMA ContinueBlockLinked ==
    ASSUME IndInv, LinkedInv, ~strayed, UNCHANGED <<tip, db>>,
           NEW r \in Syncs, sync[r].phase \in {"block", "emit"}, ContinueBlock(r)
    PROVE  LinkedInv'
  <1> DEFINE top == GetCurrentBlockState(db)
             b   == sync[r].block
  <1>1. sync[r] \in SyncLocals(OpStates) /\ db.opState # NoState
    BY ActiveFacts
  <1>2. top \in Lineage[b] /\ (sync[r].height < sync[r].tipHeight => b \in Lineage[tip])
    <2>1. CASE sync[r].phase = "block"
      BY <2>1 DEF LinkedInv, SyncLinked
    <2>2. CASE sync[r].phase = "emit"
      <3>1. b = top /\ top \in Blocks
        BY <1>1, <2>2, TopFacts DEF IndInv, SyncConsistent
      <3> QED
        BY <2>2, <3>1, LineageIsChain DEF LinkedInv, SyncLinked
    <2> QED
      BY <2>1, <2>2
  <1>3. sync[r].height \in Nat /\ sync[r].tipHeight \in Nat
    BY <1>1 DEF SyncLocals
  <1>4. CASE ContinueAt(r, sync[r].height + 1)
    BY <1>2, <1>3, <1>4, ContinueAtLinked
  <1>5. CASE sync' = [sync EXCEPT ![r].phase = "txs"]
    <2> DEFINE new == [sync[r] EXCEPT !.phase = "txs"]
    <2>1. sync' = [sync EXCEPT ![r] = new]
      BY <1>5
    <2>2. /\ sync'[r] = new /\ new.phase = "txs" /\ new.block = b
          /\ new.height = sync[r].height /\ new.tipHeight = sync[r].tipHeight
      BY <1>1, <2>1 DEF IndInv, TypeOK, TypeInvariant, SyncLocals
    <2> HIDE DEF new
    <2>3. SyncLinked(r)'
      BY <1>2, <2>2 DEF SyncLinked
    <2> QED
      BY <2>1, <2>3, LocalStepLinked
  <1> QED
    BY <1>4, <1>5 DEF ContinueBlock

\* A confirmed hash is on the node's branch.
LEMMA AnswerTraceLinked ==
    ASSUME ~strayed, IndInv, LinkedInv, NEW r \in Syncs, AnswerTrace(r)
    PROVE  LinkedInv'
  <1> DEFINE answer == BlockAt(tip, Height[sync[r].current])
             new    == [sync[r] EXCEPT !.phase = "traced", !.block = answer]
  <1>1. sync[r].phase = "trace" /\ db.opState # NoState /\ sync[r] \in SyncLocals(OpStates)
    BY ActiveFacts DEF AnswerTrace
  <1>2. answer \in Lineage[tip]
    <2>1. sync[r].current = GetCurrentBlockState(db)
      BY <1>1 DEF IndInv, SyncConsistent
    <2>2. Height[sync[r].current] \in BaseHeight..Height[tip] /\ tip \in Blocks
      BY <1>1, <2>1, TopFacts, HeightType
    <2> QED
      BY <2>2, BlockAtType
  <1>3. sync' = [sync EXCEPT ![r] = new] /\ UNCHANGED <<tip, db>>
    BY DEF AnswerTrace
  <1>4. sync'[r] = new /\ new.phase = "traced" /\ new.block = answer
    BY <1>1, <1>3 DEF IndInv, TypeOK, TypeInvariant, SyncLocals
  <1> HIDE DEF new, answer
  <1>5. SyncLinked(r)'
    BY <1>2, <1>3, <1>4 DEF SyncLinked
  <1> QED
    BY <1>1, <1>3, <1>5, LocalStepLinked

\* The block the node has above one of its own branch descends from that one.
LEMMA AnswerBlockHashLinked ==
    ASSUME ~strayed, IndInv, LinkedInv, NEW r \in Syncs, AnswerBlockHash(r, db.opState)
    PROVE  LinkedInv'
  <1> DEFINE top    == GetCurrentBlockState(db)
             below  == sync[r].block
             answer == BlockAt(tip, sync[r].height)
             new    == [sync[r] EXCEPT !.phase = "block", !.state = db.opState, !.block = answer]
  <1>1. sync[r].phase = "hash" /\ db.opState # NoState /\ sync[r] \in SyncLocals(OpStates)
    BY ActiveFacts DEF AnswerBlockHash
  <1>2. /\ below \in Blocks /\ Height[top] <= Height[below]
        /\ sync[r].height = Height[below] + 1
        /\ sync[r].height <= sync[r].tipHeight /\ sync[r].tipHeight <= Height[tip]
    BY <1>1 DEF IndInv, SyncConsistent
  <1>3. /\ sync[r].height \in Nat /\ sync[r].tipHeight \in Nat /\ Height[below] \in Nat
        /\ tip \in Blocks /\ Height[tip] \in Nat /\ top \in Blocks /\ Height[top] \in Nat
        /\ BaseHeight <= Height[top] /\ BaseHeight \in Nat
    BY <1>1, <1>2, TopFacts, HeightType DEF SyncLocals
  <1>4. answer \in Lineage[tip] /\ Height[answer] = sync[r].height
    <2>1. sync[r].height \in BaseHeight..Height[tip]
      BY <1>2, <1>3
    <2> QED
      BY <1>3, <2>1, BlockAtType
  <1>5. top \in Lineage[answer]
    <2>1. below \in Lineage[tip] /\ top \in Lineage[below]
      BY <1>1 DEF LinkedInv, SyncLinked
    <2>2. top \in Lineage[tip]
      BY <1>3, <2>1, LineageIsChain
    <2>3. Height[top] <= Height[answer]
      BY <1>2, <1>3, <1>4
    <2> QED
      BY <1>3, <1>4, <2>2, <2>3, LineageOrdered
  <1>6. sync' = [sync EXCEPT ![r] = new] /\ UNCHANGED <<tip, db>>
    BY DEF AnswerBlockHash
  <1>7. sync'[r] = new /\ new.phase = "block" /\ new.block = answer
    BY <1>1, <1>6 DEF IndInv, TypeOK, TypeInvariant, SyncLocals
  <1> HIDE DEF new, answer
  <1>8. SyncLinked(r)'
    BY <1>4, <1>5, <1>6, <1>7 DEF SyncLinked
  <1> QED
    BY <1>1, <1>6, <1>8, LocalStepLinked

\* The bootstrap writes the first block state into a store without transactions.
LEMMA BootstrapCommitsLinked ==
    ASSUME ~strayed, IndInv, LinkedInv, BootstrapCommits
    PROVE  LinkedInv'
  <1>1. /\ boot = "hash" /\ sync' = sync /\ strayed' = strayed
        /\ db' = SetState(db, InitialState, BlockAt(tip, BaseHeight))
    BY DEF BootstrapCommits, SaveInitialState
  <1>2. \A r \in Syncs : sync'[r].phase = "idle"
    BY <1>1, IdleFacts
  <1>3. BlockAt(tip, BaseHeight) = BaseBlock
    BY HeightType, BlockAtType, BaseIsOnly DEF IndInv, TypeOK, TypeInvariant
  <1>4. IndexedHeights(db) = {} /\ db \in Stores(OpStates)
    BY <1>1 DEF IndInv, BootConsistent, StatesStacked, TypeOK, TypeInvariant
  <1>5. /\ db'.tx = db.tx /\ db'.time = db.time /\ db'.unspent = db.unspent /\ db'.hashIndex = db.hashIndex
        /\ db'.heightIndex = db.heightIndex /\ db'.timeIndex = db.timeIndex
        /\ db'.blockState = [db.blockState EXCEPT ![BaseHeight] = BaseBlock]
    BY <1>1, <1>3, <1>4 DEF SetState, Stores, BaseHeight
  <1>6. IndexesAgree' /\ NoSpentServed'
    BY <1>5 DEF LinkedInv, IndexesAgree, NoSpentServed
  <1>7. OnOneBranch(db')
    <2>1. BaseHeight \in Heights /\ db.blockState \in [Heights -> Blocks \cup {NoBlock}]
      BY <1>4, HeightType, LedgerTypes DEF BaseHeight, Stores
    <2>2. db'.blockState[BaseHeight] = BaseBlock /\ IndexedHeights(db') = {BaseHeight}
      BY <1>4, <1>5, <2>1, LedgerTypes DEF IndexedHeights
    <2>3. Contiguous(db') /\ GetCurrentBlockState(db') = BaseBlock
      BY <1>1, <1>3, <1>4, FirstBlockState
    <2> QED
      BY <2>2, <2>3, LineageIsChain, LedgerTypes DEF OnOneBranch
  <1> QED
    BY <1>1, <1>2, <1>6, <1>7 DEF LinkedInv, SyncLinked

\* While the block states are one branch, an indexed block is on the branch that
\* ends at the current one.
LEMMA IndexedOnLineage ==
    ASSUME NEW S, db \in Stores(S), Stacked(db), OnOneBranch(db), NEW c \in IndexedBlocks
    PROVE  c \in Lineage[GetCurrentBlockState(db)]
  BY IndexedFacts DEF OnOneBranch

\* Without its topmost block state a branch is a branch.
LEMMA RollbackOnOneBranch ==
    ASSUME IndInv, LinkedInv, ~strayed, NEW r \in Syncs, TraceMismatches(r)
    PROVE  OnOneBranch(db')
  <1> DEFINE top  == GetCurrentBlockState(db)
             next == GetCurrentBlockState(db')
  <1>1. /\ db' = RemoveState(db, top) /\ top \in Blocks /\ top # BaseBlock
        /\ db.opState # NoState
    BY MismatchFacts, ActiveFacts
  <1>2. /\ db \in Stores(OpStates) /\ Stacked(db) /\ db.blockState[Height[top]] = top
        /\ \A h \in IndexedHeights(db) : h <= Height[top]
        /\ Height[top] \in Nat
    BY <1>1, TopFacts
  <1>3. /\ Stacked(db') /\ db' \in Stores(OpStates)
        /\ db'.blockState = [db.blockState EXCEPT ![Height[top]] = NoBlock]
        /\ IndexedHeights(db') = IndexedHeights(db) \ {Height[top]}
    BY <1>1, <1>2, StackedRemoveState, RemoveStateType
  <1>4. /\ next \in Blocks /\ Height[next] \in IndexedHeights(db')
        /\ db'.blockState[Height[next]] = next
        /\ \A h \in IndexedHeights(db') : h <= Height[next]
    BY <1>2, <1>3, StackedTop
  <1>5. \A h \in IndexedHeights(db') :
            /\ db'.blockState[h] = db.blockState[h] /\ db.blockState[h] \in Lineage[top]
            /\ Height[db'.blockState[h]] = h
    BY <1>2, <1>3 DEF LinkedInv, OnOneBranch, Stacked, IndexedHeights, Stores
  <1>6. next \in Lineage[top]
    BY <1>4, <1>5
  <1> HIDE DEF next, top
  <1>7. \A h \in IndexedHeights(db') : db'.blockState[h] \in Lineage[next]
    BY <1>1, <1>4, <1>5, <1>6, LineageOrdered
  <1> QED
    BY <1>7 DEF OnOneBranch, next

\* While the indexes agree, the entries of the deleted block are all there is of it,
\* and they all go.
LEMMA RollbackIndexes ==
    ASSUME IndInv, IndexesAgree, NEW r \in Syncs, TraceMismatches(r)
    PROVE  IndexesAgree' /\ (NoSpentServed => NoSpentServed')
  <1> DEFINE b     == GetCurrentBlockState(db)
             txids == {t \in Txids : <<b, t>> \in db.hashIndex /\ db.tx[t] # NoBlock}
  <1>1. /\ db' = RemoveState(db, b) /\ b \in Blocks /\ b \in IndexedBlocks
        /\ db.opState # NoState
    BY MismatchFacts, ActiveFacts
  <1>2. db \in Stores(OpStates) /\ Stacked(db) /\ SavedFromIndexed
    BY <1>1, TopFacts DEF IndInv
  <1>3. db.hashIndex \in SUBSET (Blocks \X Txids)
    BY <1>2 DEF Stores
  <1>4. \A e \in db.hashIndex :
            /\ e = <<e[1], e[2]>> /\ e[2] \in Txids /\ db.tx[e[2]] = e[1] /\ e[1] # NoBlock
            /\ e[1] \in IndexedBlocks
            /\ e[2] \in txids <=> e[1] = b
    BY <1>2, <1>3, LedgerTypes DEF IndexesAgree, SavedFromIndexed
  <1>5. \A t \in txids : db.tx[t] = b /\ <<b, t>> \in db.hashIndex
    BY DEF IndexesAgree
  <1>6. \A c \in IndexedBlocks : Height[c] = Height[b] => c = b
    BY <1>1, <1>2, IndexedFacts
  <1>7. /\ db'.tx = [t \in Txids |-> IF t \in txids THEN NoBlock ELSE db.tx[t]]
        /\ db'.time = [t \in Txids |-> IF t \in txids THEN 0 ELSE db.time[t]]
        /\ db'.unspent = {o \in db.unspent : o[1] \notin txids}
        /\ db'.hashIndex = db.hashIndex \ ({b} \X txids)
        /\ db'.heightIndex = db.heightIndex \ {<<Height[db.tx[t]], t>> : t \in txids}
        /\ db'.timeIndex = db.timeIndex \ {<<db.time[t], Height[db.tx[t]]>> : t \in txids}
    BY <1>1, <1>2 DEF RemoveState, DeleteTransactionsByBlockHash, Stores
  <1>8. /\ {<<Height[db.tx[t]], t>> : t \in txids} = {<<Height[b], t>> : t \in txids}
        /\ {<<db.time[t], Height[db.tx[t]]>> : t \in txids}
              = {<<db.time[t], Height[b]>> : t \in txids}
    BY <1>5
  <1> HIDE DEF txids, b
  <1>9. db'.hashIndex = {e \in db.hashIndex : e[1] # b}
    BY <1>4, <1>5, <1>7
  <1>10. \A e \in db'.hashIndex : db'.tx[e[2]] = e[1]
    BY <1>4, <1>7, <1>9
  <1>11. db'.heightIndex = {<<Height[e[1]], e[2]>> : e \in db'.hashIndex}
    BY <1>4, <1>7, <1>8, <1>9 DEF IndexesAgree
  <1>12. db'.timeIndex = {<<db'.time[e[2]], Height[e[1]]>> : e \in db'.hashIndex}
    <2>1. \A e \in db'.hashIndex : db'.time[e[2]] = db.time[e[2]] /\ Height[e[1]] # Height[b]
      BY <1>4, <1>6, <1>7, <1>9
    <2>2. \A e \in db.hashIndex : e[1] = b => e[2] \in txids
      BY <1>4
    <2>3. db'.timeIndex = {<<db.time[e[2]], Height[e[1]]>> : e \in db'.hashIndex}
      BY <1>5, <1>7, <1>8, <1>9, <2>1, <2>2 DEF IndexesAgree
    <2> QED
      BY <2>1, <2>3
  <1>13. NoSpentServed => NoSpentServed'
    BY <1>7 DEF NoSpentServed
  <1> QED
    BY <1>10, <1>11, <1>12, <1>13 DEF IndexesAgree

\* A rollback takes the last block off the branch, with all that was saved from it.
LEMMA TraceMismatchesLinked ==
    ASSUME IndInv, LinkedInv, ~strayed, NEW r \in Syncs, TraceMismatches(r)
    PROVE  LinkedInv'
  <1>1. OnOneBranch(db') /\ IndexesAgree' /\ NoSpentServed'
    BY RollbackOnOneBranch, RollbackIndexes DEF LinkedInv
  <1>2. sync[r].phase = "traced" /\ sync[r] \in SyncLocals(OpStates)
    BY MismatchFacts, ActiveFacts
  <1>3. \A s \in Syncs : sync'[s].phase \in {"idle", "trace"}
    BY <1>2, ActiveFacts
    DEF TraceMismatches, FinishSync, Idle, IndInv, TypeOK, TypeInvariant, SyncLocals
  <1> QED
    BY <1>1, <1>3 DEF LinkedInv, SyncLinked

\* The block committed descends from the current one, and from every indexed one.
LEMMA CommitOnOneBranch ==
    ASSUME IndInv, LinkedInv, ~strayed, NEW r \in Syncs, CommitTxBatch(r)
    PROVE  LET b == sync[r].block
           IN  /\ OnOneBranch(db')
               /\ \A c \in IndexedBlocks : c \in Lineage[b]
  <1> DEFINE b   == sync[r].block
             top == GetCurrentBlockState(db)
  <1>1. /\ sync[r].phase = "txs" /\ b \in Blocks /\ db \in Stores(OpStates) /\ Stacked(db)
        /\ Height[b] \in Nat
    BY CommitFacts
  <1>2. top \in Lineage[b] /\ top \in Blocks
    BY <1>1, ActiveFacts, TopFacts DEF LinkedInv, SyncLinked
  <1>3. Lineage[top] \subseteq Lineage[b] /\ b \in Lineage[b]
    BY <1>1, <1>2, LineageIsChain
  <1>4. /\ GetCurrentBlockState(db') = b
        /\ db'.blockState = [db.blockState EXCEPT ![Height[b]] = b]
        /\ IndexedHeights(db') = IndexedHeights(db) \cup {Height[b]}
    BY CommitStates
  <1>5. \A h \in IndexedHeights(db) : h \in Heights /\ db.blockState[h] \in Lineage[top]
    BY DEF LinkedInv, OnOneBranch, IndexedHeights
  <1>6. db.blockState \in [Heights -> Blocks \cup {NoBlock}] /\ Height[b] \in Heights
    BY <1>1, HeightType DEF Stores
  <1> HIDE DEF b, top
  <1>7. \A h \in IndexedHeights(db') : db'.blockState[h] \in Lineage[b]
    BY <1>3, <1>4, <1>5, <1>6
  <1>8. \A c \in IndexedBlocks : c \in Lineage[b]
    BY <1>1, <1>3, IndexedOnLineage DEF LinkedInv, top
  <1> QED
    BY <1>4, <1>7, <1>8 DEF OnOneBranch, b

\* A transaction is mined once on a branch: none is saved again from another block,
\* and the entries added are those of the block.
LEMMA CommitIndexes ==
    ASSUME IndInv, LinkedInv, ~strayed, NEW r \in Syncs, CommitTxBatch(r)
    PROVE  IndexesAgree'
  <1> DEFINE b     == sync[r].block
             saved == Eligible(TxBatch(r))
  <1>1. /\ sync[r].phase = "txs" /\ b \in Blocks /\ db \in Stores(OpStates)
        /\ IndexesAgree /\ SavedFromIndexed
    BY CommitFacts DEF LinkedInv, IndInv
  <1>2. \A t \in saved : t \in TxsOf(b) /\ t \in Txids
    BY <1>1, TxBatchFacts DEF Eligible
  <1>3. \A c \in IndexedBlocks : c \in Lineage[b]
    BY CommitOnOneBranch
  <1>4. b \in Lineage[b]
    BY <1>1, LineageIsChain
  <1>5. /\ db'.tx = [t \in Txids |-> IF t \in saved THEN b ELSE db.tx[t]]
        /\ db'.time = [t \in Txids |-> IF t \in saved THEN sync[r].times[t] ELSE db.time[t]]
        /\ db'.heightIndex = db.heightIndex \cup ({Height[b]} \X saved)
        /\ db'.hashIndex = db.hashIndex \cup ({b} \X saved)
        /\ db'.timeIndex = db.timeIndex \cup {<<sync[r].times[t], Height[b]>> : t \in saved}
    BY CommitEffect
  <1>6. db.hashIndex \in SUBSET (Blocks \X Txids)
    BY <1>1 DEF Stores
  <1>60. \A t \in saved : db.tx[t] # b
    <2> SUFFICES ASSUME NEW t \in saved, db.tx[t] = b PROVE FALSE
      OBVIOUS
    <2>1. PICK i \in DOMAIN BlockTxs[b] : BlockTxs[b][i] = t /\ i < NextTxIndex(r)
      BY <1>1, <1>2 DEF IndInv, GroupsInOrder
    <2>2. PICK j \in DOMAIN BlockTxs[b] : BlockTxs[b][j] = t /\ NextTxIndex(r) <= j
      BY <1>1, TxBatchFacts DEF Eligible
    <2>3. i = j /\ i \in Nat /\ NextTxIndex(r) \in Nat
      BY <1>1, <2>1, <2>2, BlockIsOrdered, LedgerTypes, NextTxIndexType
    <2> QED
      BY <2>1, <2>2, <2>3
  <1> HIDE DEF saved, b
  <1>7. \A e \in db.hashIndex : e[2] \in Txids /\ e[2] \notin saved
    <2> SUFFICES ASSUME NEW e \in db.hashIndex
                 PROVE  e[2] \in Txids /\ e[2] \notin saved
      OBVIOUS
    <2>1. e[1] \in Blocks /\ e[2] \in Txids /\ db.tx[e[2]] = e[1] /\ e[1] # NoBlock
      BY <1>1, <1>6, LedgerTypes DEF IndexesAgree
    <2>2. e[1] \in Lineage[b] /\ e[2] \in TxsOf(e[1])
      BY <1>1, <1>3, <2>1 DEF SavedFromIndexed
    <2>3. e[2] \in saved => e[1] = b
      BY <1>1, <1>2, <1>4, <2>1, <2>2, LineageIsValid
    <2> QED
      BY <1>60, <2>1, <2>3
  <1>8. \A e \in db'.hashIndex : db'.tx[e[2]] = e[1]
    BY <1>1, <1>2, <1>5, <1>7 DEF IndexesAgree
  <1> DEFINE H(D) == {<<Height[e[1]], e[2]>> : e \in D}
             T(D) == {<<db'.time[e[2]], Height[e[1]]>> : e \in D}
             K    == {b} \X saved
  <1>9. H(K) = {Height[b]} \X saved
    <2>1. \A e \in K : <<Height[e[1]], e[2]>> \in {Height[b]} \X saved
      OBVIOUS
    <2>2. ASSUME NEW p \in {Height[b]} \X saved PROVE p \in H(K)
      <3>1. PICK t \in saved : p = <<Height[b], t>>
        OBVIOUS
      <3>2. <<b, t>> \in K /\ <<b, t>>[1] = b /\ <<b, t>>[2] = t
        OBVIOUS
      <3> HIDE DEF K
      <3> QED
        BY <3>1, <3>2
    <2> QED
      BY <2>1, <2>2
  <1>10. T(K) = {<<sync[r].times[t], Height[b]>> : t \in saved}
    <2>1. \A e \in K : e[1] = b /\ e[2] \in saved
      OBVIOUS
    <2>2. \A t \in saved : <<b, t>> \in K /\ <<b, t>>[1] = b /\ <<b, t>>[2] = t
      OBVIOUS
    <2>3. \A t \in saved : db'.time[t] = sync[r].times[t]
      BY <1>2, <1>5
    <2> HIDE DEF K
    <2>4. \A e \in K : <<db'.time[e[2]], Height[e[1]]>> = <<sync[r].times[e[2]], Height[b]>>
      BY <2>1, <2>3
    <2>5. \A t \in saved : <<sync[r].times[t], Height[b]>> \in T(K)
      BY <2>2, <2>3
    <2> QED
      BY <2>1, <2>4, <2>5
  <1> HIDE DEF K
  <1>11. db'.hashIndex = db.hashIndex \cup K
    BY <1>5 DEF K
  <1>12. db'.heightIndex = H(db'.hashIndex)
    <2>1. H(db.hashIndex \cup K) = H(db.hashIndex) \cup H(K)
      OBVIOUS
    <2> QED
      BY <1>1, <1>5, <1>9, <1>11, <2>1 DEF IndexesAgree
  <1>13. db'.timeIndex = T(db'.hashIndex)
    <2>1. T(db.hashIndex \cup K) = T(db.hashIndex) \cup T(K)
      OBVIOUS
    <2>2. db.timeIndex = T(db.hashIndex)
      <3>1. \A e \in db.hashIndex : db'.time[e[2]] = db.time[e[2]]
        BY <1>5, <1>7
      <3>2. db.timeIndex = {<<db.time[e[2]], Height[e[1]]>> : e \in db.hashIndex}
        BY <1>1 DEF IndexesAgree
      <3> QED
        BY <3>1, <3>2
    <2> HIDE DEF T
    <2> QED
      BY <1>5, <1>10, <1>11, <2>1, <2>2
  <1> QED
    BY <1>8, <1>12, <1>13 DEF IndexesAgree

\* An output saved now is spent by no transaction saved before: its spender is in a
\* block above, or later in the same block, where the groups have not come yet.
LEMMA CommitSpent ==
    ASSUME IndInv, LinkedInv, ~strayed, NEW r \in Syncs, CommitTxBatch(r)
    PROVE  NoSpentServed'
  <1> DEFINE b     == sync[r].block
             batch == TxBatch(r)
             saved == Eligible(batch)
             new   == OutpointsOf(saved)
  <1>1. /\ sync[r].phase = "txs" /\ b \in Blocks /\ db \in Stores(OpStates)
        /\ NoSpentServed /\ SavedFromIndexed /\ UnspentAgrees(db)
    BY CommitFacts DEF LinkedInv, IndInv
  <1>2. /\ saved \subseteq batch /\ batch \subseteq TxsOf(b)
        /\ \A t \in batch : \E i \in DOMAIN BlockTxs[b] :
              BlockTxs[b][i] = t /\ NextTxIndex(r) <= i
    BY <1>1, TxBatchFacts DEF Eligible
  <1>3. \A c \in IndexedBlocks : c \in Lineage[b]
    BY CommitOnOneBranch
  <1>4. /\ db'.tx = [t \in Txids |-> IF t \in saved THEN b ELSE db.tx[t]]
        /\ db'.unspent = (db.unspent \cup new)
             \ {o \in Outpoints \cap SpentBy(batch) : o \in new \/ db.output[o] = "unspent"}
    BY CommitEffect
  <1>5. /\ \A o \in db.unspent : o \in Outpoints /\ db.output[o] = "unspent"
        /\ \A o \in new : o \in Outpoints /\ o[1] \in saved
    BY <1>1 DEF UnspentAgrees, OutpointsOf
  <1> HIDE DEF saved, new, batch, b
  <1> SUFFICES ASSUME NEW t \in Txids, db'.tx[t] # NoBlock,
                      NEW o \in Spends[t], o \in db'.unspent
               PROVE  FALSE
    BY DEF NoSpentServed
  <1>6. CASE t \in batch
    BY <1>4, <1>5, <1>6 DEF SpentBy
  <1>7. CASE t \notin batch
    <2> DEFINE c == db.tx[t]
               u == o[1]
    <2>1. c # NoBlock /\ t \notin saved
      BY <1>2, <1>4, <1>7
    <2>2. c \in IndexedBlocks /\ t \in TxsOf(c) /\ c \in Lineage[b]
      BY <1>1, <1>3, <2>1 DEF SavedFromIndexed
    <2>3. o \notin db.unspent
      BY <1>1, <2>1 DEF NoSpentServed
    <2>4. o \in new /\ u \in batch /\ u \in TxsOf(b)
      BY <1>2, <1>4, <1>5, <2>3
    <2>5. c = b
      <3>1. b \in Lineage[b] /\ c \in Blocks /\ Height[c] <= Height[b]
            /\ Height[b] \in Nat /\ Height[c] \in Nat
        BY <1>1, <2>2, LineageIsChain, LedgerTypes, HeightType
      <3>2. Height[b] <= Height[c]
        BY <1>1, <2>2, <2>4, <3>1, LineageIsValid
      <3> QED
        BY <1>1, <2>2, <3>1, <3>2, LineageIsChain
    <2>6. PICK i \in DOMAIN BlockTxs[b] : BlockTxs[b][i] = t /\ i < NextTxIndex(r)
      BY <1>1, <2>5 DEF IndInv, GroupsInOrder, b
    <2>7. PICK j \in DOMAIN BlockTxs[b] : BlockTxs[b][j] = u /\ NextTxIndex(r) <= j
      BY <1>2, <2>4
    <2>8. j < i
      BY <1>1, <2>6, <2>7, BlockIsOrdered
    <2>9. i \in Nat /\ j \in Nat /\ NextTxIndex(r) \in Nat
      BY <1>1, NextTxIndexType, LedgerTypes
    <2> QED
      BY <2>6, <2>7, <2>8, <2>9
  <1> QED
    BY <1>6, <1>7

\* A commit keeps the branch and what is served of it.
LEMMA CommitTxBatchLinked ==
    ASSUME IndInv, LinkedInv, ~strayed, NEW r \in Syncs, CommitTxBatch(r)
    PROVE  LinkedInv'
  <1> DEFINE state == [indexedBlockHeight   |-> sync[r].height,
                       lastProcessedTxIndex |-> NextTxIndex(r) + BatchSize - 1]
             new   == [sync[r] EXCEPT !.phase = "emit", !.state = state, !.times = Idle.times]
  <1>1. OnOneBranch(db') /\ IndexesAgree' /\ NoSpentServed'
    BY CommitOnOneBranch, CommitIndexes, CommitSpent
  <1>2. /\ sync[r].phase = "txs" /\ sync[r] \in SyncLocals(OpStates)
        /\ sync' = [sync EXCEPT ![r] = new] /\ UNCHANGED tip
    BY CommitFacts DEF CommitTxBatch
  <1>3. /\ sync'[r] = new /\ new.phase = "emit" /\ new.block = sync[r].block
        /\ new.height = sync[r].height /\ new.tipHeight = sync[r].tipHeight
    BY <1>2 DEF IndInv, TypeOK, TypeInvariant, SyncLocals
  <1> HIDE DEF new
  <1>4. SyncLinked(r)'
    BY <1>2, <1>3 DEF LinkedInv, SyncLinked
  <1>5. \A s \in Syncs \ {r} : sync'[s].phase = "idle"
    BY <1>2, ActiveFacts DEF IndInv, TypeOK, TypeInvariant
  <1>6. \A s \in Syncs \ {r} : SyncLinked(s)'
    BY <1>5 DEF SyncLinked
  <1> QED
    BY <1>1, <1>4, <1>6 DEF LinkedInv

\* No step of a sync is one of the node.
LEMMA SyncStepStrayed ==
    ASSUME NEW r \in Syncs, SyncStep(r)
    PROVE  strayed' = strayed
  BY DEF SyncStep, NextSyncStep, StartSync, StateNotFound, NoNewBlocks, NewBlocksFound,
         AnswerTrace, TraceMatches, TraceMismatches, RequestFails, AnswerBlockHash, AnswerTxids,
         AnswerTx, CommitTxBatch, EmitIndexedBlock

\* An answer for one transaction tells nothing of the branch.
LEMMA AnswerTxLinked ==
    ASSUME IndInv, LinkedInv, ~strayed, NEW r \in Syncs, NEW t \in Txids, AnswerTx(r, t)
    PROVE  LinkedInv'
  <1>1. PICK new \in SyncLocals(OpStates) :
           /\ sync' = [sync EXCEPT ![r] = new] /\ sync'[r] = new
           /\ new.phase = "txs" /\ new.state = sync[r].state
           /\ new.tipHeight = sync[r].tipHeight /\ new.current = sync[r].current
           /\ new.height = sync[r].height /\ new.block = sync[r].block
    BY AnswerTxFacts
  <1>2. UNCHANGED <<tip, db>> /\ sync[r].phase = "txs"
    BY DEF AnswerTx
  <1>3. SyncLinked(r)'
    BY <1>1, <1>2 DEF LinkedInv, SyncLinked
  <1> QED
    BY <1>1, <1>2, <1>3, LocalStepLinked

\* The steps before the trace.
LEMMA StartLinked ==
    ASSUME IndInv, LinkedInv, ~strayed, NEW r \in Syncs,
           StartSync(r) \/ StateNotFound(r) \/ NewBlocksFound(r)
    PROVE  LinkedInv'
  <1>1. CASE StartSync(r) \/ StateNotFound(r)
    <2>1. \A s \in Syncs : sync[s].phase = "idle"
      BY <1>1, IdleFacts DEF StartSync, StateNotFound, CronFires
    <2>2. \A s \in Syncs : sync'[s].phase \in {"idle", "tip"}
      BY <1>1, <2>1 DEF StartSync, StateNotFound, Idle, IndInv, TypeOK, TypeInvariant
    <2> QED
      BY <1>1, <2>2, NoBlockLinked DEF StartSync, StateNotFound
  <1>2. CASE NewBlocksFound(r)
    <2>1. sync[r].phase = "tip" /\ sync[r] \in SyncLocals(OpStates) /\ db.opState # NoState
      BY <1>2, ActiveFacts DEF NewBlocksFound
    <2>2. GetCurrentBlockState(db) # NoBlock
      BY <2>1, TopFacts
    <2>3. \A s \in Syncs \ {r} : sync[s].phase = "idle"
      BY <2>1, ActiveFacts
    <2>4. \A s \in Syncs : sync'[s].phase \in {"idle", "trace"}
      BY <1>2, <2>1, <2>2, <2>3 DEF NewBlocksFound, IndInv, TypeOK, TypeInvariant, SyncLocals
    <2> QED
      BY <1>2, <2>4, NoBlockLinked DEF NewBlocksFound
  <1> QED
    BY <1>1, <1>2

\* Every step of a sync keeps the branch.
LEMMA SyncStepLinked ==
    ASSUME IndInv, LinkedInv, ~strayed, NEW r \in Syncs, SyncStep(r)
    PROVE  LinkedInv'
  <1>1. CASE StartSync(r) \/ StateNotFound(r) \/ NewBlocksFound(r)
    BY <1>1, StartLinked
  <1>2. CASE NoNewBlocks(r) \/ RequestFails(r)
    BY <1>2, FinishSyncLinked DEF NoNewBlocks, RequestFails, MayFail
  <1>3. CASE AnswerTrace(r)
    BY <1>3, AnswerTraceLinked
  <1>4. CASE TraceMatches(r)
    BY <1>4, TraceMatchesLinked
  <1>5. CASE TraceMismatches(r)
    BY <1>5, TraceMismatchesLinked
  <1>6. CASE AnswerBlockHash(r, db.opState)
    BY <1>6, AnswerBlockHashLinked
  <1>7. CASE AnswerTxids(r)
    BY <1>7, ContinueBlockLinked DEF AnswerTxids
  <1>8. CASE CommitTxBatch(r)
    BY <1>8, CommitTxBatchLinked
  <1>9. CASE EmitIndexedBlock(r)
    BY <1>9, ContinueBlockLinked DEF EmitIndexedBlock
  <1>10. ASSUME NEW t \in Txids, AnswerTx(r, t) PROVE LinkedInv'
    BY <1>10, AnswerTxLinked
  <1> QED
    BY <1>1, <1>2, <1>3, <1>4, <1>5, <1>6, <1>7, <1>8, <1>9, <1>10 DEF SyncStep, NextSyncStep

\* Every step does, or the node has strayed.
LEMMA NextLinked ==
    ASSUME IndInv, LinkedInv, [Next]_vars
    PROVE  LinkedInv'
  <1> SUFFICES ASSUME ~strayed' PROVE LinkedInv'
    BY DEF LinkedInv
  <1>1. CASE UNCHANGED vars
    BY <1>1 DEF vars, LinkedInv, SyncLinked, IndexesAgree, NoSpentServed
  <1>2. ASSUME NEW b \in Blocks, NodeAdvances(b) PROVE LinkedInv'
    BY <1>2, NodeAdvancesLinked
  <1>3. CASE StartProcess
    <2>1. \A r \in Syncs : sync[r].phase = "idle"
      BY <1>3, IdleFacts DEF StartProcess
    <2> QED
      BY <1>3, <2>1, NoBlockLinked DEF StartProcess
  <1>4. CASE BootstrapCommits
    BY <1>4, BootstrapCommitsLinked DEF BootstrapCommits, SaveInitialState
  <1>5. CASE Crash
    BY <1>5, NoBlockLinked DEF Crash, Idle
  <1>6. ASSUME NEW r \in Syncs, SyncStep(r) PROVE LinkedInv'
    BY <1>6, SyncStepLinked, SyncStepStrayed
  <1> QED
    BY <1>1, <1>2, <1>3, <1>4, <1>5, <1>6 DEF Next

\* The inductive invariant of the branch.
THEOREM BranchInvariance == Spec => []LinkedInv
  <1>1. Init => LinkedInv
    <2> SUFFICES ASSUME Init PROVE LinkedInv
      OBVIOUS
    <2>1. db = EmptyStore /\ \A r \in Syncs : sync[r].phase = "idle"
      BY DEF Init, BaseInit, StoreInit, Idle
    <2>2. IndexedHeights(db) = {} /\ db.hashIndex = {} /\ db.heightIndex = {}
          /\ db.timeIndex = {} /\ \A t \in Txids : db.tx[t] = NoBlock
      BY <2>1 DEF EmptyStore, IndexedHeights
    <2> QED
      BY <2>1, <2>2 DEF LinkedInv, OnOneBranch, SyncLinked, IndexesAgree, NoSpentServed
  <1>2. IndInv /\ LinkedInv /\ [Next]_vars => LinkedInv'
    BY NextLinked
  <1> QED
    BY <1>1, <1>2, Invariance, PTL DEF Spec

\* The indexed blocks are one branch of the tree, as long as the node does not
\* leave the branch of a sync in flight.
THEOREM BranchIntegrity == Spec => []Linked
  <1>1. LinkedInv => Linked
    BY DEF LinkedInv, Linked
  <1> QED
    BY <1>1, BranchInvariance, PTL

\* Every saved transaction is one the reorg trace can find and take away, and the
\* indexes name those alone unless the node has strayed.
THEOREM IndexSoundness == Spec => []IndexSound
  <1>1. IndInv /\ LinkedInv => IndexSound
    BY DEF IndInv, LinkedInv, IndexSound
  <1> QED
    BY <1>1, Invariance, BranchInvariance, PTL

\* However a block is cut into groups, and wherever a sync was interrupted between
\* them, no output is served as unspent whose spender is saved.
THEOREM SpentMarking == Spec => []SpentBySaved
  <1>1. LinkedInv => SpentBySaved
    BY DEF LinkedInv, SpentBySaved
  <1> QED
    BY <1>1, BranchInvariance, PTL

-----------------------------------------------------------------------------
(* Rollbacks *)

\* A commit writes at or above the current height: over no other block's state.
LEMMA CommitKeepsBelowTop ==
    ASSUME IndInv, NEW r \in Syncs, CommitTxBatch(r)
    PROVE  KeepsBelowTop
  <1> DEFINE b == sync[r].block
  <1>1. /\ db'.blockState = [db.blockState EXCEPT ![Height[b]] = b]
        /\ db \in Stores(OpStates) /\ b \in Blocks /\ db.opState # NoState
        /\ b = GetCurrentBlockState(db) \/ Height[GetCurrentBlockState(db)] < Height[b]
        /\ Height[b] \in Nat
    BY CommitFacts, CommitStates
  <1>2. db.blockState[Height[b]] # NoBlock => db.blockState[Height[b]] = b
    BY <1>1, TopFacts, HeightType DEF IndexedHeights
  <1> QED
    BY <1>1, <1>2 DEF KeepsBelowTop, Stores

\* A rollback deletes the current block state alone, the one the node was asked about.
LEMMA RollbackKeepsBelowTop ==
    ASSUME IndInv, NEW r \in Syncs, TraceMismatches(r)
    PROVE  KeepsBelowTop
  <1> DEFINE top == GetCurrentBlockState(db)
  <1>1. /\ db' = RemoveState(db, top) /\ top \in Blocks /\ db.opState # NoState
    BY MismatchFacts, ActiveFacts
  <1>2. /\ db \in Stores(OpStates) /\ Stacked(db)
        /\ Height[top] \in IndexedHeights(db) /\ Height[top] \in Nat
        /\ \A h \in IndexedHeights(db) : h <= Height[top]
    BY <1>1, TopFacts
  <1>3. db'.blockState = [db.blockState EXCEPT ![Height[top]] = NoBlock]
        /\ db'.opState = db.opState
    BY <1>1, <1>2, RemoveStateStates
  <1>4. Height[top] = Max(IndexedHeights(db))
    <2>1. IndexedHeights(db) \in SUBSET Nat
      BY HeightType DEF IndexedHeights, Heights
    <2>2. /\ Max(IndexedHeights(db)) \in IndexedHeights(db)
          /\ \A h \in IndexedHeights(db) : h <= Max(IndexedHeights(db))
      BY <1>2, <2>1, MaxOfBounded
    <2> QED
      BY <1>2, <2>1, <2>2
  <1>5. /\ sync[r].phase = "traced"
        /\ sync[r].current = db.blockState[Height[top]]
        /\ sync[r].block # db.blockState[Height[top]]
    BY <1>1, TopFacts, MismatchFacts DEF TraceMismatches, IndInv, SyncConsistent
  <1> HIDE DEF top
  <1> QED
    BY <1>2, <1>3, <1>4, <1>5 DEF KeepsBelowTop, Stores

\* No step takes away or replaces a block state but the topmost.
LEMMA NextKeepsBelowTop ==
    ASSUME IndInv, [Next]_vars
    PROVE  KeepsBelowTop
  <1>1. CASE UNCHANGED db
    BY <1>1 DEF KeepsBelowTop
  <1>2. CASE BootstrapCommits
    <2>1. IndexedHeights(db) = {}
      BY <1>2 DEF IndInv, BootConsistent, StatesStacked, BootstrapCommits, SaveInitialState
    <2> QED
      BY <2>1 DEF KeepsBelowTop, IndexedHeights
  <1>3. ASSUME NEW r \in Syncs, TraceMismatches(r) PROVE KeepsBelowTop
    BY <1>3, RollbackKeepsBelowTop
  <1>4. ASSUME NEW r \in Syncs, CommitTxBatch(r) PROVE KeepsBelowTop
    BY <1>4, CommitKeepsBelowTop
  <1> QED
    BY <1>1, <1>2, <1>3, <1>4
    DEF Next, vars, NodeAdvances, StartProcess, Crash, SyncStep, NextSyncStep, StartSync,
        StateNotFound, NoNewBlocks, NewBlocksFound, AnswerTrace, TraceMatches, AnswerBlockHash,
        RequestFails, AnswerTxids, AnswerTx, EmitIndexedBlock

\* No step but the trace's rollback of the topmost block state takes one away; a
\* group saved again writes its block's state over itself.
THEOREM RollbackFromTheTop == Spec => OnlyTopRolledBack
  <1>1. IndInv /\ [Next]_vars => [KeepsBelowTop]_vars
    BY NextKeepsBelowTop
  <1> QED
    BY <1>1, Invariance, PTL DEF Spec, OnlyTopRolledBack

=============================================================================
