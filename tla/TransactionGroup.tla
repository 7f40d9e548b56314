--------------------------- MODULE TransactionGroup ---------------------------
(***************************************************************************)
(* One group of an Esplora block's transactions, request by request: the   *)
(* steps AnswerTx and CommitTxBatch of EsploraProvider in full.  sync()    *)
(* asks for every transaction at once, each through makeRequest's loop     *)
(* (src/common/request.ts), and indexes each answer into the batch as it   *)
(* arrives.  The first request to fail for good ends the sync; the others  *)
(* go on, and may still be in flight when the next sync asks again.        *)
(***************************************************************************)
EXTENDS Naturals, FiniteSets

CONSTANTS
    Txs,         \* the group
    Syncs,       \* syncs whose requests may be in flight at one time
    RetryCount,  \* retryConfig.count: requests made for one answer, at most
    NoSync

ASSUME GroupAssumption ==
    /\ RetryCount \in Nat \ {0}
    /\ NoSync \notin Syncs

VARIABLES
    mined,      \* where the server has the transactions: in the block the sync asks
                \* about or, after a branch change, elsewhere or nowhere
    moved,      \* has mined changed since the sync in flight began?  Only
                \* properties read it
    syncing,    \* the sync in flight, isSyncing's owner
    call,       \* call[s][t]: makeRequest for t, in sync s
    batch,      \* batch[s][t]: the block time of the answer indexed into s's batch
    saved,      \* saved[t]: the block time in t's record
    timeIndex   \* the times under which the time index has the block's height

vars == <<mined, moved, syncing, call, batch, saved, timeIndex>>

Places == {"block", "elsewhere"}

Unsaved == "absent"

\* "sent" awaits the server's answer, "replied" its arrival, "backoff" the timer
\* before the next request.  time is that in the answer's status: the time of
\* the block that has the transaction, and 0 outside a block.
CallPhases == {"idle", "sent", "replied", "backoff", "answered", "failed"}

Call(phase, count) == [phase |-> phase, count |-> count, time |-> Unsaved]

NoCall == Call("idle", 0)

Settled(s) == \A t \in Txs : call[s][t].phase \in {"idle", "answered", "failed"}

Init ==
    /\ mined = "block"
    /\ moved = FALSE
    /\ syncing = NoSync
    /\ call = [s \in Syncs |-> [t \in Txs |-> NoCall]]
    /\ batch = [s \in Syncs |-> [t \in Txs |-> Unsaved]]
    /\ saved = [t \in Txs |-> Unsaved]
    /\ timeIndex = {}

-----------------------------------------------------------------------------
(* The server *)

BranchChanges ==
    /\ mined' \in Places \ {mined}
    /\ moved' = TRUE
    /\ UNCHANGED <<syncing, call, batch, saved, timeIndex>>

-----------------------------------------------------------------------------
(* The sync *)

\* The sync has just learned the block's hash and txids.  Promise.all sends a
\* request for each of them; the batch is a new one.
StartSync(s) ==
    /\ syncing = NoSync /\ Settled(s)
    /\ mined = "block" /\ \A t \in Txs : saved[t] = Unsaved
    /\ syncing' = s
    /\ call' = [call EXCEPT ![s] = [t \in Txs |-> Call("sent", 1)]]
    /\ batch' = [batch EXCEPT ![s] = [t \in Txs |-> Unsaved]]
    /\ moved' = FALSE
    /\ UNCHANGED <<mined, saved, timeIndex>>

\* The server answers.
Replies(s, t) ==
    /\ call[s][t].phase = "sent"
    /\ call' = [call EXCEPT ![s][t] = [Call("replied", 0) EXCEPT !.time = mined]]
    /\ UNCHANGED <<mined, moved, syncing, batch, saved, timeIndex>>

\* Fault: one batch for all syncs.
IndexIntoCurrentBatch(s, t) ==
    /\ call[s][t].phase = "replied"
    /\ call' = [call EXCEPT ![s][t] = Call("answered", 0)]
    /\ batch' = [batch EXCEPT ![IF syncing = NoSync THEN s ELSE syncing][t] = call[s][t].time]
    /\ UNCHANGED <<mined, moved, syncing, saved, timeIndex>>

\* The answer arrives and is indexed into the batch of the sync that asked for
\* it, which may have been discarded.
Index(s, t) ==
    /\ call[s][t].phase = "replied"
    /\ call' = [call EXCEPT ![s][t] = Call("answered", 0)]
    /\ batch' = [batch EXCEPT ![s][t] = call[s][t].time]
    /\ UNCHANGED <<mined, moved, syncing, saved, timeIndex>>

\* Fault: the flag is cleared on success only.
ThrowsKeepFlag(s, t) ==
    /\ call' = [call EXCEPT ![s][t] = Call("failed", 0)]
    /\ UNCHANGED <<mined, moved, syncing, batch, saved, timeIndex>>

\* makeRequest throws: Promise.all rejects at the first such call, the batch is
\* dropped and the finally clause clears the flag.  A later one is not noticed.
Throws(s, t) ==
    /\ call' = [call EXCEPT ![s][t] = Call("failed", 0)]
    /\ syncing' = IF syncing = s THEN NoSync ELSE syncing
    /\ UNCHANGED <<mined, moved, batch, saved, timeIndex>>

\* The server answers with an error, the request is aborted, or the error is not
\* axios's: there is no other attempt.
Refused(s, t) ==
    /\ call[s][t].phase = "sent"
    /\ Throws(s, t)

\* A network error, in the last attempt.
GivesUp(s, t) ==
    /\ call[s][t].phase = "sent" /\ call[s][t].count = RetryCount
    /\ Throws(s, t)

\* Fault: the last attempt is followed by another.
BacksOffAlways(s, t) ==
    /\ call[s][t].phase = "sent"
    /\ call' = [call EXCEPT ![s][t] = Call("backoff", @.count)]
    /\ UNCHANGED <<mined, moved, syncing, batch, saved, timeIndex>>

\* A network error: the next attempt follows after a delay.
BacksOff(s, t) ==
    /\ call[s][t].phase = "sent" /\ call[s][t].count < RetryCount
    /\ call' = [call EXCEPT ![s][t] = Call("backoff", @.count)]
    /\ UNCHANGED <<mined, moved, syncing, batch, saved, timeIndex>>

\* Fault: the promise of the last attempt's delay is never resolved.
RetriesOnceLess(s, t) ==
    /\ call[s][t].phase = "backoff"
    /\ call[s][t].count + 1 < RetryCount
    /\ call' = [call EXCEPT ![s][t] = Call("sent", @.count + 1)]
    /\ UNCHANGED <<mined, moved, syncing, batch, saved, timeIndex>>

Retries(s, t) ==
    /\ call[s][t].phase = "backoff"
    /\ call' = [call EXCEPT ![s][t] = Call("sent", @.count + 1)]
    /\ UNCHANGED <<mined, moved, syncing, batch, saved, timeIndex>>

\* Fault: Promise.any in place of Promise.all.
AnyAnswered(s) == \E t \in Txs : call[s][t].phase = "answered"

\* Promise.all fulfils when every call of the group is answered.
AllAnswered(s) == \A t \in Txs : call[s][t].phase = "answered"

\* The batch is committed and the sync goes on.
Commit(s) ==
    /\ syncing = s
    /\ AllAnswered(s)
    /\ saved' = batch[s]
    /\ timeIndex' = timeIndex \cup {batch[s][t] : t \in Txs}
    /\ syncing' = NoSync
    /\ UNCHANGED <<mined, moved, call, batch>>

\* Fault: one entry of the time index is deleted for the block.
RollBackOneTime ==
    /\ syncing = NoSync /\ mined # "block" /\ \E t \in Txs : saved[t] # Unsaved
    /\ saved' = [t \in Txs |-> Unsaved]
    /\ \E t \in Txs : timeIndex' = timeIndex \ {saved[t]}
    /\ UNCHANGED <<mined, moved, syncing, call, batch>>

\* A later sync finds the block off the branch: each transaction's entry is
\* deleted under the time in its record.
RollBack ==
    /\ syncing = NoSync /\ mined # "block" /\ \E t \in Txs : saved[t] # Unsaved
    /\ saved' = [t \in Txs |-> Unsaved]
    /\ timeIndex' = timeIndex \ {saved[t] : t \in Txs}
    /\ UNCHANGED <<mined, moved, syncing, call, batch>>

\* The process ends and starts again: requests and batches are gone.
Restart ==
    /\ syncing' = NoSync
    /\ call' = [s \in Syncs |-> [t \in Txs |-> NoCall]]
    /\ batch' = [s \in Syncs |-> [t \in Txs |-> Unsaved]]
    /\ UNCHANGED <<mined, moved, saved, timeIndex>>

-----------------------------------------------------------------------------
Fails(s, t) == Refused(s, t) \/ GivesUp(s, t) \/ BacksOff(s, t)

Next ==
    \/ BranchChanges
    \/ \E s \in Syncs : StartSync(s) \/ Commit(s)
    \/ \E s \in Syncs, t \in Txs :
          \/ Replies(s, t) \/ Index(s, t)
          \/ Refused(s, t) \/ GivesUp(s, t) \/ BacksOff(s, t) \/ Retries(s, t)
    \/ RollBack
    \/ Restart

Spec == Init /\ [][Next]_vars

\* The cron job keeps ticking, timers expire, a batch that is ready is committed,
\* and a request is answered or fails in the end.  axios is given no timeout, so
\* that the last is the server's and the network's to keep.
Fairness ==
    /\ WF_vars(\E s \in Syncs : StartSync(s))
    /\ \A s \in Syncs :
          /\ WF_vars(Commit(s))
          /\ \A t \in Txs :
                /\ WF_vars(Retries(s, t))
                /\ WF_vars(Replies(s, t) \/ Fails(s, t))
                /\ WF_vars(Index(s, t))

FairSpec == Spec /\ Fairness

-----------------------------------------------------------------------------
(* Properties *)

\* Every variable holds values of its type, and no call makes more requests than
\* retryConfig.count.
CallsInBounds ==
    /\ mined \in Places
    /\ moved \in BOOLEAN
    /\ syncing \in Syncs \cup {NoSync}
    /\ call \in [Syncs -> [Txs -> [phase : CallPhases, count : 0..RetryCount,
                              time : Places \cup {Unsaved}]]]
    /\ batch \in [Syncs -> [Txs -> Places \cup {Unsaved}]]
    /\ saved \in [Txs -> Places \cup {Unsaved}]
    /\ timeIndex \subseteq Places

\* A group is committed with every transaction or not at all, whichever of its
\* requests fail, are retried, or are answered after their sync has ended.
WholeGroups ==
    (\E t \in Txs : saved[t] # Unsaved) => \A t \in Txs : saved[t] # Unsaved

\* While the server stays on the branch, the saved transactions have the time of
\* their block, also if an answer to an earlier sync had another.
TimesOfBlock ==
    ~moved => \A t \in Txs : saved[t] \in {"block", Unsaved}

\* The time index has the times in the records and no others: a block whose
\* transactions were fetched across a branch change, and so have different
\* times, leaves nothing behind when it is rolled back.
TimeIndexOfRecords ==
    timeIndex = {saved[t] : t \in Txs} \ {Unsaved}

\* Every sync ends, and the flag is cleared for the next.
SyncEnds == (syncing # NoSync) ~> (syncing = NoSync)

\* Once the server fails no more and has the block on its branch, the group is
\* saved: no straggler of an earlier sync keeps the next from completing.
Recovers ==
    (/\ <>[][~\E s \in Syncs, t \in Txs : Fails(s, t)]_vars
     /\ <>[][~Restart]_vars
     /\ <>[](mined = "block")) => <>[](\A t \in Txs : saved[t] # Unsaved)

=============================================================================
