----------------------- MODULE TransactionGroup_proofs -----------------------
(***************************************************************************)
(* A group of transactions is committed whole, under the time of its block *)
(* unless the server's branch changed, and the time index agrees with the  *)
(* records: for every group, number of syncs and retryConfig.count.        *)
(***************************************************************************)
EXTENDS TransactionGroup, TLAPS

Calls == [phase : CallPhases, count : 0..RetryCount, time : Places \cup {Unsaved}]

\* An answer on its way, or in a batch, is there; if the server has stayed on the
\* branch it has the block's time in the sync in flight.  A call waits for its
\* timer only if it may make another request.
AnswersSound ==
    /\ syncing # NoSync /\ ~moved => mined = "block"
    /\ \A s \in Syncs, t \in Txs :
          /\ call[s][t].phase = "backoff" => call[s][t].count < RetryCount
          /\ call[s][t].phase = "replied" => call[s][t].time \in Places
          /\ call[s][t].phase = "answered" => batch[s][t] \in Places
          /\ syncing = s /\ ~moved =>
                /\ call[s][t].phase = "replied" => call[s][t].time = "block"
                /\ call[s][t].phase = "answered" => batch[s][t] = "block"

\* A sync in flight has not saved the group before.
NothingSaved == syncing # NoSync => \A t \in Txs : saved[t] = Unsaved

\* The inductive invariant: besides the properties, it says what calls and
\* batches hold on their way to the store.
GroupInv ==
    /\ CallsInBounds
    /\ AnswersSound
    /\ NothingSaved
    /\ WholeGroups
    /\ TimesOfBlock
    /\ TimeIndexOfRecords

-----------------------------------------------------------------------------
\* What an update of one call, or of one entry of a batch, leaves.
LEMMA OneEntry ==
    ASSUME NEW V, NEW f \in [Syncs -> [Txs -> V]], NEW s \in Syncs, NEW t \in Txs, NEW c \in V
    PROVE  LET g == [f EXCEPT ![s][t] = c] IN
           /\ g \in [Syncs -> [Txs -> V]]
           /\ \A u \in Syncs, v \in Txs :
                 g[u][v] = IF u = s /\ v = t THEN c ELSE f[u][v]
  OBVIOUS

\* The types of the records calls are.
LEMMA CallTypes ==
    /\ \A phase \in CallPhases, count \in 0..RetryCount : Call(phase, count) \in Calls
    /\ \A m \in Places : [Call("replied", 0) EXCEPT !.time = m] \in Calls
    /\ NoCall \in Calls
    /\ {"sent", "backoff", "failed", "answered"} \subseteq CallPhases
    /\ 0 \in 0..RetryCount /\ 1 \in 0..RetryCount
  BY GroupAssumption DEF Calls, Call, CallPhases, Places, Unsaved, NoCall

\* The fields of the records calls are.
LEMMA CallFields ==
    /\ \A phase, count : Call(phase, count).phase = phase /\ Call(phase, count).count = count
    /\ \A m : LET c == [Call("replied", 0) EXCEPT !.time = m] IN
              c.phase = "replied" /\ c.time = m
  BY DEF Call

\* The invariant holds at the start.
LEMMA GroupInit == Init => GroupInv
  <1> SUFFICES ASSUME Init
               PROVE  GroupInv
    OBVIOUS
  <1>1. CallsInBounds
    BY CallTypes DEF Init, CallsInBounds, Calls, Places
  <1>2. AnswersSound
    BY GroupAssumption, CallFields DEF Init, AnswersSound, NoCall
  <1>3. NothingSaved /\ WholeGroups /\ TimesOfBlock /\ TimeIndexOfRecords
    BY DEF Init, NothingSaved, WholeGroups, TimesOfBlock, TimeIndexOfRecords
  <1> QED
    BY <1>1, <1>2, <1>3 DEF GroupInv

\* What a step must do for the facts about the store to stay: leave it alone, start
\* no sync, and not forget that the branch changed.
LEMMA StoreUntouched ==
    ASSUME GroupInv, UNCHANGED <<saved, timeIndex>>, ~moved' => ~moved,
           syncing' = syncing \/ syncing' = NoSync
    PROVE  (NothingSaved /\ WholeGroups /\ TimesOfBlock /\ TimeIndexOfRecords)'
  BY DEF GroupInv, NothingSaved, WholeGroups, TimesOfBlock, TimeIndexOfRecords

-----------------------------------------------------------------------------
\* One lemma for each action, or group of actions that do alike.
LEMMA BranchChangesInv ==
    ASSUME GroupInv, BranchChanges
    PROVE  GroupInv'
  <1>1. CallsInBounds'
    BY DEF GroupInv, CallsInBounds, BranchChanges
  <1>2. AnswersSound'
    BY DEF GroupInv, AnswersSound, BranchChanges
  <1>3. (NothingSaved /\ WholeGroups /\ TimesOfBlock /\ TimeIndexOfRecords)'
    BY StoreUntouched DEF BranchChanges
  <1> QED
    BY <1>1, <1>2, <1>3 DEF GroupInv

\* A sync begins with no answer.
LEMMA StartSyncInv ==
    ASSUME GroupInv, NEW s \in Syncs, StartSync(s)
    PROVE  GroupInv'
  <1>0. call \in [Syncs -> [Txs -> Calls]] /\ batch \in [Syncs -> [Txs -> Places \cup {Unsaved}]]
    BY DEF GroupInv, CallsInBounds, Calls
  <1>1. /\ call' \in [Syncs -> [Txs -> Calls]]
        /\ \A u \in Syncs, t \in Txs :
              call'[u][t] = IF u = s THEN Call("sent", 1) ELSE call[u][t]
    BY <1>0, CallTypes DEF StartSync
  <1>2. /\ batch' \in [Syncs -> [Txs -> Places \cup {Unsaved}]]
        /\ \A u \in Syncs, t \in Txs : u # s => batch'[u][t] = batch[u][t]
    BY <1>0 DEF StartSync
  <1>3. CallsInBounds'
    BY <1>1, <1>2 DEF GroupInv, CallsInBounds, StartSync, Calls
  <1>4. AnswersSound'
    BY <1>1, <1>2, CallFields, GroupAssumption DEF GroupInv, AnswersSound, StartSync
  <1>5. NothingSaved' /\ WholeGroups' /\ TimeIndexOfRecords'
    BY DEF GroupInv, NothingSaved, WholeGroups, TimeIndexOfRecords, StartSync
  <1>6. TimesOfBlock'
    BY DEF TimesOfBlock, StartSync
  <1> QED
    BY <1>3, <1>4, <1>5, <1>6 DEF GroupInv

\* An answer sent has the time of where the transaction is.
LEMMA RepliesInv ==
    ASSUME GroupInv, NEW s \in Syncs, NEW t \in Txs, Replies(s, t)
    PROVE  GroupInv'
  <1>0. call \in [Syncs -> [Txs -> Calls]] /\ mined \in Places
    BY DEF GroupInv, CallsInBounds, Calls
  <1> DEFINE c == [Call("replied", 0) EXCEPT !.time = mined]
  <1>1. c \in Calls /\ c.phase = "replied" /\ c.time = mined
    BY <1>0, CallTypes, CallFields
  <1>2. call' = [call EXCEPT ![s][t] = c]
    BY DEF Replies
  <1> HIDE DEF c
  <1>3. /\ call' \in [Syncs -> [Txs -> Calls]]
        /\ \A u \in Syncs, v \in Txs :
              call'[u][v] = IF u = s /\ v = t THEN c ELSE call[u][v]
    BY <1>0, <1>1, <1>2
  <1>4. CallsInBounds'
    BY <1>3 DEF GroupInv, CallsInBounds, Replies, Calls
  <1>5. AnswersSound'
    <2>1. /\ \A u \in Syncs, v \in Txs : ~(u = s /\ v = t) => call'[u][v] = call[u][v]
          /\ call'[s][t] = c /\ c.phase = "replied" /\ c.time = mined /\ mined \in Places
      BY <1>0, <1>1, <1>3
    <2>2. syncing = s /\ ~moved => mined = "block"
      BY GroupAssumption DEF GroupInv, AnswersSound
    <2>3. UNCHANGED <<mined, moved, syncing, batch>>
      BY DEF Replies
    <2> QED
      BY <2>1, <2>2, <2>3 DEF GroupInv, AnswersSound
  <1>6. (NothingSaved /\ WholeGroups /\ TimesOfBlock /\ TimeIndexOfRecords)'
    BY StoreUntouched DEF Replies
  <1> QED
    BY <1>4, <1>5, <1>6 DEF GroupInv

\* The time of an answer goes to the batch of its sync.
LEMMA IndexInv ==
    ASSUME GroupInv, NEW s \in Syncs, NEW t \in Txs, Index(s, t)
    PROVE  GroupInv'
  <1>0. call \in [Syncs -> [Txs -> Calls]] /\ batch \in [Syncs -> [Txs -> Places \cup {Unsaved}]]
    BY DEF GroupInv, CallsInBounds, Calls
  <1>1. call[s][t] \in Calls /\ call[s][t].time \in Places \cup {Unsaved}
    BY <1>0 DEF Calls
  <1>2. /\ call' \in [Syncs -> [Txs -> Calls]]
        /\ \A u \in Syncs, v \in Txs :
              call'[u][v] = IF u = s /\ v = t THEN Call("answered", 0) ELSE call[u][v]
    <2>1. Call("answered", 0) \in Calls
      BY CallTypes
    <2> QED
      BY <1>0, <2>1 DEF Index
  <1>3. /\ batch' \in [Syncs -> [Txs -> Places \cup {Unsaved}]]
        /\ \A u \in Syncs, v \in Txs :
              batch'[u][v] = IF u = s /\ v = t THEN call[s][t].time ELSE batch[u][v]
    BY <1>0, <1>1 DEF Index
  <1>4. CallsInBounds'
    BY <1>2, <1>3 DEF GroupInv, CallsInBounds, Index, Calls
  <1>5. AnswersSound'
    BY <1>2, <1>3, CallFields, GroupAssumption DEF GroupInv, AnswersSound, Index
  <1>6. (NothingSaved /\ WholeGroups /\ TimesOfBlock /\ TimeIndexOfRecords)'
    BY StoreUntouched DEF Index
  <1> QED
    BY <1>4, <1>5, <1>6 DEF GroupInv

\* A call that has failed, waits or is made again has no answer.
LEMMA CallInv ==
    ASSUME GroupInv, NEW s \in Syncs, NEW t \in Txs,
           \E c \in Calls :
              /\ call' = [call EXCEPT ![s][t] = c]
              /\ c.phase \in {"sent", "backoff", "failed"}
              /\ c.phase = "backoff" => c.count < RetryCount,
           syncing' = syncing \/ syncing' = NoSync,
           UNCHANGED <<mined, moved, batch, saved, timeIndex>>
    PROVE  GroupInv'
  <1>0. call \in [Syncs -> [Txs -> Calls]]
    BY DEF GroupInv, CallsInBounds, Calls
  <1>1. PICK c \in Calls :
              /\ call' = [call EXCEPT ![s][t] = c]
              /\ c.phase \in {"sent", "backoff", "failed"}
              /\ c.phase = "backoff" => c.count < RetryCount
    OBVIOUS
  <1>2. /\ call' \in [Syncs -> [Txs -> Calls]]
        /\ \A u \in Syncs, v \in Txs :
              call'[u][v] = IF u = s /\ v = t THEN c ELSE call[u][v]
    BY <1>0, <1>1
  <1>3. CallsInBounds'
    BY <1>2 DEF GroupInv, CallsInBounds, Calls
  <1>4. AnswersSound'
    BY <1>1, <1>2, GroupAssumption DEF GroupInv, AnswersSound
  <1>5. (NothingSaved /\ WholeGroups /\ TimesOfBlock /\ TimeIndexOfRecords)'
    BY StoreUntouched
  <1> QED
    BY <1>3, <1>4, <1>5 DEF GroupInv

\* The steps of makeRequest's loop.
LEMMA CallStepInv ==
    ASSUME GroupInv, NEW s \in Syncs, NEW t \in Txs,
           Refused(s, t) \/ GivesUp(s, t) \/ BacksOff(s, t) \/ Retries(s, t)
    PROVE  GroupInv'
  <1>1. /\ call[s][t].count \in 0..RetryCount
        /\ call[s][t].phase = "backoff" => call[s][t].count < RetryCount
        /\ RetryCount \in Nat
    BY GroupAssumption DEF GroupInv, CallsInBounds, AnswersSound
  <1>2. CASE Throws(s, t)
    <2>1. Call("failed", 0) \in Calls
      BY CallTypes
    <2>2. call' = [call EXCEPT ![s][t] = Call("failed", 0)]
      BY <1>2 DEF Throws
    <2>3. /\ syncing' = syncing \/ syncing' = NoSync
          /\ UNCHANGED <<mined, moved, batch, saved, timeIndex>>
      BY <1>2 DEF Throws
    <2>4. Call("failed", 0).phase = "failed"
      BY CallFields
    <2>5. \E c \in Calls :
              /\ call' = [call EXCEPT ![s][t] = c]
              /\ c.phase \in {"sent", "backoff", "failed"}
              /\ c.phase = "backoff" => c.count < RetryCount
      BY <2>1, <2>2, <2>4
    <2> QED
      BY <2>3, <2>5, CallInv
  <1>3. CASE BacksOff(s, t)
    <2>1. Call("backoff", call[s][t].count) \in Calls
      BY <1>1, CallTypes
    <2>2. call' = [call EXCEPT ![s][t] = Call("backoff", call[s][t].count)]
      BY <1>3 DEF BacksOff
    <2>3. call[s][t].count < RetryCount
      BY <1>3 DEF BacksOff
    <2>4. UNCHANGED <<syncing, mined, moved, batch, saved, timeIndex>>
      BY <1>3 DEF BacksOff
    <2>5. Call("backoff", call[s][t].count).phase = "backoff"
      BY CallFields
    <2>6. Call("backoff", call[s][t].count).count < RetryCount
      BY <2>3, CallFields
    <2>7. \E c \in Calls :
              /\ call' = [call EXCEPT ![s][t] = c]
              /\ c.phase \in {"sent", "backoff", "failed"}
              /\ c.phase = "backoff" => c.count < RetryCount
      BY <2>1, <2>2, <2>5, <2>6
    <2> QED
      BY <2>4, <2>7, CallInv
  <1>4. CASE Retries(s, t)
    <2>1. call[s][t].count + 1 \in 0..RetryCount
      BY <1>1, <1>4 DEF Retries
    <2>2. Call("sent", call[s][t].count + 1) \in Calls
      BY <2>1, CallTypes
    <2>3. call' = [call EXCEPT ![s][t] = Call("sent", call[s][t].count + 1)]
      BY <1>4 DEF Retries
    <2>4. UNCHANGED <<syncing, mined, moved, batch, saved, timeIndex>>
      BY <1>4 DEF Retries
    <2>5. Call("sent", call[s][t].count + 1).phase = "sent"
      BY CallFields
    <2>6. \E c \in Calls :
              /\ call' = [call EXCEPT ![s][t] = c]
              /\ c.phase \in {"sent", "backoff", "failed"}
              /\ c.phase = "backoff" => c.count < RetryCount
      BY <2>2, <2>3, <2>5
    <2> QED
      BY <2>4, <2>6, CallInv
  <1> QED
    BY <1>2, <1>3, <1>4 DEF Refused, GivesUp

\* A commit writes a batch that has an answer for every transaction, over an empty
\* record for each: the whole group, under the times it has.
LEMMA CommitInv ==
    ASSUME GroupInv, NEW s \in Syncs, Commit(s)
    PROVE  GroupInv'
  <1>0. /\ syncing = s /\ syncing' = NoSync /\ s # NoSync
        /\ saved' = batch[s]
        /\ \A t \in Txs : saved[t] = Unsaved
        /\ \A t \in Txs : batch[s][t] \in Places
        /\ ~moved => \A t \in Txs : batch[s][t] = "block"
        /\ Unsaved \notin Places
    BY GroupAssumption DEF GroupInv, AnswersSound, NothingSaved, Commit, AllAnswered, Places, Unsaved
  <1>1. timeIndex = {}
    BY <1>0 DEF GroupInv, TimeIndexOfRecords
  <1>2. timeIndex' = {saved'[t] : t \in Txs}
    BY <1>0, <1>1 DEF Commit
  <1>3. CallsInBounds'
    BY <1>0, <1>2 DEF GroupInv, CallsInBounds, Commit
  <1>4. AnswersSound'
    BY <1>0, GroupAssumption DEF GroupInv, AnswersSound, Commit
  <1>5. NothingSaved' /\ WholeGroups' /\ TimesOfBlock'
    BY <1>0 DEF NothingSaved, WholeGroups, TimesOfBlock, Commit
  <1>6. TimeIndexOfRecords'
    BY <1>0, <1>2 DEF TimeIndexOfRecords
  <1> QED
    BY <1>3, <1>4, <1>5, <1>6 DEF GroupInv

\* A rollback deletes the entries of the times the records have, which are all.
LEMMA RollBackInv ==
    ASSUME GroupInv, RollBack
    PROVE  GroupInv'
  <1>1. timeIndex' = {} /\ \A t \in Txs : saved'[t] = Unsaved
    BY DEF GroupInv, TimeIndexOfRecords, RollBack
  <1>2. CallsInBounds'
    BY <1>1 DEF GroupInv, CallsInBounds, RollBack
  <1>3. AnswersSound'
    BY DEF GroupInv, AnswersSound, RollBack
  <1>4. (NothingSaved /\ WholeGroups /\ TimesOfBlock /\ TimeIndexOfRecords)'
    BY <1>1 DEF NothingSaved, WholeGroups, TimesOfBlock, TimeIndexOfRecords
  <1> QED
    BY <1>2, <1>3, <1>4 DEF GroupInv

\* A restart leaves only the store.
LEMMA RestartInv ==
    ASSUME GroupInv, Restart
    PROVE  GroupInv'
  <1>1. CallsInBounds'
    <2>1. call' \in [Syncs -> [Txs -> Calls]]
      BY CallTypes DEF Restart
    <2>2. batch' \in [Syncs -> [Txs -> Places \cup {Unsaved}]]
      BY DEF Restart
    <2> QED
      BY <2>1, <2>2 DEF GroupInv, CallsInBounds, Restart, Calls
  <1>2. AnswersSound'
    BY CallFields, GroupAssumption DEF AnswersSound, Restart, NoCall
  <1>3. (NothingSaved /\ WholeGroups /\ TimesOfBlock /\ TimeIndexOfRecords)'
    BY StoreUntouched DEF Restart
  <1> QED
    BY <1>1, <1>2, <1>3 DEF GroupInv

\* Every step keeps the invariant.
LEMMA GroupNext ==
    ASSUME GroupInv, [Next]_vars
    PROVE  GroupInv'
  <1>1. CASE UNCHANGED vars
    BY <1>1 DEF vars, GroupInv, CallsInBounds, AnswersSound, NothingSaved, WholeGroups, TimesOfBlock,
       TimeIndexOfRecords
  <1>2. CASE Next
    BY <1>2, BranchChangesInv, StartSyncInv, CommitInv, RepliesInv, IndexInv, CallStepInv,
       RollBackInv, RestartInv DEF Next
  <1> QED
    BY <1>1, <1>2

\* The invariant holds throughout.
LEMMA GroupInvariance == Spec => []GroupInv
  BY GroupInit, GroupNext, PTL DEF Spec

-----------------------------------------------------------------------------
\* No call makes more than retryConfig.count requests, whatever fails.
THEOREM Types == Spec => []CallsInBounds
  <1>1. GroupInv => CallsInBounds
    BY DEF GroupInv
  <1> QED
    BY <1>1, GroupInvariance, PTL

\* A group of any size is committed whole or not at all.
THEOREM GroupAtomicity == Spec => []WholeGroups
  <1>1. GroupInv => WholeGroups
    BY DEF GroupInv
  <1> QED
    BY <1>1, GroupInvariance, PTL

\* Stragglers of any number of earlier syncs leave no time of theirs in the store.
THEOREM StragglersHarmless == Spec => []TimesOfBlock
  <1>1. GroupInv => TimesOfBlock
    BY DEF GroupInv
  <1> QED
    BY <1>1, GroupInvariance, PTL

\* The time index is that of the records, also when a group was fetched across a
\* branch change and was rolled back since.
THEOREM TimeIndexAgreement == Spec => []TimeIndexOfRecords
  <1>1. GroupInv => TimeIndexOfRecords
    BY DEF GroupInv
  <1> QED
    BY <1>1, GroupInvariance, PTL

=============================================================================
