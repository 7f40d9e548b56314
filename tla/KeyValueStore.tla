---------------------------- MODULE KeyValueStore ----------------------------
(***************************************************************************)
(* The LMDB environment as a map from keys to values, the batches that     *)
(* change it and the range scans that read it (storage.service.ts,         *)
(* batch-writer.ts).  The operations of a batch are queued call by call;   *)
(* commit() applies them in one LMDB transaction, an error or the end of   *)
(* the process drops them.  Decoded reads the map as the store of Storage. *)
(***************************************************************************)
EXTENDS KeyEncoding, Storage, SequencesExt

ASSUME NoStateIsNone == NoState \notin [indexedBlockHeight : Heights]

VARIABLES
    kv,     \* the committed pairs
    batch,  \* the ops queued: for each key the last of them
    job     \* what the caller of the batch has done of its block

vars == <<kv, batch, job>>

\* block: the block indexed; left: its transactions not yet passed to index();
\* outpoints: what the inputs of the others spend; pending: the outputs saved;
\* stage: "index", then "states", then "commit".
NoJob == [block |-> NoBlock, left |-> << >>, outpoints |-> {}, pending |-> {}, stage |-> "none"]

\* The same op on each of the keys.
put(keys, value) == [k \in keys |-> [type |-> "put", value |-> value]]
del(keys)        == [k \in keys |-> [type |-> "del"]]

Empty == << >>

NoOps == [k \in {} |-> Empty]

\* more queued behind ops: of two ops on a key the later decides.
Then(ops, more) ==
    [k \in DOMAIN ops \cup DOMAIN more |-> IF k \in DOMAIN more THEN more[k] ELSE ops[k]]

\* What the ops leave of the pairs.
Apply(pairs, ops) ==
    LET stored == {k \in DOMAIN ops : ops[k].type = "put"}
    IN  [k \in (DOMAIN pairs \ DOMAIN ops) \cup stored |->
            IF k \in stored THEN ops[k].value ELSE pairs[k]]

-----------------------------------------------------------------------------
(* Reads of the committed pairs *)

Has(key) == key \in DOMAIN kv

KeysIn(range) == {k \in DOMAIN kv : InRange(range, k)}

\* The first key of a scan with limit 1.
FirstIn(range) == CHOOSE k \in KeysIn(range) : \A l \in KeysIn(range) : l = k \/ Before(k, l)

\* Fault: the scan runs forward.
LastInForward(range) == FirstIn(range)

LastIn(range) ==
    LET keys == {k \in DOMAIN kv : InReverseRange(range, k)}
    IN  CHOOSE k \in keys : \A l \in keys : l = k \/ Before(l, k)

getOutputsForTxid(txid, filterSpent) ==
    IF filterSpent
    THEN LET vouts == {decodeUnspentIndexKey(k).vout : k \in KeysIn(unspentPrefixRange(txid))}
         IN  {v \in vouts : Has(encodeOutputKey(txid, v))}
    ELSE {decodeOutputKey(k).vout : k \in KeysIn(outputPrefixRange(txid))}

\* fetchTransactions: those with a record and with outputs to show.
fetchTransactions(txids, filterSpent) ==
    {[id |-> txid, outputs |-> getOutputsForTxid(txid, filterSpent)] :
        txid \in {x \in txids : /\ Has(encodeTxKey(x))
                                /\ getOutputsForTxid(x, filterSpent) # {}}}

getTransactionsByBlockHeight(height, filterSpent) ==
    fetchTransactions({decodeHeightIndexKey(k).txid : k \in KeysIn(singleHeightRange(height))},
                      filterSpent)

getTransactionsByBlockHeightRange(start, end, filterSpent) ==
    fetchTransactions({decodeHeightIndexKey(k).txid : k \in KeysIn(heightSpanRange(start, end))},
                      filterSpent)

getTransactionsByBlockHash(hash, filterSpent) ==
    fetchTransactions({decodeHashIndexKey(k).txid : k \in KeysIn(hashIndexRange(hash))},
                      filterSpent)

NoHeight == -1

getBlockHeightByTimestamp(timestamp) ==
    LET range == timeIndexSeek(timestamp)
    IN  IF KeysIn(range) = {} THEN NoHeight ELSE decodeTimeIndexKey(FirstIn(range)).blockHeight

\* The hash under the greatest key, an empty sequence for null.
getCurrentBlockState ==
    IF \E k \in DOMAIN kv : InReverseRange(blockStateRange, k)
    THEN LET k == LastIn(blockStateRange) IN [blockHeight |-> decodeBlockStateKey(k), blockHash |-> kv[k]]
    ELSE [blockHeight |-> NoHeight, blockHash |-> << >>]

-----------------------------------------------------------------------------
(* Writes to a batch *)

SavedTx(b) == [blockHeight |-> Height[b], blockHash |-> Hash[b], blockTime |-> Time[b]]

saveTransaction(t, b) ==
    LET outputs == {encodeOutputKey(Txid[t], v) : v \in Outputs[t]}
        unspent == {encodeUnspentIndexKey(Txid[t], v) : v \in Outputs[t]}
        index   == {encodeHeightIndexKey(Height[b], Txid[t]), encodeHashIndexKey(Hash[b], Txid[t]),
                    encodeTimeIndexKey(Time[b], Height[b])}
    IN  Then(put({encodeTxKey(Txid[t])}, SavedTx(b)),
             Then(put(outputs, [isSpent |-> FALSE]), put(unspent \cup index, Empty)))

\* The outputs saved in the batch itself first, then those the store holds; what
\* is not in the index, or spent already, is left alone.
markOutputsSpent(outpoints, pending) ==
    LET output(o) == encodeOutputKey(Txid[o[1]], o[2])
        found     == {o \in outpoints : \/ o \in pending
                                        \/ Has(output(o)) /\ ~kv[output(o)].isSpent}
    IN  Then(put({output(o) : o \in found}, [isSpent |-> TRUE]),
             del({encodeUnspentIndexKey(Txid[o[1]], o[2]) : o \in found}))

\* Fault: the state is kept under the next block's height.
SaveBlockStateAbove(b) == put({encodeBlockStateKey(Height[b] + 1)}, Hash[b])

saveBlockState(b) == put({encodeBlockStateKey(Height[b])}, Hash[b])

saveOperationState(state) == put({encodeOpStateKey}, state)

deleteBlockState(height) == del({encodeBlockStateKey(height)})

\* The keys of the indexes are rebuilt from the transaction's record.
deleteTransactionsByBlockHash(hash) ==
    LET txids   == {decodeHashIndexKey(k).txid : k \in KeysIn(hashIndexRange(hash))}
        each(x) == LET tx == kv[encodeTxKey(x)]
                   IN  KeysIn(outputPrefixRange(x)) \cup KeysIn(unspentPrefixRange(x))
                       \cup {encodeTxKey(x), encodeHeightIndexKey(tx.blockHeight, x),
                             encodeHashIndexKey(hash, x),
                             encodeTimeIndexKey(tx.blockTime, tx.blockHeight)}
    IN  del(UNION {each(x) : x \in {txid \in txids : Has(encodeTxKey(txid))}})

\* BaseBlockDataProvider.setState: the operation state names the block's height.
setState(b) ==
    Then(saveOperationState([indexedBlockHeight |-> Height[b]]), saveBlockState(b))

\* BlockStateService.removeState on the current block state, which the reorg
\* trace hands it.
removeState ==
    Then(deleteBlockState(getCurrentBlockState.blockHeight),
         deleteTransactionsByBlockHash(getCurrentBlockState.blockHash))

-----------------------------------------------------------------------------
(* The callers *)

Init ==
    /\ kv = [k \in {} |-> Empty]
    /\ batch = NoOps
    /\ job = NoJob

\* The block the current block state names.
Current == CHOOSE b \in Blocks : Hash[b] = getCurrentBlockState.blockHash

\* The base block at the first start, a child of the current one from then on.
Follows(b) ==
    IF Has(encodeOpStateKey)
    THEN Current \in Lineage[b] /\ Height[b] = Height[Current] + 1
    ELSE b = BaseBlock

\* A provider opens a batch for the next block.
CreateBatch(b) ==
    /\ job = NoJob
    /\ Follows(b)
    /\ job' = [NoJob EXCEPT !.block = b, !.stage = "index",
                            !.left = IF Has(encodeOpStateKey) THEN BlockTxs[b] ELSE << >>]
    /\ UNCHANGED <<kv, batch>>

IndexTransaction ==
    /\ job.stage = "index" /\ job.left # << >>
    /\ LET t == Head(job.left)
       IN  /\ batch' = IF Outputs[t] = {} THEN batch
                       ELSE Then(batch, saveTransaction(t, job.block))
           /\ job' = [job EXCEPT !.left = Tail(@),
                                 !.outpoints = @ \cup Spends[t],
                                 !.pending = @ \cup ({t} \X Outputs[t])]
    /\ UNCHANGED kv

MarkSpent ==
    /\ job.stage = "index" /\ job.left = << >>
    /\ batch' = Then(batch, markOutputsSpent(job.outpoints, job.pending))
    /\ job' = [job EXCEPT !.stage = "states"]
    /\ UNCHANGED kv

SaveStates ==
    /\ job.stage = "states"
    /\ batch' = Then(batch, setState(job.block))
    /\ job' = [job EXCEPT !.stage = "commit"]
    /\ UNCHANGED kv

RemoveCurrentState ==
    /\ job = NoJob
    /\ Has(encodeOpStateKey) /\ Current # BaseBlock
    /\ batch' = removeState
    /\ job' = [NoJob EXCEPT !.block = Current, !.stage = "commit"]
    /\ UNCHANGED kv

commit ==
    /\ job.stage = "commit"
    /\ kv' = Apply(kv, batch)
    /\ batch' = NoOps
    /\ job' = NoJob

\* Fault: the queued ops stay for the next batch.
DiscardKeepsOps ==
    /\ job # NoJob
    /\ job' = NoJob
    /\ UNCHANGED <<kv, batch>>

\* An error in the callback, or the end of the process.
Discard ==
    /\ job # NoJob
    /\ batch' = NoOps
    /\ job' = NoJob
    /\ UNCHANGED kv

Next ==
    \/ \E b \in Blocks : CreateBatch(b)
    \/ IndexTransaction
    \/ MarkSpent
    \/ SaveStates
    \/ RemoveCurrentState
    \/ commit
    \/ Discard

Spec == Init /\ [][Next]_vars

-----------------------------------------------------------------------------
(* What the pairs stand for *)

BlockOf(hash) == CHOOSE b \in Blocks : Hash[b] = hash
TxidOf(bytes) == CHOOSE t \in Txids : Txid[t] = bytes

KeysUnder(prefix) == {k \in DOMAIN kv : k[1] = prefix}

Decoded ==
    [ tx          |-> [t \in Txids |-> IF Has(encodeTxKey(Txid[t]))
                                       THEN BlockOf(kv[encodeTxKey(Txid[t])].blockHash) ELSE NoBlock],
      time        |-> [t \in Txids |-> IF Has(encodeTxKey(Txid[t]))
                                       THEN kv[encodeTxKey(Txid[t])].blockTime ELSE 0],
      output      |-> [o \in Outpoints |->
                          LET key == encodeOutputKey(Txid[o[1]], o[2])
                          IN  IF ~Has(key) THEN "absent" ELSE IF kv[key].isSpent THEN "spent" ELSE "unspent"],
      unspent     |-> {<<TxidOf(decodeUnspentIndexKey(k).txid), decodeUnspentIndexKey(k).vout>> :
                          k \in KeysUnder(UNSPENT_IDX)},
      heightIndex |-> {<<decodeHeightIndexKey(k).height, TxidOf(decodeHeightIndexKey(k).txid)>> :
                          k \in KeysUnder(HEIGHT_IDX)},
      hashIndex   |-> {<<BlockOf(decodeHashIndexKey(k).blockHash), TxidOf(decodeHashIndexKey(k).txid)>> :
                          k \in KeysUnder(HASH_IDX)},
      timeIndex   |-> {<<decodeTimeIndexKey(k).blockTime, decodeTimeIndexKey(k).blockHeight>> :
                          k \in KeysUnder(TIME_IDX)},
      blockState  |-> [h \in Heights |-> IF Has(encodeBlockStateKey(h))
                                         THEN BlockOf(kv[encodeBlockStateKey(h)]) ELSE NoBlock],
      opState     |-> IF Has(encodeOpStateKey) THEN kv[encodeOpStateKey] ELSE NoState ]

Store == INSTANCE BlockStore WITH db <- Decoded

-----------------------------------------------------------------------------
(* Properties *)

\* A key an encoder writes, and a value that goes with it.
IsPair(k, value) ==
    \/ \E t \in Txids, b \in Blocks : k = encodeTxKey(Txid[t]) /\ value = SavedTx(b)
    \/ \E o \in Outpoints : k = encodeOutputKey(Txid[o[1]], o[2]) /\ value \in [isSpent : BOOLEAN]
    \/ \E o \in Outpoints : k = encodeUnspentIndexKey(Txid[o[1]], o[2])
    \/ \E t \in Txids, b \in Blocks : k = encodeHeightIndexKey(Height[b], Txid[t])
    \/ \E t \in Txids, b \in Blocks : k = encodeHashIndexKey(Hash[b], Txid[t])
    \/ \E b \in Blocks : k = encodeTimeIndexKey(Time[b], Height[b])
    \/ \E b \in Blocks : k = encodeBlockStateKey(Height[b]) /\ value = Hash[b]
    \/ k = encodeOpStateKey /\ value \in [indexedBlockHeight : Heights]

\* Every pair, stored or queued, has a key some encoder writes and the value that
\* goes with it.
TypeOK ==
    /\ \A k \in DOMAIN kv : IsPair(k, kv[k])
    /\ \A k \in DOMAIN batch : batch[k].type = "put" => IsPair(k, batch[k].value)
    /\ job.stage \in {"none", "index", "states", "commit"}
    /\ job.block \in IF job.stage = "none" THEN {NoBlock} ELSE Blocks
    /\ job.left \in Seq(Txids)
    /\ job.outpoints \subseteq Txids \X Nat
    /\ job.pending \subseteq Outpoints

\* The pairs implement BlockStore: a batch that is committed has the effect of
\* the whole operation, its later ops on a key over its earlier ones, and one
\* that is not has none, whatever was queued before.
PairsImplementBlockStore == Store!StoreSpec

\* The transactions of Storage, as the scans answer them.
Answer(txs) == {[id |-> Txid[r.id], outputs |-> {o[2] : o \in r.outputs}] : r \in txs}

\* A scan of a span of heights finds the transactions of these heights and no
\* others: the height's bytes sort like the height, and the span's end is in it.
HeightScansExact ==
    \A start, end \in UInt32, filterSpent \in BOOLEAN : start <= end /\ Fits(end + 1) =>
        LET txs == UNION {GetTransactionsByBlockHeight(Decoded, h, filterSpent) : h \in start..end}
        IN  /\ getTransactionsByBlockHeightRange(start, end, filterSpent) = Answer(txs)
            /\ start = end => getTransactionsByBlockHeight(start, filterSpent) = Answer(txs)

\* A scan by hash finds the transactions of the block with that hash, and the
\* scans of a transaction's outputs no output of the txids next to it.  Of bytes
\* that are not a whole hash it takes every block whose hash begins with them.
HashScansExact ==
    \A n \in 1..DigestSize : \A hash \in [1..n -> Bytes], filterSpent \in BOOLEAN :
        Incrementable(hash) =>
            getTransactionsByBlockHash(hash, filterSpent) =
                Answer(FetchTransactions(Decoded,
                    UNION {{t \in Txids : <<b, t>> \in Decoded.hashIndex} :
                              b \in {c \in Blocks : IsPrefix(hash, Hash[c])}},
                    filterSpent))

\* The reverse scan finds the state of the greatest height.
CurrentStateRead ==
    LET b == GetCurrentBlockState(Decoded)
    IN  getCurrentBlockState =
            IF b = NoBlock THEN [blockHeight |-> NoHeight, blockHash |-> << >>]
            ELSE [blockHeight |-> Height[b], blockHash |-> Hash[b]]

\* The height found for a timestamp is that of an indexed block with transactions
\* to serve whose own timestamp comes after it, none such in between, whatever
\* the order of the timestamps along the branch; there is no answer only if
\* there is no such block.  key-encoding.ts:307 speaks of the first block after a
\* timestamp: one without eligible transactions has no entry and is passed over.
FirstBlockAfter ==
    \A timestamp \in UInt32 : Fits(timestamp + 1) =>
        LET later == {b \in Store!IndexedBlocks : Eligible(TxsOf(b)) # {} /\ Time[b] > timestamp}
            h     == getBlockHeightByTimestamp(timestamp)
        IN  IF later = {} THEN h = NoHeight
            ELSE \E b \in later : h = Height[b] /\ \A c \in later : Time[b] <= Time[c]

-----------------------------------------------------------------------------
(* The inductive invariant *)

\* The base block's state is under its height as soon as there is an operation
\* state, and none is before.
BaseStateKept ==
    IF Has(encodeOpStateKey)
    THEN Has(encodeBlockStateKey(BaseHeight)) /\ kv[encodeBlockStateKey(BaseHeight)] = Hash[BaseBlock]
    ELSE KeysUnder(BLOCK_STATE) = {}

\* The block states have a greatest height.
StatesBounded == \E h \in Heights : \A k \in KeysUnder(BLOCK_STATE) : decodeBlockStateKey(k) <= h

\* What saveTransaction queues for the transactions txs of b, in whichever order.
Saves(b, txs) ==
    [k \in UNION {DOMAIN saveTransaction(t, b) : t \in txs} |->
        [type  |-> "put",
         value |-> IF k[1] = TX THEN SavedTx(b) ELSE IF k[1] = OUTPUT THEN [isSpent |-> FALSE] ELSE Empty]]

\* The transactions the batch is for: of the base block none is indexed.
JobTxs == IF Has(encodeOpStateKey) THEN TxsOf(job.block) ELSE {}

\* The batch is what its calls queued so far, for a block that still follows.
BatchExact ==
    LET marked == Then(Saves(job.block, Eligible(JobTxs)),
                       markOutputsSpent(SpentBy(JobTxs), OutpointsOf(Eligible(JobTxs))))
    IN  \/ job = NoJob /\ batch = NoOps
        \/ /\ job.stage = "index" /\ Follows(job.block)
           /\ \E done \in SUBSET Txids :
                 /\ JobTxs = done \cup Range(job.left)
                 /\ batch = Saves(job.block, Eligible(done))
                 /\ job.outpoints = SpentBy(done)
                 /\ job.pending = OutpointsOf(Eligible(done))
        \/ job.stage = "states" /\ Follows(job.block) /\ batch = marked
        \/ job.stage = "commit" /\ Follows(job.block) /\ batch = Then(marked, setState(job.block))
        \/ /\ job.stage = "commit" /\ Has(encodeOpStateKey) /\ Current # BaseBlock
           /\ job.block = Current /\ batch = removeState

IndInv == TypeOK /\ BaseStateKept /\ StatesBounded /\ BatchExact

=============================================================================
