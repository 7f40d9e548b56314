# A verification of the silent payment indexer

TLA+ modules of the indexer in `src/`, TLC runs that check them on small block
trees, and proofs, checked by TLAPS, that hold for every block tree.

The system reads the blocks of a Bitcoin chain from a node, keeps the
transactions that may hold silent payments in an LMDB store, serves them over
HTTP and announces each newly indexed block over a WebSocket. It is one
Node.js process. What makes it hard is time: the chain changes branch while it
is read, requests fail, the process ends, the cron job ticks again before the
last sync has ended, and a block is undone from the records that a later block
may have replaced.

## Inventory

Paths are below `src/src/`.

| component | state | operations | correct when | status |
|---|---|---|---|---|
| Bitcoin Core provider (`block-data-providers/bitcoin-core`) | `isSyncing`, the locals of a `sync()` in flight | `onApplicationBootstrap`, `sync` (every 10 s), `processBlock` | one sync at a time; every block of the branch, in order, once; the flag is cleared | modelled |
| Base provider (`base-block-data-provider.abstract.ts`) | none of its own | `getState`, `setState`, `traceReorg` | the trace stops at the last block both branches share and leaves no gap | modelled |
| Esplora provider (`block-data-providers/esplora`) | as Bitcoin Core, `lastProcessedTxIndex` | as Bitcoin Core, in groups of transactions, each fetched by requests of its own | every transaction of a block once, an interrupted block resumed, a group whole or not at all | modelled |
| Node (external) | block tree, best block | answers by height and by hash | | modelled |
| Storage service (`storage/storage.service.ts`) | transactions, outputs, four indexes, block states, operation states | save, mark spent, delete by block, reads | indexes, outputs and transactions agree | modelled |
| Batch writer, database transactions | queue of puts and deletes | `put`, `del`, `commit`, `execute` | all or nothing, in order | modelled |
| Key encoding (`storage/key-encoding.ts`) | none | keys, values, ranges | ranges hold what they name and nothing else | modelled |
| Block state, operation state services | none | `removeState`, reads | | modelled |
| Indexer service (`indexer/`) | none | `index`: eligibility, outputs, tweak | the tweak is the one the sender used | modelled |
| Helpers (`common/common.ts`) | none | varint, input key, amounts | what is written is read back; an input's key is found | varints and input keys modelled |
| Requests (`common/request.ts`) | the count of a retry loop | `makeRequest` | ends, retries network errors only | modelled |
| Silent blocks service and gateway | the clients | announcement, encoding | what is announced is the block, a client can read it | modelled |
| Transactions and silent blocks endpoints, response cache | cached responses | eight GETs | fresh within `cache.ttl`, of one branch | modelled |
| Configuration, logging, throttler, module wiring | | | | not modelled |

How they interact: the cron job calls `sync()`, which awaits the node, calls
the base provider's trace, queues writes of the storage service on a batch and
commits it; the commit is followed by an event the silent blocks service
handles by reading the store and sending to the clients. The store is the only
thing that outlives the process. The endpoints read it at any time, through a
cache that no commit invalidates.

The hazards are listed with their lines in `PROJECT.json`, with the properties
that would catch them, or the reason why none does.

## Modules

```
Ledger                     the block tree: constants and their assumptions
  Storage                  the store's operations and reads, by their effect
    BlockStore             the store over time: StoreSpec
      BlockDataProvider    node, process, cron job, reorg trace
        BitcoinCoreProvider     one commit per block          MCBitcoinCore
        EsploraProvider         one commit per group          MCEsplora
      Endpoints            routes and response cache          MCEndpoints
  KeyEncoding              keys, their order, ranges
    KeyValueStore          batches of puts and deletes, scans MCKeyValueStore
  ChainView                what the clients are promised
TransactionGroup           a group's requests, one by one     MCTransactionGroup
Eligibility                which transactions, which tweak    MCEligibility
SilentBlockCodec           the bytes of a silent block        MCSilentBlockCodec
```

with the proofs in `BlockStore_proofs` (which has the facts on the tree and on the
store's operations too), `BitcoinCoreProvider_proofs`, `EsploraProvider_proofs`,
`KeyValueStore_proofs`, `SilentBlockCodec_proofs`, `Endpoints_proofs`,
`TransactionGroup_proofs` and `Eligibility_proofs`.

Two refinements tie the parts together. **BlockStore** is the store as its
readers may think of it: it takes in a child of its current block, whole, or rolls
its current block back. From below, `KeyValueStore` implements it: the ops
queued on a batch and committed amount to such a step, and everything else to none.
From above, `BitcoinCoreProvider` implements it: its commits and rollbacks are
such steps until the node strays. The endpoints are then modelled over
`BlockStore` alone, and what is proved of `BlockStore` holds in all three.

**Ledger** gives the tree by constants: blocks, heights, lineages, and for each
transaction the outputs `index()` would save and the outpoints it spends. A
block stands for its hash, so "the same hash" is equality. The assumptions say
that a lineage has one block per height and that consensus holds on it: a
transaction is mined once, an outpoint is spent once and not before it exists
(`BlockIsOrdered` for the order within a block).
`processBlock` drops the coinbase, so `BlockTxs` does.

**Storage** maps one committed store to the next. Each key prefix of
`key-encoding.ts` is a component of a record: `tx` (`tx:`), `output` (`out:`,
its isSpent byte), `unspent` (`idx:us:`), `heightIndex` (`idx:h:`), `hashIndex`
(`idx:bh:`), `timeIndex` (`idx:bt:`), `blockState` (`bs:`), `opState` (`os:`).
The height and hash inside a transaction's record are those of one block, which
stands for them. The time there is a component of its own (`time`): Esplora's is the
one in the transaction's status, fetched after the block's txids. `MarkOutputsSpent` takes the committed store and the one
with the batch applied apart, because the code reads the former and writes the
latter. `DeleteTransactionsByBlockHash` rebuilds index keys from the record, as
the code does.

**KeyEncoding** and **KeyValueStore** have the same operations as the code writes
them: puts and deletes of keys are queued on a batch, `commit` applies them in
order, and every read is a scan of a range of keys in LMDB's order, whose bounds are
computed as `key-encoding.ts` does. A batch is the map from each key to the last op
queued on it, which is all that applying the ops in order leaves of them. A key is a
sequence: its prefix, given as its place among the prefixes, then its fields. A
32-bit field is one number; a hash or a txid is a sequence of bytes, because a range
ends at the hash plus one. Two assumptions say what the encoding needs: heights and
times fit their 32-bit fields (`FieldsFit`; `writeUInt32BE` throws a RangeError
otherwise), and no hash or txid is all 0xFF, for which `bigEndianIncrement` throws (`DigestsHaveSuccessors`). The callers are there as far as they order the
calls: transactions indexed one by one, then the spent outputs, then both states,
then the commit. `Decoded` is the refinement mapping: the pairs read as a store of
`Storage`.

**BlockDataProvider** holds the variables and the actions both providers have.

| variable | code |
|---|---|
| `tip` | the node's best block |
| `strayed` | no code: has the node left the branch a sync relied on? |
| `db` | the committed LMDB store |
| `boot` | `onApplicationBootstrap`: not begun, awaiting the base block's hash, ended |
| `isSyncing` | the field |
| `sync[r]` | locals of the invocation `r` of `sync()`, and the request it awaits |
| `silentBlock` | the last silent block broadcast |

A step is what JavaScript runs from one awaited request to the next. Reads and
writes of LMDB are synchronous in this code (an `await` of them never leaves
the microtask queue, so no timer or network callback comes between), and
`commit` is one LMDB transaction: a commit is one step, and a crash comes
before or after it. An answer is split from its use where the code's next
decision needs it: in `AnswerTrace` and `TraceMatches`/`TraceMismatches` the
node may change branch between the two. `getNetworkInfo` changes nothing and
is part of the step that follows the tip's answer. `RequestFails` is a request
that failed for good, retries included, or a batch that was discarded: the model
lets any awaited request and any commit fail, at any time, without bound. `Crash`
ends the process at any point, without bound; also a failed request of the
bootstrap, which ends the process, is a `Crash`.

**BitcoinCoreProvider** adds the commit of a block and its announcement,
**EsploraProvider** the fetch of txids, the groups and `lastProcessedTxIndex`. Each
transaction of a group is answered by itself (`AnswerTx`), from the branch the node is
on by then: its time is that branch's block's (`StatusTime`), or none if that branch
has not mined it, and waits in `sync[r].times` until all are there and
`CommitTxBatch` saves them. `currentBlockHeight` of Esplora's state is written once and never read: it is
left out.

**TransactionGroup** opens up the requests behind `AnswerTx` and the commit after
them: every transaction of a group is asked for at once, each request goes through
`makeRequest`'s loop (an answer, an error that is not retried, a network error
with a timer and another attempt, or the last one), and each answer is indexed
as it arrives, with the time in its status. The first request to fail for good
ends the sync. The others are not cancelled: `call[s]` and `batch[s]` of an
ended sync `s` live on, and their answers may come while the next sync asks for
the same transactions. The branch may change at any time; `moved` records
whether it has since the sync began, for `TimesOfBlock` alone.

**ChainView** is the abstract specification for clients: a view of one branch that
grows by a child of its last block or loses its last block, and that serves, at
every height in view, the eligible transactions of its block. The
Bitcoin Core provider implements it until the node strays, with the current block
state as `view` and the height index as `served`.

**Endpoints** has every route of both controllers over `BlockStore`: the pipes and
checks of the parameters, the reads, and the failures. A handler reads without
leaving the microtask queue, so a request is one step. A height in a path is a
string, as in the code: `height + 1` appends a digit. The response cache is the
library's, modelled from its configuration: a returned body is kept for
`cache.ttl` under the URL, an error is not, nor is what a handler sends itself
with `@Res`, as the routes of silent-block do. `quiet` counts the ticks since the
store changed and is read by `WithinTtl` alone.

**Eligibility** is `deriveOutputsAndComputeScanTweak`, loop by loop, with
`extractPubKeyFromScript`. A state begins with what a sender did in each input (the
variable `spends`, which no action reads); the handler sees the scripts and
witnesses that follow from it. The curve is replaced by integers modulo `Order`:
a point is its secret key, a sum of keys may be zero, and two points have one x
coordinate. `MatchesSender` computes the tweak from the secret keys, by the rules
for senders, and compares. `SpendsAssumption` has what Bitcoin's rules give: a key that
signs is not zero, a bare multisig script begins with OP_1 to OP_16, one of an unknown
SegWit version with OP_2 to OP_16.

**SilentBlockCodec** stands by itself: `encodeSilentBlock` as it writes into a
buffer of a length computed beforehand, header first and then transaction by
transaction, with `encodeVarInt` and `varIntSize` as `common.ts` has them. A
field is a filler byte repeated, since only the counts decide the layout. Its
reader is a client that follows the layout of design.md and reads integers as
`readVarInt` of the end-to-end helpers does. (design.md says that all encodings
are big endian; the integers of more than one byte are little endian in the
encoder and in that helper alike, as Bitcoin's are.)

Definitions whose comment begins with *Fault* are variants of the definition
below them, as a mistake in that code would make it. No specification uses
them; they show that the properties notice.

## What the node may do

The node's best block is replaced by a higher one at any time, on the same branch or
another, also between two requests of one sync. `sync()` compares no previous hash
inside its loop, so a branch change there makes it append a block of one branch to a
block of the other (`core_each_block`), and nothing the code does repairs that.
`strayed` becomes true at such a step: the best block changes to one that is not
above the hash a sync has been told and goes on from (`BuildsOn`). The properties
that this breaks say what holds until then: for the Bitcoin Core provider `Linked`,
`LinkedInv`, `IndexExact`, `SpentMarked` and the two refinements, for Esplora
`Linked`, `LinkedInv`, and of `IndexSound` and `SpentBySaved` the agreement of the
indexes with the records (`IndexesAgree`) and the spent flags (`NoSpentServed`). The
time in a record may be another block's even then: at the height of the tip a sync
goes on with the txids it has when the node changes branch, which breaks nothing it
relies on, and is given the statuses of the new branch. `IndexesAgree` therefore
compares the time index with the records and not with the blocks. The
others (`IndInv`, `GapFree`, `UnspentIndexAgrees`, `OnlyTopRolledBack`,
`SavedFromIndexed`, `CommittedSaved`, `CatchesUp`, `CommitAnnounced`) hold
regardless. `BroadcastOfBlock` has one half of each kind: an announcement has every
unspent output of its block whatever the node does, and none of another block until
the node strays. Of the block's own spent outputs it says nothing. A sync that crosses branches can save one transaction in two blocks;
the record then names the second, and `deleteTransactionsByBlockHash`, which builds
the index keys from the record, leaves the first block's entry under its height
behind when both are rolled back. The next block at that height is announced with
the transaction, which `CommitAnnounced` allows too: it asks that the block reaches the
clients with all its unspent outputs. Branch changes between syncs, and inside one before the hash it
relies on is answered, are ordinary.

A switch to a branch of equal height is not covered: the code notices it at the
next block.

The cron job may tick before `onApplicationBootstrap` has ended: `@nestjs/schedule`
starts its jobs in a bootstrap hook of its own and the first tick comes at the next
multiple of ten seconds, so a slow first request suffices. `sync()` then throws
"State not found" outside its `try`, with the flag set: no later tick does
anything until the process ends. What a job throws the scheduler logs; the
process goes on. `EarlyTick` names these states, and `CatchesUp` is promised only
if the behaviour has none.

## Runs

| run | what it asks |
|---|---|
| `core_safety` | Types, one sync at a time, no gap, the indexes agree; until the node strays the index is exactly that of the indexed blocks (`IndexExact`), no output an indexed block spends is unspent (`SpentMarked`), the blocks are one branch, `ChainView` and `BlockStore` are implemented; announcements have each unspent output of the block, and none of another block until the node strays; every committed block is announced unless the process ends; only the topmost block is ever rolled back, and only by a sync to which the node has answered another hash at its height; the index catches up. `IndInv` and `LinkedInv` are the invariants of the proofs; `Linked` is a part of the second. |
| `esplora_core` | Whatever is saved is of an indexed block, and until the node strays the indexes agree with it, each transaction under its own record's time, and no output it spends is unspent, whatever part of a block is committed; every sync that has sent a request ends with the flag cleared. |
| `transaction_group` | No request makes more attempts than `retryConfig.count` (`CallsInBounds`); a group is committed whole or not at all; no straggler's time gets into the store; the time index follows the records through a fetch across a branch change and its rollback; every sync ends; the group is saved in the end. |
| `kv_store` | The pairs implement `BlockStore` (`PairsImplementBlockStore`), also when a callback throws half way through its batch; a scan of heights, of a hash or of its first bytes, of a transaction's outputs, of block states and of times finds what it names. |
| `endpoints` | No answer is older than `cache.ttl` or another URL's; failures are current; an answer is of one branch, each transaction once; a quiet store becomes visible. |
| `eligibility` | A transaction is indexed exactly if it may be a silent payment, with its sender's tweak. |
| `codec` | The length computed for a silent block is the length written, for all counts (`LengthExact`); a block whose counts take one byte each is read back (`SmallBlocksRead`). |

Five more runs check what a document of the repository says and find that the
code does otherwise; each has a finding in `PROJECT.json`.

| run | the document | what the code does |
|---|---|---|
| `core_each_block` | design.md: an index "for each block" | a branch change inside a sync leaves a block of the wrong branch below the current one; the trace only looks at the topmost block and never finds it |
| `core_unspent` | design.md: "everything that a silent payment wallet needs to scan and spend outputs" | a rollback does not undo the spent flags its block had set |
| `esplora_each_transaction` | design.md: an index "for each block" | `lastProcessedTxIndex` is carried over to the next block, whose first transactions are skipped |
| `endpoints_height` | key-encoding.ts: "all txids at a single block height" | a height from a path is a string: the range of height 12 ends at 120 |
| `codec_reads` | design.md: "A varint specifying the number of transactions", as `readVarInt` reads it | a value of 253 or more is written one, three or seven bytes past its place, and its end is overwritten by the next field |

A sixth finding has no counterexample. design.md says of a silent block that it
"contains only unspent outputs created in that block"; `handleBlockIndexedEvent` asks
for the block with `filterSpent` false, so that an output spent in its own block
is announced with the others. `BroadcastOfBlock` and `CommitAnnounced` demand what
both say, every unspent output and none of another block, and hold of either.

Three smaller disagreements have no run, because a property above states the code's
behaviour and a counterexample would show no more. The first tick of a cold start
(`EarlyTick`) against README's "Continuous Updates". An Esplora block, which is committed
in groups (`IndexSound` is what holds of a part), against
storage-engine-comparison.md's "every block is committed as one atomic
transaction". And the comment at `indexer.service.ts:89`, "does not spend an output
with SegWit version > 1": a bare multisig output of two signatures or more begins
with OP_2 to OP_16 as well, and its spender is left out (`MatchesSender` makes
the exception).

### Bounds

The Bitcoin Core tree has ten blocks on three branches (drawn in
`MCBitcoinCore`): reorganisations of depths one to three, two in a row, a
rolled back block that comes back, a transaction mined on two branches at
different heights, one spent within its block, one spent on one branch only,
transactions that are not eligible, timestamps out of order. The Esplora tree has
ten blocks on three branches with zero to eight transactions: blocks of several
groups, of a partial group, of none, reorganisations that roll back one
block or two, and transactions mined on two branches, which a sync that crosses
from one to the other saves twice, and whose status is answered by either branch. `Syncs` has two members: a second
invocation is all that overlap takes, and the mutual exclusion is proved for
any number. Crashes, restarts and failures are not counted, so there are as many
as the behaviour likes. The state space is finite because the tree is; best
blocks only rise. There is no bound in a guard. Symmetry is not used: the
members of the trees have different parts to play, and liveness is checked.

`MCTransactionGroup`: two transactions (one to fail, one to go on), three syncs (one
in flight and the stragglers of two), two attempts. An invocation's slot is used again
once all its requests have ended (`Settled`), which bounds the stragglers that are
in flight together, not the number of syncs.

`MCKeyValueStore`: eight blocks and five transactions; a byte has three values and a
digest two bytes, so that hashes and txids are each other's neighbours, with and
without a carry between them, and share first bytes; `MaxUInt32` is small. Every
pair of heights, every timestamp and every sequence of bytes up to a digest is
looked up in every state. One provider, so one key of `os:`.

`MCEndpoints`: `TTL` two ticks, `MAX_BLOCK_RANGE` three, `MaxUInt32` such that ten
times the greatest height overflows; `MaxCached` bounds the answers in the cache at one
time, in the guard of `Get`: the entries do not depend on each other. The proofs
need none of these values.

`MCEligibility`: a group of five elements (secrets 1 and 4, and 2 and 3, share an x
coordinate; 1 and 4 cancel), up to two inputs of every kind and up to two outputs, and
outpoints whose serialized order is not that of their numbers. Its deadlock check
is off: the handler returns.

The codec runs shrink a byte to eight values, so that a count takes one byte below
five and three below 64, and the fields to a few bytes; `ASSUME
SizesArePositive` has what the layout needs of them. Blocks have none to five
transactions, each of 1, 4, 5 or 64 outputs: the last value of the first class,
the first of the second, and one of the third. The nine-byte class, beyond
4294967295 of anything in a block, is in the model and not reached. The deadlock check
is off: the encoding ends. In the other runs it is on: ticks, or blocks that come
and go, go on for ever.

### Fairness

`FairSpec` of the Bitcoin Core provider assumes that an ended process is started again (WF), that
the cron job goes on ticking and that a request made over and over is answered in the
end, at each of the points where a sync awaits one (SF: a crash or a failure may come
first any number of times), and that a committed block's event is handled
unless the process ends (WF). Nothing is assumed of the node's choice of
blocks, of failures or of crashes. The code justifies the first by its
deployment, the second by `@Cron`, the third by `makeRequest`'s retries and the
next tick. `FairSpec` of the Esplora provider has less: a sync in flight takes a step
(WF), that is, what it awaits is answered or fails; that is all `SyncEnds` takes.

`FairSpec` of `TransactionGroup` has the same tick, timers that fire, a complete batch
that is committed, and for each request that it is answered or fails: all WF.
A request that is neither answered nor refused, for ever, is
excluded here as for the providers: `axios` is given no timeout, so this is an
assumption on the network, and without it no sync need ever end. `Recovers` also assumes that failures and
restarts stop; how often they happened before does not matter.

`FairSpec` of `Endpoints` has the clock go on.

## Proofs

For every block tree that satisfies the assumptions of `Ledger`, any digests that
satisfy those of `KeyEncoding`, any set of invocations, URLs, transactions and
syncs, every batch size, every `TTL` and every retry count, every odd order of the group
and any spends that satisfy the assumptions of `Eligibility`:

| theorem | |
|---|---|
| `Invariance` | `Spec => []IndInv` (Bitcoin Core provider) |
| `TypeCorrectness`, `MutualExclusion`, `UnspentIndexAgreement`, `GapFreedom` | `TypeOK`, `AtMostOneSync`, `UnspentIndexAgrees`, `GapFree`, from it |
| `BranchInvariance`, `BranchIntegrity` | `Spec => []LinkedInv`, `Spec => []Linked` |
| `RollbackFromTheTop` | `Spec => OnlyTopRolledBack` |
| `StoreInvariance` | `StoreSpec => []StoreInv`: a store that changes as `BlockStore` says is exact |
| `BlockStoreImplementation` | `Spec => ImplementsBlockStore` |
| `IndexExactness`, `SpentMarking` | `Spec => []IndexExact`, `Spec => []SpentMarked` |
| `ChainViewImplementation` | `Spec => ImplementsChainView` |
| `BroadcastSoundness` | `Spec => BroadcastOfBlock`, with `CommitKept` (`Spec => []CommittedSaved`) |
| `Invariance`, `BranchInvariance` (Esplora provider) | `Spec => []IndInv`, `Spec => []LinkedInv` |
| `TypeCorrectness`, `MutualExclusion`, `UnspentIndexAgreement`, `BranchIntegrity`, `RollbackFromTheTop` (Esplora provider) | as above |
| `IndexSoundness`, `SpentMarking` (Esplora provider) | `Spec => []IndexSound`, `Spec => []SpentBySaved` |
| `Invariance`, `TypeCorrectness` (key-value store) | `Spec => []IndInv`, `Spec => []TypeOK` |
| `HeightScanExactness`, `HashScanExactness`, `CurrentStateReading`, `FirstBlockFound` | the scans: `HeightScansExact`, `HashScansExact`, `CurrentStateRead`, `FirstBlockAfter` |
| `Refinement` (key-value store) | `Spec => PairsImplementBlockStore` |
| `Invariance`, `LengthExactness`, `SmallBlocksReadBack` (codec) | `LengthExact`, `SmallBlocksRead`, for every size of the fields |
| `StoreBehind` | `Spec => StoreSpec /\ []StoreInv` (endpoints) |
| `Freshness`, `FailureCurrency`, `AnswerIntegrity` | `WithinTtl`, `FailuresAreCurrent`, `AnswersOneBranch` |
| `Types`, `GroupAtomicity`, `StragglersHarmless`, `TimeIndexAgreement` | the four invariants of `TransactionGroup`, `CallsInBounds` the first |
| `Invariance`, `IndexedAsSent`, `VoutsKept` | `Spec => []IndInv`, `Spec => []MatchesSender`, `Spec => []VoutsExact` (eligibility) |

The inductive invariant `IndInv` has six parts. `TypeOK` is not inductive by itself:
the block the node answers with exists only while the height asked for lies
between the base and its best block, which needs `GapFree` and what a sync
remembers (`SyncConsistent`). `GapFree` needs that a sync in flight is the only
one (`AtMostOneSync`), since another could roll back or commit under it, and
that a process past its bootstrap has states (`BootConsistent`). `SyncConsistent`
says, phase by phase, that what a sync remembers is still so in the store: the
traced block state is the current one, the height to fetch is one above it. The
trace cannot exhaust the block states because the base block is on every branch:
its hash always matches (`BaseIsOnly`, `RemoveTopBlockState`).
`UnspentIndexAgrees` is an invariant of each store operation by itself.

`LinkedInv` adds the branch: the block states are one lineage, and the hash a
sync relies on is on the node's. It is inductive relative to `IndInv`, because a step
of the node that breaks it sets `strayed`. `RollbackFromTheTop` follows from
`IndInv` step by step.

The exactness of the index is proved of `BlockStore` and not of the provider: there
it takes an invariant of the store alone (`StoreInv`: its type, contiguous heights
of one branch, `UnspentAgrees`, `StoreExact` and `StoreSpent`), with one lemma for
taking a block in and one for rolling it back. A rollback leaves the other blocks'
entries because a transaction is on a branch once. The time index needs a fact of
its own: an entry is a time and a height, so no two blocks of a branch share one.
The provider inherits all of it by its refinement, which `LinkedInv` makes a
step-by-step argument: the block it commits is a child of the current one.
`ImplementsChainView` then follows from exactness, as what is served at a height is
determined by the block there.

The endpoints inherit `StoreInv` in the same way. `WithinTtl` needs that an entry is
what the store said when it was made, which `quiet` bounds; `AnswersOneBranch` needs
that each body in the cache is of one branch, a fact that does not change when the
store does.

`GroupInv` adds to the properties of `TransactionGroup` what calls and batches hold
on their way: an answered call has a time in its own sync's batch, the time is the
block's if the sync is in flight and the branch has not moved, a call waits only if
it has an attempt left, and a sync in flight has saved nothing yet.

`BroadcastOfBlock` compares what the announcement reads with the block. Its first half
needs that the transactions of the block a sync has committed are still recorded under
it, and found under its height, when the event is handled (`CommittedSaved`); its second
is the exactness of the index, inherited from `BlockStore`.

The Esplora provider does not implement `BlockStore`, which takes blocks in whole,
so its invariants are proved of it directly. Block states have no gap only while
complete blocks are counted, so `IndInv` has `StatesStacked` in `GapFree`'s place:
the base block's state is there, each other one is of a block of its height, and
none is above the node's best block. `SavedFromIndexed` (a record belongs to a block
that has a state) is inductive only with `GroupsInOrder`: of the block in hand, just
the groups before the next one are saved, so a commit saves none twice. `LinkedInv`
has the branch and, on it, `IndexesAgree` and `NoSpentServed`: on one branch a
transaction is in one block, so what a group saves was not there before and what a
rollback removes is all of its block. Nothing in this depends on the times that
are answered: an entry of the time index is built from the record, when it is put and
when it is deleted.

The key-value store is about bytes: a key is a sequence, a range is a comparison of
sequences. The proof goes in four parts. Keys: each thing kept has one key
(`KeysAreUnique`), each range has the keys it names and no others (`HeightRange`,
`HashRange`, `OutputRanges`, `TimeRange`, `StateRange`), and the order of keys is
the order of the numbers in them. Reading: `Reads(d, kv)` says that the pairs are
those that stand for the store `d`, whose records have their blocks' times (`Timed`),
as the calls from the Bitcoin Core provider do; at most one store does (`ReadsUnique`),
`Decoded` is it, and every scan answers as `d` does. Writing: each part of a batch,
applied, takes the pairs of `d` to those of the result of `Storage`'s operation
(`ReadsSaves`, `ReadsMark`, `ReadsSetState`, `ReadsRemove`). Steps: `BatchExact` in
`IndInv` says that what is queued is what the calls so far amount to, over the
committed store, so that a commit is a step of `BlockStore`. `FirstBlockFound` then
takes from `BlockStore_proofs`, instantiated with the decoded store, that the time
index is exact.

The codec's functions are recursive over transactions and outputs. Induction over
data has no theorem the provers can use, but a least counterexample does:
`LeastElement` comes from the well-foundedness of the natural numbers, and `Upwards`
from it. The invariant adds to `LengthExact` that the buffer is allocated with the
computed length and that the bytes before the next transaction are those counted
(`CountsWritten`).

The indexer's decision compares two computations, a loop over what the handler sees and
the sender's sum over what it did. `LoopsExact` relates them at each step: the keys found
so far add up to the secrets of the inputs looked at. One step of it is that an input
of each kind reveals the key its sender counts in, or none (`KeyFound`), and that the
remainder of a sum is that of the sum of the remainders (`RemainderOfSum`). The loop
over opcodes ends early only on an unknown SegWit version or a multisig of two
signatures or more (`OpcodeOf`), the exception in `MatchesSender`. The smallest
outpoint is the least one since the order of the bytes is strict and total
(`BytesOrdered`, `SmallestIsLeast`). The sums and the smallest outpoint are
recursive functions: `LoopExists` says that a loop has a value after each item, by a
least counterexample again (`Upwards`), and each fact on a loop follows in that way.

`BlockStore_proofs` also has the facts on the tree and on the store's operations
(what each operation types, preserves and leaves alone; that a block state appended
to a contiguous store, or taken off it, leaves one).

Every invariant and every safety property of a step that a passing run checks is
proved. Only model-checked: `CommitAnnounced`, `CatchesUp`, `SyncEnds`, `Recovers` and
`Converges`, which are liveness properties: fairness and ENABLED are beyond the prover.

## Not modelled

- Configuration: read once. What its validators admit is in the assumptions
  (`RetryCount` and `TTL` are at least one).
- Choice of the provider: one provider for the life of a database. A change of provider
  over one database would start from the base block again, below block states of the
  other; the repository says nothing of it.
- The throttler, logging, module wiring and the sockets of the gateway: libraries.
- The curve's arithmetic and the hashes: libraries. A key that is not on the curve does
  not occur in `Eligibility`; `btcToSats` and the values of outputs are left out.
- Timeouts: the code sets none. `deleteTransactionByBlockHash` of the transactions
  service: it has no caller.
- The endpoints over an Esplora store between two groups of one block: `BlockStore` takes
  a block in whole, so `AnswersOneBranch` is about the Bitcoin Core provider;
  `IndexSound` has what holds of a part.
- A branch of equal height, and a node whose best block falls.
