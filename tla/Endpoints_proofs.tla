-------------------------- MODULE Endpoints_proofs --------------------------
(***************************************************************************)
(* What the clients of the endpoints are answered, for every set of URLs   *)
(* and every cache.ttl: the answers are no older than that, failures are   *)
(* current, and an answer's transactions are of one branch.                *)
(***************************************************************************)
EXTENDS Endpoints, BlockStore_proofs

\* Every answer in the cache was the store's when it was put there: it is of one
\* branch, and current unless the store has changed since.
CacheInv ==
    /\ quiet \in 0..TTL
    /\ \A u \in DOMAIN cache :
          /\ cache[u].age \in 0..(TTL - 1)
          /\ cache[u].answer.status = "ok"
          /\ cache[u].age < quiet => cache[u].answer = Answer(u, db)
          /\ u \in Urls => OfOneBranch(u, TransactionsIn(u, cache[u].answer))

-----------------------------------------------------------------------------
\* The endpoints see the store go through the steps of BlockStore.
LEMMA StepOfStore ==
    ASSUME StoreInv, [Next]_vars
    PROVE  [StoreNext(db'.opState)]_db
  <1>1. CASE StoreChanges
    <2>1. db \in Stores({db.opState})
      BY DEF StoreInv, StoreTyped
    <2>2. CASE "saved" # NoState /\ SaveBaseState("saved")
      <3>1. db'.opState = "saved"
        BY <2>1, <2>2 DEF SaveBaseState, SetState, Stores
      <3> QED
        BY <2>2, <3>1 DEF StoreNext
    <2>3. ASSUME "saved" # NoState, NEW b \in Blocks, IndexBlock(b, "saved")
          PROVE  StoreNext(db'.opState)
      <3>1. db'.opState = "saved"
        BY <2>1, <2>3, IndexBlockEffect
      <3> QED
        BY <2>3, <3>1 DEF StoreNext
    <2>4. CASE RollBack
      BY <2>4 DEF StoreNext
    <2> QED
      BY <1>1, <2>2, <2>3, <2>4 DEF StoreChanges, StoreNext
  <1> QED
    BY <1>1 DEF Next, Get, Tick, Restart, vars

\* The store the endpoints read is the one the provider was shown to implement,
\* and its invariant holds behind every answer.
THEOREM StoreBehind == Spec => StoreSpec /\ []StoreInv
  <1>1. Init => StoreInit /\ StoreInv
    BY StoreInitInv DEF Init
  <1>2. StoreInv /\ [Next]_vars => StoreInv' /\ [StoreNext(db'.opState)]_db
    BY StepOfStore, StoreStepExact
  <1> QED
    BY <1>1, <1>2, PTL DEF Spec, StoreSpec

-----------------------------------------------------------------------------
\* The records of an answer are those of the transactions asked for, with the
\* one indexed block that mined them.
LEMMA AnswerRecords ==
    ASSUME StoreInv, NEW txids \in SUBSET Txids, NEW filterSpent,
           NEW r \in TransactionData(db, txids, filterSpent)
    PROVE  /\ r.id \in txids
           /\ r.block = db.tx[r.id]
           /\ r.block \in IndexedBlocks
           /\ r.id \in Eligible(TxsOf(r.block))
  <1>1. /\ r.id \in txids
        /\ r.block = db.tx[r.id]
        /\ db.tx[r.id] # NoBlock
    BY DEF TransactionData, FetchTransactions
  <1>2. TransactionExact(r.id)
    BY <1>1 DEF StoreInv, StoreExact
  <1> QED
    BY <1>1, <1>2 DEF TransactionExact

\* The indexed blocks lie on one branch.
LEMMA IndexedLineage ==
    ASSUME StoreInv
    PROVE  \E b \in Blocks : \A c \in IndexedBlocks : c \in Blocks /\ c \in Lineage[b]
  <1>1. CASE IndexedHeights(db) = {}
    BY <1>1, LedgerTypes DEF IndexedBlocks
  <1>2. CASE Contiguous(db) /\ OnOneBranch(db)
    <2>1. GetCurrentBlockState(db) \in Blocks
      BY <1>2 DEF Contiguous
    <2>2. db \in Stores({db.opState})
      BY DEF StoreInv, StoreTyped
    <2> QED
      BY <1>2, <2>1, <2>2, IndexedOnBranch
  <1> QED
    BY <1>1, <1>2 DEF StoreInv, StoreOnBranch

\* A block of the branch that mined a transaction is the only one.
LEMMA MinedOnce ==
    ASSUME StoreInv, NEW t, NEW c \in IndexedBlocks, NEW d \in IndexedBlocks,
           t \in Eligible(TxsOf(c)), t \in Eligible(TxsOf(d))
    PROVE  c = d
  <1>1. PICK b \in Blocks : \A e \in IndexedBlocks : e \in Blocks /\ e \in Lineage[b]
    BY IndexedLineage
  <1> QED
    BY <1>1, LineageIsValid DEF Eligible

\* What is read at one time is of one branch, and has a transaction once.
LEMMA DataOneBranch ==
    ASSUME StoreInv, NEW txids \in SUBSET Txids, NEW filterSpent
    PROVE  LET txs == TransactionData(db, txids, filterSpent)
           IN  /\ \E b \in Blocks : \A r \in txs : r.block \in Lineage[b]
               /\ \A r, s \in txs : r.id = s.id => r.block = s.block
               /\ \A r \in txs : r.id \in TxsOf(r.block)
  <1> DEFINE txs == TransactionData(db, txids, filterSpent)
  <1>1. \A r \in txs : /\ r.block = db.tx[r.id]
                       /\ r.block \in IndexedBlocks
                       /\ r.id \in Eligible(TxsOf(r.block))
    BY AnswerRecords
  <1>2. PICK b \in Blocks : \A c \in IndexedBlocks : c \in Lineage[b]
    BY IndexedLineage
  <1> HIDE DEF txs
  <1>3. \A r \in txs : r.block \in Lineage[b]
    BY <1>1, <1>2
  <1>4. \A r \in txs : r.id \in TxsOf(r.block)
    BY <1>1 DEF Eligible
  <1> QED
    BY <1>1, <1>3, <1>4 DEF txs

\* The answer by heights has transactions of blocks at these heights.
LEMMA RangeOfHeights ==
    ASSUME StoreInv, NEW from, NEW to, NEW filterSpent,
           NEW r \in TransactionData(db, TxidsBetween(db, from, to), filterSpent)
    PROVE  Height[r.block] \in from..to
  <1>1. TxidsBetween(db, from, to) \in SUBSET Txids
    BY DEF TxidsBetween
  <1>2. /\ r.id \in TxidsBetween(db, from, to)
        /\ r.block \in IndexedBlocks
        /\ r.id \in Eligible(TxsOf(r.block))
    BY <1>1, AnswerRecords
  <1>3. PICK h \in from..to : <<h, r.id>> \in db.heightIndex
    BY <1>2 DEF TxidsBetween
  <1>4. PICK c \in IndexedBlocks : h = Height[c] /\ r.id \in Eligible(TxsOf(c))
    BY <1>3 DEF StoreInv, StoreExact
  <1>5. c = r.block
    BY <1>2, <1>4, MinedOnce
  <1> QED
    BY <1>3, <1>4, <1>5

\* The answer by hash has transactions of that block.
LEMMA HashOfBlock ==
    ASSUME StoreInv, NEW b, NEW filterSpent,
           NEW r \in TransactionData(db, {t \in Txids : <<b, t>> \in db.hashIndex}, filterSpent)
    PROVE  r.block = b
  <1> DEFINE txids == {t \in Txids : <<b, t>> \in db.hashIndex}
  <1>1. txids \in SUBSET Txids
    OBVIOUS
  <1>2. /\ r.id \in txids
        /\ r.block \in IndexedBlocks
        /\ r.id \in Eligible(TxsOf(r.block))
    BY <1>1, AnswerRecords
  <1>3. b \in IndexedBlocks /\ r.id \in Eligible(TxsOf(b))
    BY <1>2 DEF StoreInv, StoreExact
  <1> QED
    BY <1>2, <1>3, MinedOnce

\* Data that lies where it was asked for is of one branch.
LEMMA DataOfAnswer ==
    ASSUME StoreInv, NEW u, NEW txids \in SUBSET Txids, NEW filterSpent,
           NEW txs, txs = TransactionData(db, txids, filterSpent),
           \A r \in txs : /\ u.route = "range" => Height[r.block] \in u.at..u.to
                          /\ u.route \in {"hash", "silent hash"} => r.block = u.at
    PROVE  OfOneBranch(u, txs)
  <1>1. /\ \E b \in Blocks : \A r \in txs : r.block \in Lineage[b]
        /\ \A r, s \in txs : r.id = s.id => r.block = s.block
        /\ \A r \in txs : r.id \in TxsOf(r.block)
    BY DataOneBranch
  <1>2. \A r \in txs : u.route = "range" => Height[r.block] \in u.at..u.to
    BY Zenon
  <1>3. \A r \in txs : u.route \in {"hash", "silent hash"} => r.block = u.at
    BY Zenon
  <1> QED
    BY <1>1, <1>2, <1>3, Zenon DEF OfOneBranch

\* What a handler answers from an exact store is of one branch.
LEMMA AnswerOneBranch ==
    ASSUME StoreInv, NEW u \in Urls
    PROVE  OfOneBranch(u, TransactionsIn(u, Answer(u, db)))
  <1> DEFINE F   == FilterSpent(u)
             txs == TransactionsIn(u, Answer(u, db))
  <1> SUFFICES OfOneBranch(u, txs)
    OBVIOUS
  <1> HIDE DEF txs
  <1>1. u.route \in Routes
    BY EndpointsAssumption
  <1>2. CASE txs = {}
    BY <1>2, LedgerTypes DEF OfOneBranch
  <1>3. CASE u.route \in {"timestamp", "latest"} \/ u.filter = "other"
    BY <1>2, <1>3 DEF txs, TransactionsIn, Answer, Failure
  <1>4. CASE u.filter # "other" /\ u.route \in {"height", "silent height"}
    <2>1. TxidsBetween(db, u.at, 10 * u.at) \in SUBSET Txids
      BY DEF TxidsBetween
    <2>2. txs = {} \/ txs = TransactionData(db, TxidsBetween(db, u.at, 10 * u.at), F)
      BY <1>4 DEF txs, TransactionsIn, Answer, AnswerHeight, Ok, Failure
    <2> QED
      BY <1>2, DataOfAnswer, <1>4, <2>1, <2>2
  <1>5. CASE u.filter # "other" /\ u.route = "range"
    <2>1. TxidsBetween(db, u.at, u.to) \in SUBSET Txids
      BY DEF TxidsBetween
    <2>2. txs = {} \/ txs = TransactionData(db, TxidsBetween(db, u.at, u.to), F)
      BY <1>5 DEF txs, TransactionsIn, Answer, AnswerRange, Ok, Failure
    <2>3. \A r \in TransactionData(db, TxidsBetween(db, u.at, u.to), F) :
              Height[r.block] \in u.at..u.to
      BY RangeOfHeights
    <2>4. txs # {} => \A r \in txs : /\ u.route = "range" => Height[r.block] \in u.at..u.to
                                     /\ u.route \in {"hash", "silent hash"} => r.block = u.at
      BY <1>5, <2>2, <2>3, Zenon
    <2> HIDE DEF F
    <2>5. CASE txs # {}
      <3> DEFINE txids == TxidsBetween(db, u.at, u.to)
      <3>1. txs = TransactionData(db, txids, F) /\ txids \in SUBSET Txids
        BY <2>1, <2>2, <2>5
      <3> HIDE DEF txids
      <3> QED
        BY <2>4, <2>5, <3>1, DataOfAnswer, Zenon
    <2> QED
      BY <1>2, <2>5
  <1>6. CASE u.filter # "other" /\ u.route \in {"hash", "silent hash"}
    <2> DEFINE txids == {t \in Txids : <<u.at, t>> \in db.hashIndex}
    <2>1. txs = TransactionData(db, txids, F)
      BY <1>6 DEF txs, TransactionsIn, Answer, AnswerHash, Ok
    <2>2. \A r \in TransactionData(db, txids, F) : r.block = u.at
      BY HashOfBlock
    <2>3. txids \in SUBSET Txids
      OBVIOUS
    <2> HIDE DEF txids
    <2> QED
      BY <1>6, <2>1, <2>2, <2>3, DataOfAnswer
  <1>7. CASE u.filter # "other" /\ u.route = "txid"
    <2>1. txs = {} \/ txs = TransactionData(db, {u.at} \cap Txids, F)
      BY <1>7 DEF txs, TransactionsIn, Answer, AnswerTxid, Ok, Failure
    <2>2. {u.at} \cap Txids \in SUBSET Txids
      OBVIOUS
    <2> QED
      BY <1>2, DataOfAnswer, <1>7, <2>1, <2>2
  <1> QED
    BY <1>1, <1>3, <1>4, <1>5, <1>6, <1>7 DEF Routes

-----------------------------------------------------------------------------
\* Every step keeps the cache's invariant: a change of the store makes no entry
\* younger than the change, a tick makes both older alike.
LEMMA CacheStep ==
    ASSUME CacheInv, StoreInv, [Next]_vars
    PROVE  CacheInv'
  <1> USE EndpointsAssumption
  <1>1. CASE StoreChanges
    BY <1>1 DEF StoreChanges, CacheInv
  <1>2. ASSUME NEW u \in Urls, Get(u)
        PROVE  CacheInv'
    <2>1. CASE UNCHANGED cache
      BY <1>2, <2>1 DEF Get, CacheInv
    <2>2. CASE /\ Cacheable(u, Answer(u, db))
               /\ cache' = With(u, [answer |-> Answer(u, db), age |-> 0])
      <3>1. Answer(u, db).status = "ok"
        BY <2>2 DEF Cacheable
      <3>2. OfOneBranch(u, TransactionsIn(u, Answer(u, db)))
        BY AnswerOneBranch
      <3>3. UNCHANGED <<db, quiet>>
        BY <1>2 DEF Get
      <3> QED
        BY <2>2, <3>1, <3>2, <3>3 DEF With, CacheInv
    <2> QED
      BY <1>2, <2>1, <2>2 DEF Get, Remember, CacheKey
  <1>3. CASE Tick
    <2>1. \A u \in DOMAIN cache' : /\ u \in DOMAIN cache /\ cache[u].age + 1 # TTL
                                   /\ cache'[u] = [answer |-> cache[u].answer, age |-> cache[u].age + 1]
      BY <1>3 DEF Tick, Expired
    <2>2. \A u \in DOMAIN cache' : /\ cache'[u].answer = cache[u].answer
                                   /\ cache'[u].age = cache[u].age + 1
      BY <2>1
    <2>3. UNCHANGED db /\ quiet' = IF quiet < TTL THEN quiet + 1 ELSE TTL
      BY <1>3 DEF Tick
    <2> QED
      BY <2>1, <2>2, <2>3 DEF CacheInv
  <1>4. CASE Restart
    BY <1>4 DEF Restart, Empty, CacheInv
  <1>5. CASE UNCHANGED vars
    BY <1>5 DEF vars, CacheInv
  <1> QED
    BY <1>1, <1>2, <1>3, <1>4, <1>5 DEF Next

\* The invariant of cache and store.
LEMMA CacheInvariance == Spec => [](CacheInv /\ StoreInv)
  <1>1. Init => CacheInv /\ StoreInv
    BY StoreInitInv, EndpointsAssumption DEF Init, Empty, CacheInv
  <1>2. CacheInv /\ StoreInv /\ [Next]_vars => (CacheInv /\ StoreInv)'
    BY CacheStep, StepOfStore, StoreStepExact
  <1> QED
    BY <1>1, <1>2, PTL DEF Spec

\* Answers are no older than cache.ttl, for every set of URLs and every TTL.
THEOREM Freshness == Spec => []WithinTtl
  <1>1. CacheInv => WithinTtl
    BY DEF CacheInv, WithinTtl, Served, Cached, CacheKey
  <1> QED
    BY <1>1, CacheInvariance, PTL

\* No client is told of a failure that is over.
THEOREM FailureCurrency == Spec => []FailuresAreCurrent
  <1>1. CacheInv => FailuresAreCurrent
    BY DEF CacheInv, FailuresAreCurrent, Served, Cached, CacheKey
  <1> QED
    BY <1>1, CacheInvariance, PTL

\* No answer mixes branches, whatever is rolled back while it is in the cache.
THEOREM AnswerIntegrity == Spec => []AnswersOneBranch
  <1>1. CacheInv /\ StoreInv => AnswersOneBranch
    <2> SUFFICES ASSUME CacheInv, StoreInv, NEW u \in Urls
                 PROVE  OfOneBranch(u, TransactionsIn(u, Served(u)))
      BY DEF AnswersOneBranch
    <2>1. CASE Cached(u)
      BY <2>1 DEF CacheInv, Served, Cached, CacheKey
    <2>2. CASE ~Cached(u)
      BY <2>2, AnswerOneBranch DEF Served
    <2> QED
      BY <2>1, <2>2
  <1> QED
    BY <1>1, CacheInvariance, PTL

=============================================================================
