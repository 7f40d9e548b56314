------------------------------ MODULE Endpoints ------------------------------
(***************************************************************************)
(* The HTTP endpoints over a store that takes in and rolls back blocks     *)
(* (transactions.controller.ts, silent-blocks.controller.ts) and the       *)
(* response cache in front of them.  The reads of one request run without  *)
(* an await between them, so that a request is one step.  A cached answer  *)
(* is kept for cache.ttl under the request's whole URL, whatever happens   *)
(* to the store meanwhile.                                                 *)
(***************************************************************************)
EXTENDS BlockStore

CONSTANTS
    Urls,            \* the URLs that clients ask for
    MAX_BLOCK_RANGE,
    MaxUInt32,       \* the greatest height or timestamp a key holds
    TTL,             \* cache.ttl, in ticks of the clock
    MaxCached        \* bound: answers in the cache at one time

VARIABLES
    cache,  \* cache[u]: the answer kept for u, and its age in ticks
    quiet   \* ticks since the store changed, up to TTL.  Only properties read it

vars == <<db, cache, quiet>>

Filters == {"absent", "false", "true", "other"}

\* at is a height, a block, a txid or a timestamp, or the first height of a
\* range, the other routes' to is not used.
Url(route, at, to, filter) == [route |-> route, at |-> at, to |-> to, filter |-> filter]

Routes == {"height", "range", "hash", "txid", "timestamp", "latest",
           "silent height", "silent hash"}

ASSUME EndpointsAssumption ==
    /\ TTL \in Nat \ {0} /\ MAX_BLOCK_RANGE \in Nat /\ MaxUInt32 \in Nat
    /\ \A u \in Urls : u.route \in Routes /\ u.filter \in Filters

-----------------------------------------------------------------------------
(* Handlers: the answer to a URL from the store d *)

Ok(body)  == [status |-> "ok", body |-> body]

\* "bad request" is from a pipe or a check, "not found" from a handler, "error"
\* the RangeError of a number that a key has no room for.
Failure(status) == [status |-> status, body |-> {}]

FilterSpent(u) == u.filter = "true"

\* A transaction as an answer shows it, with its block's hash and height.
TransactionData(d, txids, filterSpent) ==
    {[id |-> r.id, block |-> d.tx[r.id], outputs |-> r.outputs] :
        r \in FetchTransactions(d, txids, filterSpent)}

TxidsBetween(d, from, to) == {t \in Txids : \E h \in from..to : <<h, t>> \in d.heightIndex}

\* A height from the path has no pipe: it is a string, and its "height + 1"
\* appends a digit.  The range of keys runs from the height to ten times it.
AnswerHeight(d, u) ==
    IF u.at < 0 \/ 10 * u.at + 1 > MaxUInt32 THEN Failure("error")
    ELSE Ok(TransactionData(d, TxidsBetween(d, u.at, 10 * u.at), FilterSpent(u)))

AnswerRange(d, u) ==
    IF \/ u.at < 0 \/ u.to < 0 \/ u.at > u.to
       \/ u.to - u.at + 1 > MAX_BLOCK_RANGE
    THEN Failure("bad request")
    ELSE IF u.to + 1 > MaxUInt32 THEN Failure("error")
    ELSE Ok(TransactionData(d, TxidsBetween(d, u.at, u.to), FilterSpent(u)))

AnswerHash(d, u) ==
    Ok(TransactionData(d, {t \in Txids : <<u.at, t>> \in d.hashIndex}, FilterSpent(u)))

AnswerTxid(d, u) ==
    LET found == TransactionData(d, {u.at} \cap Txids, FilterSpent(u))
    IN  IF found = {} THEN Failure("not found") ELSE Ok(found)

\* The first entry of the time index past the timestamp: the scan starts at the
\* timestamp plus one, which is the number that must fit, so that -1 is answered.
AnswerTimestamp(d, u) ==
    LET later == {e \in d.timeIndex : e[1] > u.at}
        first == CHOOSE e \in later :
                    \A f \in later : e[1] < f[1] \/ (e[1] = f[1] /\ e[2] <= f[2])
    IN  IF u.at + 1 \notin 0..MaxUInt32 THEN Failure("error")
        ELSE IF later = {} THEN Failure("not found")
        ELSE Ok({first[2]})

\* blockHeight ?? 0
AnswerLatest(d) ==
    LET b == GetCurrentBlockState(d) IN Ok({IF b = NoBlock THEN 0 ELSE Height[b]})

\* The routes of silent-block encode what those of transactions answer.
Answer(u, d) ==
    CASE u.filter = "other" -> Failure("bad request")
      [] OTHER ->
         CASE u.route \in {"height", "silent height"} -> AnswerHeight(d, u)
           [] u.route = "range"                       -> AnswerRange(d, u)
           [] u.route \in {"hash", "silent hash"}     -> AnswerHash(d, u)
           [] u.route = "txid"                        -> AnswerTxid(d, u)
           [] u.route = "timestamp"                   -> AnswerTimestamp(d, u)
           [] u.route = "latest"                      -> AnswerLatest(d)

-----------------------------------------------------------------------------
(* The cache *)

\* Fault: the query string is not part of the key.
CacheKeyPath(u) == [u EXCEPT !.filter = "absent"]

\* The interceptor's key is the URL with its query string.
CacheKey(u) == u

\* Fault: errors are kept as well.
CacheableAny(u, answer) == u.route \notin {"silent height", "silent hash"}

\* Only what a handler returns is kept: not an error, and not a silent block,
\* which its handler sends itself.
Cacheable(u, answer) ==
    /\ answer.status = "ok"
    /\ u.route \notin {"silent height", "silent hash"}

Cached(u) == CacheKey(u) \in DOMAIN cache

\* What a client that asks for u now gets.
Served(u) == IF Cached(u) THEN cache[CacheKey(u)].answer ELSE Answer(u, db)

With(key, entry) == [k \in DOMAIN cache \cup {key} |-> IF k = key THEN entry ELSE cache[k]]

\* Fault: a hit starts the entry's time again.
RememberSliding(u) ==
    IF Cached(u) \/ Cacheable(u, Answer(u, db))
    THEN cache' = With(CacheKey(u), [answer |-> Served(u), age |-> 0])
    ELSE UNCHANGED cache

\* A hit leaves the entry's time as it was.
Remember(u) ==
    IF ~Cached(u) /\ Cacheable(u, Answer(u, db))
    THEN cache' = With(CacheKey(u), [answer |-> Answer(u, db), age |-> 0])
    ELSE UNCHANGED cache

Expired(key) == cache[key].age + 1 = TTL

-----------------------------------------------------------------------------
Empty == [k \in {} |-> 0]

Init == StoreInit /\ cache = Empty /\ quiet = TTL

\* A batch is committed: nothing tells the cache.
StoreChanges ==
    /\ StoreNext("saved")
    /\ quiet' = 0
    /\ UNCHANGED cache

Get(u) ==
    /\ Cardinality(DOMAIN cache) < MaxCached \/ Cached(u)
    /\ Remember(u)
    /\ UNCHANGED <<db, quiet>>

Tick ==
    /\ cache' = [k \in {l \in DOMAIN cache : ~Expired(l)} |->
                    [answer |-> cache[k].answer, age |-> cache[k].age + 1]]
    /\ quiet' = IF quiet < TTL THEN quiet + 1 ELSE TTL
    /\ UNCHANGED db

\* The cache is in memory, the store is not.
Restart ==
    /\ cache' = Empty
    /\ UNCHANGED <<db, quiet>>

Next ==
    \/ StoreChanges
    \/ \E u \in Urls : Get(u)
    \/ Tick
    \/ Restart

Spec == Init /\ [][Next]_vars

\* The clock goes on.
FairSpec == Spec /\ WF_vars(Tick)

-----------------------------------------------------------------------------
(* Properties *)

\* An entry younger than the last change of the store is what the store says
\* now, and so is every answer once the store has been unchanged for cache.ttl:
\* no answer is that of another request, none is older than cache.ttl.
WithinTtl ==
    \A u \in Urls :
        (Cached(u) => cache[CacheKey(u)].age < quiet) => Served(u) = Answer(u, db)

\* What was missing or refused once is looked up again: a client that asks for a
\* transaction too early, or while the store cannot answer, is not told so
\* after it is there.
FailuresAreCurrent ==
    \A u \in Urls : Served(u).status # "ok" => Served(u) = Answer(u, db)

TransactionsIn(u, answer) ==
    IF u.route \in {"timestamp", "latest"} THEN {} ELSE answer.body

OfOneBranch(u, txs) ==
    /\ \E b \in Blocks : \A r \in txs : r.block \in Lineage[b]
    /\ \A r, s \in txs : r.id = s.id => r.block = s.block
    /\ \A r \in txs :
          /\ r.id \in TxsOf(r.block)
          /\ u.route = "range" => Height[r.block] \in u.at..u.to
          /\ u.route \in {"hash", "silent hash"} => r.block = u.at

\* The transactions of one answer, cached or not, are of blocks of one branch,
\* of the block or the heights asked for, each once: never a transaction of a
\* rolled back block next to one of the branch that replaced it.
AnswersOneBranch == \A u \in Urls : OfOneBranch(u, TransactionsIn(u, Served(u)))

\* A store that stops changing is soon what every client sees, however often
\* they ask meanwhile.
Converges ==
    <>[][FALSE]_db => <>[](\A u \in Urls : Served(u) = Answer(u, db))

-----------------------------------------------------------------------------
(* What a comment promises *)

\* key-encoding.ts:234: "Height index range: all txids at a single block height".
HeightAnswersExact ==
    \A u \in Urls : u.route \in {"height", "silent height"} =>
        \A r \in TransactionsIn(u, Served(u)) : Height[r.block] = u.at

=============================================================================
