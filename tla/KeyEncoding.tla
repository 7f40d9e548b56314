----------------------------- MODULE KeyEncoding -----------------------------
(***************************************************************************)
(* The keys of the LMDB store (src/storage/key-encoding.ts) in the order   *)
(* LMDB keeps them, and the ranges the reads scan.  A key is a sequence:   *)
(* its prefix's place among the prefixes, then its fields.  A 32-bit field *)
(* is one number, as big-endian numbers of one width are ordered like what *)
(* they stand for; a hash or txid is its bytes, as ranges increment them.  *)
(***************************************************************************)
EXTENDS Ledger

CONSTANTS
    Radix,       \* values of a byte: 256
    DigestSize,  \* bytes of a hash or a txid: 32
    Hash,        \* Hash[b]: the bytes of b's hash
    Txid,        \* Txid[t]: the bytes of t's txid
    MaxUInt32    \* the greatest number four bytes hold

Bytes == 0..(Radix - 1)
Digests == [1..DigestSize -> Bytes]
UInt32 == 0..MaxUInt32

ASSUME DigestsAreUnique ==
    /\ Radix \in Nat \ {0, 1} /\ DigestSize \in Nat \ {0} /\ MaxUInt32 \in Nat
    /\ Hash \in [Blocks -> Digests] /\ \A b, c \in Blocks : Hash[b] = Hash[c] => b = c
    /\ Txid \in [Txids -> Digests] /\ \A t, u \in Txids : Txid[t] = Txid[u] => t = u

\* A write of a number that four bytes cannot hold throws a RangeError: those of
\* the chain can be held.
Fits(n) == n \in UInt32

ASSUME FieldsFit ==
    /\ \A b \in Blocks : Fits(Height[b]) /\ Fits(Time[b])
    /\ \A t \in Txids : \A v \in Outputs[t] : Fits(v)

-----------------------------------------------------------------------------
(* Keys *)

\* The prefixes in the order of their bytes ("bs:" first, "tx:" last).  They all
\* end with ":", so the bytes of one followed by ";" sort above its keys only.
BLOCK_STATE == 0
HASH_IDX    == 2
TIME_IDX    == 4
HEIGHT_IDX  == 6
UNSPENT_IDX == 8
OP_STATE    == 10
OUTPUT      == 12
TX          == 14

encodeTxKey(txid)                 == <<TX>> \o txid
encodeOutputKey(txid, vout)       == <<OUTPUT>> \o txid \o <<vout>>
encodeHeightIndexKey(height, txid) == <<HEIGHT_IDX, height>> \o txid
encodeHashIndexKey(hash, txid)    == <<HASH_IDX>> \o hash \o txid
encodeTimeIndexKey(time, height)  == <<TIME_IDX, time, height>>
encodeUnspentIndexKey(txid, vout) == <<UNSPENT_IDX>> \o txid \o <<vout>>
encodeBlockStateKey(height)       == <<BLOCK_STATE, height>>
encodeOpStateKey                  == <<OP_STATE>>  \* one provider, one id

DigestAt(key, i) == SubSeq(key, i, i + DigestSize - 1)

decodeOutputKey(key)      == [txid |-> DigestAt(key, 2), vout |-> key[DigestSize + 2]]
decodeHeightIndexKey(key) == [height |-> key[2], txid |-> DigestAt(key, 3)]
decodeHashIndexKey(key)   == [blockHash |-> DigestAt(key, 2), txid |-> DigestAt(key, DigestSize + 2)]
decodeTimeIndexKey(key)   == [blockTime |-> key[2], blockHeight |-> key[3]]
decodeBlockStateKey(key)  == key[2]

\* decodeUnspentIndexKey is decodeOutputKey under another prefix.
decodeUnspentIndexKey(key) == decodeOutputKey(key)

-----------------------------------------------------------------------------
(* Order *)

\* The bytes compared from the left, a key before those it begins.
Before(k, l) ==
    \/ \E i \in DOMAIN k \cap DOMAIN l :
          k[i] < l[i] /\ \A j \in 1..(i - 1) : k[j] = l[j]
    \/ Len(k) < Len(l) /\ \A j \in DOMAIN k : k[j] = l[j]

InRange(range, key) == ~Before(key, range.gte) /\ Before(key, range.lt)

\* A reverse scan starts at the upper bound, which it includes, and ends at the
\* lower one, which it leaves out.
InReverseRange(range, key) == Before(range.gte, key) /\ ~Before(range.lt, key)

prefixUpperBound(prefix) == <<prefix + 1>>

\* Fault: the last byte alone is incremented.
IncrementLastByte(bytes) == [bytes EXCEPT ![Len(bytes)] = (@ + 1) % Radix]

\* The digest after bytes: the last byte below the greatest is incremented and
\* those to its right, all at the greatest, become 0.  Without one it throws.
Incrementable(bytes) == \E i \in DOMAIN bytes : bytes[i] < Radix - 1

bigEndianIncrement(bytes) ==
    LET last == CHOOSE i \in DOMAIN bytes :
                    /\ bytes[i] < Radix - 1
                    /\ \A j \in (i + 1)..Len(bytes) : bytes[j] = Radix - 1
    IN  [j \in DOMAIN bytes |->
            IF j < last THEN bytes[j] ELSE IF j = last THEN bytes[j] + 1 ELSE 0]

\* The ranges of a hash or a txid end before its successor: the one of 2^256 that
\* has none is not met.
ASSUME DigestsHaveSuccessors ==
    /\ \A b \in Blocks : Incrementable(Hash[b])
    /\ \A t \in Txids : Incrementable(Txid[t])

-----------------------------------------------------------------------------
(* Ranges *)

singleHeightRange(height) ==
    [gte |-> <<HEIGHT_IDX, height>>, lt |-> <<HEIGHT_IDX, height + 1>>]

\* Fault: the last height of the span is left out.
HeightSpanShort(start, end) ==
    [gte |-> <<HEIGHT_IDX, start>>, lt |-> <<HEIGHT_IDX, end>>]

heightSpanRange(start, end) ==
    [gte |-> <<HEIGHT_IDX, start>>, lt |-> <<HEIGHT_IDX, end + 1>>]

hashIndexRange(hash) ==
    [gte |-> <<HASH_IDX>> \o hash, lt |-> <<HASH_IDX>> \o bigEndianIncrement(hash)]

outputPrefixRange(txid) ==
    [gte |-> <<OUTPUT>> \o txid, lt |-> <<OUTPUT>> \o bigEndianIncrement(txid)]

unspentPrefixRange(txid) ==
    [gte |-> <<UNSPENT_IDX>> \o txid, lt |-> <<UNSPENT_IDX>> \o bigEndianIncrement(txid)]

blockStateRange == [gte |-> <<BLOCK_STATE>>, lt |-> prefixUpperBound(BLOCK_STATE)]

\* Fault: blocks with the given timestamp itself are included.
TimeIndexSeekAt(timestamp) ==
    [gte |-> <<TIME_IDX, timestamp>>, lt |-> prefixUpperBound(TIME_IDX)]

timeIndexSeek(timestamp) ==
    [gte |-> <<TIME_IDX, timestamp + 1>>, lt |-> prefixUpperBound(TIME_IDX)]

=============================================================================
