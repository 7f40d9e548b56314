------------------------- MODULE KeyValueStore_proofs -------------------------
(***************************************************************************)
(* The keys are one for each thing kept, the ranges of the scans hold the  *)
(* keys they are meant for and no others, the scans answer as the abstract *)
(* store does, and a batch that is committed is a step of BlockStore.      *)
(* The variable db that comes with the facts about BlockStore is not used: *)
(* the store here is Decoded.                                              *)
(***************************************************************************)
EXTENDS KeyValueStore, BlockStore_proofs, SequenceTheorems

-----------------------------------------------------------------------------
(* Keys *)

\* A digest is a sequence of bytes.
LEMMA DigestType ==
    ASSUME NEW d \in Digests
    PROVE  /\ d \in Seq(Nat) /\ Len(d) = DigestSize /\ DigestSize \in Nat \ {0}
           /\ \A i \in 1..DigestSize : d[i] \in Bytes /\ d[i] \in Nat
  <1>1. DigestSize \in Nat \ {0} /\ Radix \in Nat
    BY DigestsAreUnique
  <1>2. d \in [1..DigestSize -> Nat] /\ \A i \in 1..DigestSize : d[i] \in Bytes
    BY <1>1 DEF Digests, Bytes
  <1>3. d \in Seq(Nat)
    BY <1>1, <1>2, SeqDef
  <1> QED
    BY <1>1, <1>2, <1>3

\* A concatenation, by the places of its parts.
LEMMA Concatenated ==
    ASSUME NEW s \in Seq(Nat), NEW t \in Seq(Nat)
    PROVE  /\ s \o t \in Seq(Nat) /\ Len(s \o t) = Len(s) + Len(t)
           /\ \A i \in 1..Len(s) : (s \o t)[i] = s[i]
           /\ \A i \in 1..Len(t) : (s \o t)[Len(s) + i] = t[i]
  <1>1. /\ s \o t \in Seq(Nat) /\ Len(s \o t) = Len(s) + Len(t)
        /\ \A i \in 1..Len(s) + Len(t) : (s \o t)[i] = IF i <= Len(s) THEN s[i] ELSE t[i - Len(s)]
    BY ConcatProperties
  <1>2. \A i \in 1..Len(s) : i \in 1..Len(s) + Len(t) /\ i <= Len(s)
    OBVIOUS
  <1>3. \A i \in 1..Len(t) :
            Len(s) + i \in 1..Len(s) + Len(t) /\ ~(Len(s) + i <= Len(s)) /\ Len(s) + i - Len(s) = i
    OBVIOUS
  <1> QED
    BY <1>1, <1>2, <1>3

\* A prefix followed by a digest.
LEMMA PrefixedDigest ==
    ASSUME NEW p \in Nat, NEW d \in Digests, NEW k, k = <<p>> \o d
    PROVE  /\ k \in Seq(Nat) /\ Len(k) = DigestSize + 1 /\ k[1] = p
           /\ \A i \in 1..DigestSize : k[i + 1] = d[i]
  <1>1. d \in Seq(Nat) /\ Len(d) = DigestSize /\ DigestSize \in Nat \ {0}
    BY DigestType
  <1> DEFINE first == <<p>>
  <1>2. first \in Seq(Nat) /\ Len(first) = 1 /\ first[1] = p /\ k = first \o d
    OBVIOUS
  <1> HIDE DEF first
  <1>3. /\ k \in Seq(Nat) /\ Len(k) = Len(first) + Len(d)
        /\ \A i \in 1..Len(first) : k[i] = first[i]
        /\ \A i \in 1..Len(d) : k[Len(first) + i] = d[i]
    BY <1>1, <1>2, Concatenated
  <1> QED
    BY <1>1, <1>2, <1>3

\* An output's keys: the prefix, the txid, the vout.
LEMMA OutputShape ==
    ASSUME NEW p \in Nat, NEW d \in Digests, NEW v \in Nat
    PROVE  \A k : k = <<p>> \o d \o <<v>> =>
              /\ k \in Seq(Nat) /\ Len(k) = DigestSize + 2 /\ k[1] = p
              /\ \A i \in 1..DigestSize : k[i + 1] = d[i]
              /\ k[DigestSize + 2] = v
  <1>0. SUFFICES ASSUME NEW k, k = <<p>> \o d \o <<v>>
                 PROVE  /\ k \in Seq(Nat) /\ Len(k) = DigestSize + 2 /\ k[1] = p
                        /\ \A i \in 1..DigestSize : k[i + 1] = d[i]
                        /\ k[DigestSize + 2] = v
    OBVIOUS
  <1>1. DigestSize \in Nat \ {0}
    BY DigestType
  <1>8. PICK first : first = <<p>> \o d
    OBVIOUS
  <1> DEFINE last == <<v>>
  <1>2. last \in Seq(Nat) /\ Len(last) = 1 /\ last[1] = v
    OBVIOUS
  <1>5. k = first \o last
    BY <1>0, <1>8
  <1> HIDE DEF last
  <1>a. \A f : f = <<p>> \o d =>
            /\ f \in Seq(Nat) /\ Len(f) = DigestSize + 1 /\ f[1] = p
            /\ \A i \in 1..DigestSize : f[i + 1] = d[i]
    BY PrefixedDigest, Zenon
  <1>3. /\ first \in Seq(Nat) /\ Len(first) = DigestSize + 1 /\ first[1] = p
        /\ \A i \in 1..DigestSize : first[i + 1] = d[i]
    BY <1>a, <1>8, Zenon
  <1>4. /\ k \in Seq(Nat) /\ Len(k) = Len(first) + Len(last)
        /\ \A i \in 1..Len(first) : k[i] = first[i]
        /\ \A i \in 1..Len(last) : k[Len(first) + i] = last[i]
    BY <1>2, <1>3, <1>5, Concatenated
  <1>6. /\ k \in Seq(Nat) /\ Len(k) = DigestSize + 2
        /\ k[1] = first[1] /\ k[DigestSize + 1 + 1] = last[1]
        /\ \A i \in 1..DigestSize : k[i + 1] = first[i + 1]
    BY <1>1, <1>2, <1>3, <1>4
  <1>7. DigestSize + 1 + 1 = DigestSize + 2
    BY <1>1
  <1> QED
    BY <1>2, <1>3, <1>6, <1>7

\* A key of the hash index: the prefix, the hash, the txid.
LEMMA HashShape ==
    ASSUME NEW p \in Nat, NEW d \in Digests, NEW e \in Digests
    PROVE  \A k : k = <<p>> \o d \o e =>
              /\ k \in Seq(Nat) /\ Len(k) = 2 * DigestSize + 1 /\ k[1] = p
              /\ \A i \in 1..DigestSize : k[i + 1] = d[i] /\ k[i + (DigestSize + 1)] = e[i]
  <1>0. SUFFICES ASSUME NEW k, k = <<p>> \o d \o e
                 PROVE  /\ k \in Seq(Nat) /\ Len(k) = 2 * DigestSize + 1 /\ k[1] = p
                        /\ \A i \in 1..DigestSize :
                              k[i + 1] = d[i] /\ k[i + (DigestSize + 1)] = e[i]
    OBVIOUS
  <1>1. e \in Seq(Nat) /\ Len(e) = DigestSize /\ DigestSize \in Nat \ {0}
    BY DigestType
  <1>9. PICK first : first = <<p>> \o d
    OBVIOUS
  <1>2. k = first \o e
    BY <1>0, <1>9
  <1>a. \A f : f = <<p>> \o d =>
            /\ f \in Seq(Nat) /\ Len(f) = DigestSize + 1 /\ f[1] = p
            /\ \A i \in 1..DigestSize : f[i + 1] = d[i]
    BY PrefixedDigest, Zenon
  <1>3. /\ first \in Seq(Nat) /\ Len(first) = DigestSize + 1 /\ first[1] = p
        /\ \A i \in 1..DigestSize : first[i + 1] = d[i]
    BY <1>a, <1>9, Zenon
  <1>4. /\ k \in Seq(Nat) /\ Len(k) = Len(first) + Len(e)
        /\ \A i \in 1..Len(first) : k[i] = first[i]
        /\ \A i \in 1..Len(e) : k[Len(first) + i] = e[i]
    BY <1>1, <1>2, <1>3, Concatenated
  <1>5. /\ k \in Seq(Nat) /\ Len(k) = 2 * DigestSize + 1 /\ k[1] = first[1]
        /\ \A i \in 1..DigestSize : k[i + 1] = first[i + 1]
    BY <1>1, <1>3, <1>4
  <1>6. \A i \in 1..DigestSize : k[(DigestSize + 1) + i] = e[i]
    BY <1>1, <1>3, <1>4
  <1>7. \A i \in 1..DigestSize : (DigestSize + 1) + i = i + (DigestSize + 1)
    BY <1>1
  <1>8. \A i \in 1..DigestSize : k[i + (DigestSize + 1)] = e[i]
    BY <1>6, <1>7
  <1> QED
    BY <1>3, <1>5, <1>8

\* Digests with the same bytes are the same.
LEMMA SameDigest ==
    ASSUME NEW d \in Digests, NEW e \in Digests, \A i \in 1..DigestSize : d[i] = e[i]
    PROVE  d = e
  <1>1. d = [i \in 1..DigestSize |-> d[i]] /\ e = [i \in 1..DigestSize |-> e[i]]
    BY DEF Digests
  <1> QED
    BY <1>1

\* The digest that lies in a key from place i on.
LEMMA DigestAtIs ==
    ASSUME NEW k, NEW i \in Nat \ {0}, NEW d \in Digests,
           \A j \in 1..DigestSize : k[j + (i - 1)] = d[j]
    PROVE  DigestAt(k, i) = d
  <1>1. /\ d \in Seq(Nat) /\ Len(d) = DigestSize /\ DigestSize \in Nat \ {0}
        /\ \A j \in 1..DigestSize : d[j] \in Bytes
    BY DigestType
  <1> DEFINE n == i + DigestSize - 1
  <1>2. /\ n \in Int /\ i <= n /\ n - i + 1 = DigestSize
        /\ \A j \in i..n : j - (i - 1) \in 1..DigestSize /\ j = (j - (i - 1)) + (i - 1)
        /\ \A j \in 1..DigestSize : i + j - 1 = j + (i - 1)
    BY <1>1
  <1>3. \A j \in i..n : k[j] \in Bytes
    BY <1>1, <1>2
  <1> DEFINE e == SubSeq(k, i, n)
  <1>4. DigestAt(k, i) = e
    BY DEF DigestAt
  <1> HIDE DEF n, e
  <1>5. /\ e \in Seq(Bytes) /\ Len(e) = DigestSize
        /\ \A j \in 1..DigestSize : e[j] = k[i + j - 1]
    BY <1>2, <1>3, SubSeqProperties DEF e
  <1>6. \A j \in 1..DigestSize : e[j] = d[j]
    BY <1>2, <1>5
  <1>7. e \in Digests
    BY <1>1, <1>5 DEF Digests
  <1> QED
    BY <1>4, <1>6, <1>7, SameDigest

\* The key of a transaction's record.
LEMMA TxKeyIs ==
    ASSUME NEW d \in Digests
    PROVE  /\ encodeTxKey(d)[1] = TX
           /\ \A i \in 1..DigestSize : encodeTxKey(d)[i + 1] = d[i]
  <1>1. PICK p \in Nat : p = TX
    BY DEF TX
  <1>2. PICK k : k = <<p>> \o d
    OBVIOUS
  <1>3. \A f : f = <<p>> \o d =>
            /\ f \in Seq(Nat) /\ Len(f) = DigestSize + 1 /\ f[1] = p
            /\ \A i \in 1..DigestSize : f[i + 1] = d[i]
    BY PrefixedDigest, Zenon
  <1>4. k[1] = p /\ \A i \in 1..DigestSize : k[i + 1] = d[i]
    BY <1>2, <1>3, Zenon
  <1>5. encodeTxKey(d) = k
    BY <1>1, <1>2 DEF encodeTxKey
  <1> QED
    BY <1>1, <1>4, <1>5, Zenon

\* The keys of an output, with its prefix.
LEMMA OutputKeyIs ==
    ASSUME NEW d \in Digests, NEW v \in Nat, NEW p \in Nat
    PROVE  \A k : k = <<p>> \o d \o <<v>> =>
              /\ k \in Seq(Nat) /\ Len(k) = DigestSize + 2 /\ k[1] = p
              /\ \A i \in 1..DigestSize : k[i + 1] = d[i]
              /\ decodeOutputKey(k) = [txid |-> d, vout |-> v]
  <1>1. SUFFICES ASSUME NEW k, k = <<p>> \o d \o <<v>>
                 PROVE  /\ k \in Seq(Nat) /\ Len(k) = DigestSize + 2 /\ k[1] = p
                        /\ \A i \in 1..DigestSize : k[i + 1] = d[i]
                        /\ decodeOutputKey(k) = [txid |-> d, vout |-> v]
    OBVIOUS
  <1>a. \A f : f = <<p>> \o d \o <<v>> =>
              /\ f \in Seq(Nat) /\ Len(f) = DigestSize + 2 /\ f[1] = p
              /\ \A i \in 1..DigestSize : f[i + 1] = d[i]
              /\ f[DigestSize + 2] = v
    BY OutputShape, Zenon
  <1>2. /\ k \in Seq(Nat) /\ Len(k) = DigestSize + 2 /\ k[1] = p
        /\ \A i \in 1..DigestSize : k[i + 1] = d[i]
        /\ k[DigestSize + 2] = v
    BY <1>1, <1>a, Zenon
  <1>3. \A j \in 1..DigestSize : k[j + (2 - 1)] = d[j]
    BY <1>2
  <1>4. DigestAt(k, 2) = d
    BY <1>3, DigestAtIs
  <1> QED
    BY <1>2, <1>4 DEF decodeOutputKey

\* A key of the height index.
LEMMA HeightKeyIs ==
    ASSUME NEW h \in Nat, NEW d \in Digests
    PROVE  LET k == encodeHeightIndexKey(h, d)
           IN  /\ k \in Seq(Nat) /\ Len(k) = DigestSize + 2 /\ k[1] = HEIGHT_IDX /\ k[2] = h
               /\ decodeHeightIndexKey(k) = [height |-> h, txid |-> d]
  <1>1. PICK p \in Nat : p = HEIGHT_IDX
    BY DEF HEIGHT_IDX
  <1> DEFINE first == <<p, h>>
             k     == first \o d
  <1>2. first \in Seq(Nat) /\ Len(first) = 2 /\ first[1] = p /\ first[2] = h
    OBVIOUS
  <1>7. encodeHeightIndexKey(h, d) = k
    BY <1>1 DEF encodeHeightIndexKey
  <1>8. k = first \o d
    OBVIOUS
  <1> HIDE DEF first, k
  <1>9. d \in Seq(Nat) /\ Len(d) = DigestSize /\ DigestSize \in Nat \ {0}
    BY DigestType
  <1>a. /\ k \in Seq(Nat) /\ Len(k) = Len(first) + Len(d)
        /\ \A i \in 1..Len(first) : k[i] = first[i]
        /\ \A i \in 1..Len(d) : k[Len(first) + i] = d[i]
    BY <1>2, <1>8, <1>9, Concatenated
  <1>3. /\ k \in Seq(Nat) /\ Len(k) = DigestSize + 2 /\ k[1] = p /\ k[2] = h
        /\ \A i \in 1..DigestSize : k[i + 2] = d[i]
    BY <1>2, <1>9, <1>a
  <1>4. \A j \in 1..DigestSize : k[j + (3 - 1)] = d[j]
    BY <1>3
  <1>5. DigestAt(k, 3) = d
    BY <1>4, DigestAtIs
  <1>6. decodeHeightIndexKey(k) = [height |-> h, txid |-> d]
    BY <1>3, <1>5 DEF decodeHeightIndexKey
  <1> QED
    BY <1>1, <1>3, <1>6, <1>7, Zenon

\* A key of the hash index.
LEMMA HashKeyIs ==
    ASSUME NEW d \in Digests, NEW e \in Digests
    PROVE  LET k == encodeHashIndexKey(d, e)
           IN  /\ k \in Seq(Nat) /\ Len(k) = 2 * DigestSize + 1 /\ k[1] = HASH_IDX
               /\ \A i \in 1..DigestSize : k[i + 1] = d[i]
               /\ decodeHashIndexKey(k) = [blockHash |-> d, txid |-> e]
  <1>0. PICK p \in Nat : p = HASH_IDX
    BY DEF HASH_IDX
  <1>1. DigestSize \in Nat
    BY DigestType
  <1>2. PICK k : k = <<p>> \o d \o e
    OBVIOUS
  <1>a. \A f : f = <<p>> \o d \o e =>
            /\ f \in Seq(Nat) /\ Len(f) = 2 * DigestSize + 1 /\ f[1] = p
            /\ \A i \in 1..DigestSize : f[i + 1] = d[i] /\ f[i + (DigestSize + 1)] = e[i]
    BY HashShape, Zenon
  <1>3. /\ k \in Seq(Nat) /\ Len(k) = 2 * DigestSize + 1 /\ k[1] = p
        /\ \A i \in 1..DigestSize : k[i + 1] = d[i] /\ k[i + (DigestSize + 1)] = e[i]
    BY <1>2, <1>a, Zenon
  <1>4. DigestSize + 2 - 1 = DigestSize + 1
    BY <1>1
  <1>5. \A j \in 1..DigestSize : k[j + (2 - 1)] = d[j]
    BY <1>3
  <1>9. \A j \in 1..DigestSize : k[j + ((DigestSize + 2) - 1)] = e[j]
    BY <1>1, <1>3
  <1>6. DigestAt(k, 2) = d /\ DigestAt(k, DigestSize + 2) = e
    BY <1>1, <1>5, <1>9, DigestAtIs
  <1>7. decodeHashIndexKey(k) = [blockHash |-> d, txid |-> e]
    BY <1>6 DEF decodeHashIndexKey
  <1>8. encodeHashIndexKey(d, e) = k
    BY <1>0, <1>2 DEF encodeHashIndexKey
  <1> QED
    BY <1>0, <1>3, <1>7, <1>8, Zenon

-----------------------------------------------------------------------------
(* One key for each thing kept *)

TxKey(t)        == encodeTxKey(Txid[t])
OutKey(o)       == encodeOutputKey(Txid[o[1]], o[2])
UnspentKey(o)   == encodeUnspentIndexKey(Txid[o[1]], o[2])
HeightKey(h, t) == encodeHeightIndexKey(h, Txid[t])
HashKey(b, t)   == encodeHashIndexKey(Hash[b], Txid[t])

\* What has an output's keys, whether index() saves it or not.
AnyOutpoint == Txids \X Nat

LEMMA OutpointsKeyed == Outpoints \subseteq AnyOutpoint
  BY LedgerTypes DEF Outpoints, AnyOutpoint

\* The txids and hashes are digests.
LEMMA NamesAreDigests ==
    /\ \A t \in Txids : Txid[t] \in Digests
    /\ \A b \in Blocks : Hash[b] \in Digests
  BY DigestsAreUnique

\* The keys of an output and of its entry in the unspent index.
LEMMA OutpointKeysAre ==
    ASSUME NEW o \in AnyOutpoint
    PROVE  LET k == OutKey(o)
               l == UnspentKey(o)
           IN  /\ k \in Seq(Nat) /\ Len(k) = DigestSize + 2 /\ k[1] = OUTPUT
               /\ l \in Seq(Nat) /\ Len(l) = DigestSize + 2 /\ l[1] = UNSPENT_IDX
               /\ \A i \in 1..DigestSize : k[i + 1] = Txid[o[1]][i] /\ l[i + 1] = Txid[o[1]][i]
               /\ decodeOutputKey(k) = [txid |-> Txid[o[1]], vout |-> o[2]]
               /\ decodeOutputKey(l) = [txid |-> Txid[o[1]], vout |-> o[2]]
  <1>1. PICK d \in Digests, v \in Nat : d = Txid[o[1]] /\ v = o[2]
    BY NamesAreDigests DEF AnyOutpoint
  <1>2. PICK p \in Nat : p = OUTPUT
    BY DEF OUTPUT
  <1>3. PICK q \in Nat : q = UNSPENT_IDX
    BY DEF UNSPENT_IDX
  <1>4. PICK k : k = <<p>> \o d \o <<v>>
    OBVIOUS
  <1>5. PICK l : l = <<q>> \o d \o <<v>>
    OBVIOUS
  <1>6. \A f : f = <<p>> \o d \o <<v>> =>
              /\ f \in Seq(Nat) /\ Len(f) = DigestSize + 2 /\ f[1] = p
              /\ \A i \in 1..DigestSize : f[i + 1] = d[i]
              /\ decodeOutputKey(f) = [txid |-> d, vout |-> v]
    BY OutputKeyIs, Zenon
  <1>a. \A f : f = <<q>> \o d \o <<v>> =>
              /\ f \in Seq(Nat) /\ Len(f) = DigestSize + 2 /\ f[1] = q
              /\ \A i \in 1..DigestSize : f[i + 1] = d[i]
              /\ decodeOutputKey(f) = [txid |-> d, vout |-> v]
    BY OutputKeyIs, Zenon
  <1>7. /\ k \in Seq(Nat) /\ Len(k) = DigestSize + 2 /\ k[1] = p
        /\ \A i \in 1..DigestSize : k[i + 1] = d[i]
        /\ decodeOutputKey(k) = [txid |-> d, vout |-> v]
    BY <1>4, <1>6, Zenon
  <1>8. /\ l \in Seq(Nat) /\ Len(l) = DigestSize + 2 /\ l[1] = q
        /\ \A i \in 1..DigestSize : l[i + 1] = d[i]
        /\ decodeOutputKey(l) = [txid |-> d, vout |-> v]
    BY <1>5, <1>a, Zenon
  <1>9. OutKey(o) = k /\ UnspentKey(o) = l
    BY <1>1, <1>2, <1>3, <1>4, <1>5
    DEF OutKey, UnspentKey, encodeOutputKey, encodeUnspentIndexKey
  <1> QED
    BY <1>1, <1>2, <1>3, <1>7, <1>8, <1>9, Zenon

\* The prefix of each key.
LEMMA KindOfKey ==
    /\ \A t \in Txids : TxKey(t)[1] = 14
    /\ \A o \in AnyOutpoint : OutKey(o)[1] = 12 /\ UnspentKey(o)[1] = 8
    /\ \A h \in Nat : \A t \in Txids : HeightKey(h, t)[1] = 6
    /\ \A b \in Blocks : \A t \in Txids : HashKey(b, t)[1] = 2
    /\ \A x \in Nat : \A h \in Nat : encodeTimeIndexKey(x, h)[1] = 4
    /\ \A h \in Nat : encodeBlockStateKey(h)[1] = 0
    /\ encodeOpStateKey[1] = 10
  <1>1. \A t \in Txids : TxKey(t)[1] = 14
    BY NamesAreDigests, TxKeyIs DEF TxKey, TX
  <1>2. \A o \in AnyOutpoint : OutKey(o)[1] = 12 /\ UnspentKey(o)[1] = 8
    BY OutpointKeysAre DEF OUTPUT, UNSPENT_IDX
  <1>3. \A h \in Nat : \A t \in Txids : HeightKey(h, t)[1] = 6
    BY NamesAreDigests, HeightKeyIs DEF HeightKey, HEIGHT_IDX
  <1>4. \A b \in Blocks : \A t \in Txids : HashKey(b, t)[1] = 2
    BY NamesAreDigests, HashKeyIs DEF HashKey, HASH_IDX
  <1>5. /\ \A x \in Nat : \A h \in Nat : encodeTimeIndexKey(x, h)[1] = 4
        /\ \A h \in Nat : encodeBlockStateKey(h)[1] = 0
        /\ encodeOpStateKey[1] = 10
    BY DEF encodeTimeIndexKey, encodeBlockStateKey, encodeOpStateKey, TIME_IDX, BLOCK_STATE, OP_STATE
  <1> QED
    BY <1>1, <1>2, <1>3, <1>4, <1>5

\* What the decoders read in each key.
LEMMA DecodeKey ==
    /\ \A o \in AnyOutpoint :
          /\ decodeOutputKey(OutKey(o)) = [txid |-> Txid[o[1]], vout |-> o[2]]
          /\ decodeUnspentIndexKey(UnspentKey(o)) = [txid |-> Txid[o[1]], vout |-> o[2]]
    /\ \A h \in Nat : \A t \in Txids :
          decodeHeightIndexKey(HeightKey(h, t)) = [height |-> h, txid |-> Txid[t]]
    /\ \A b \in Blocks : \A t \in Txids :
          decodeHashIndexKey(HashKey(b, t)) = [blockHash |-> Hash[b], txid |-> Txid[t]]
    /\ \A x \in Nat : \A h \in Nat :
          decodeTimeIndexKey(encodeTimeIndexKey(x, h)) = [blockTime |-> x, blockHeight |-> h]
    /\ \A h \in Nat : decodeBlockStateKey(encodeBlockStateKey(h)) = h
  <1>1. ASSUME NEW o \in AnyOutpoint
        PROVE  /\ decodeOutputKey(OutKey(o)) = [txid |-> Txid[o[1]], vout |-> o[2]]
               /\ decodeUnspentIndexKey(UnspentKey(o)) = [txid |-> Txid[o[1]], vout |-> o[2]]
    BY OutpointKeysAre DEF decodeUnspentIndexKey
  <1>2. \A h \in Nat : \A t \in Txids :
          decodeHeightIndexKey(HeightKey(h, t)) = [height |-> h, txid |-> Txid[t]]
    BY NamesAreDigests, HeightKeyIs DEF HeightKey
  <1>3. \A b \in Blocks : \A t \in Txids :
          decodeHashIndexKey(HashKey(b, t)) = [blockHash |-> Hash[b], txid |-> Txid[t]]
    BY NamesAreDigests, HashKeyIs DEF HashKey
  <1>4. /\ \A x \in Nat : \A h \in Nat :
              decodeTimeIndexKey(encodeTimeIndexKey(x, h)) = [blockTime |-> x, blockHeight |-> h]
        /\ \A h \in Nat : decodeBlockStateKey(encodeBlockStateKey(h)) = h
    BY DEF encodeTimeIndexKey, decodeTimeIndexKey, encodeBlockStateKey, decodeBlockStateKey
  <1> QED
    BY <1>1, <1>2, <1>3, <1>4

\* Different things have different keys.
LEMMA KeysAreUnique ==
    /\ \A t, u \in Txids : TxKey(t) = TxKey(u) => t = u
    /\ \A o, q \in AnyOutpoint : OutKey(o) = OutKey(q) => o = q
    /\ \A o, q \in AnyOutpoint : UnspentKey(o) = UnspentKey(q) => o = q
    /\ \A h, i \in Nat : \A t, u \in Txids : HeightKey(h, t) = HeightKey(i, u) => h = i /\ t = u
    /\ \A b, c \in Blocks : \A t, u \in Txids : HashKey(b, t) = HashKey(c, u) => b = c /\ t = u
    /\ \A x, y \in Nat : \A h, i \in Nat :
          encodeTimeIndexKey(x, h) = encodeTimeIndexKey(y, i) => x = y /\ h = i
    /\ \A h, i \in Nat : encodeBlockStateKey(h) = encodeBlockStateKey(i) => h = i
  <1>1. ASSUME NEW t \in Txids, NEW u \in Txids, TxKey(t) = TxKey(u)
        PROVE  t = u
    <2>1. Txid[t] \in Digests /\ Txid[u] \in Digests
      BY NamesAreDigests
    <2>2. \A i \in 1..DigestSize : Txid[t][i] = Txid[u][i]
      BY <1>1, <2>1, TxKeyIs DEF TxKey
    <2> QED
      BY <2>1, <2>2, SameDigest, DigestsAreUnique
  <1>2. ASSUME NEW o \in AnyOutpoint, NEW q \in AnyOutpoint, Txid[o[1]] = Txid[q[1]], o[2] = q[2]
        PROVE  o = q
    BY <1>2, DigestsAreUnique DEF AnyOutpoint
  <1>4. ASSUME NEW o \in AnyOutpoint, NEW q \in AnyOutpoint,
               OutKey(o) = OutKey(q) \/ UnspentKey(o) = UnspentKey(q)
        PROVE  o = q
    <2>1. [txid |-> Txid[o[1]], vout |-> o[2]] = [txid |-> Txid[q[1]], vout |-> q[2]]
      <3>1. CASE OutKey(o) = OutKey(q)
        BY <3>1, DecodeKey, Zenon
      <3>2. CASE UnspentKey(o) = UnspentKey(q)
        BY <3>2, DecodeKey, Zenon
      <3> QED
        BY <1>4, <3>1, <3>2
    <2> QED
      BY <1>2, <2>1
  <1>6. ASSUME NEW h \in Nat, NEW i \in Nat, NEW t \in Txids, NEW u \in Txids,
               HeightKey(h, t) = HeightKey(i, u)
        PROVE  h = i /\ t = u
    <2>1. [height |-> h, txid |-> Txid[t]] = [height |-> i, txid |-> Txid[u]]
      BY <1>6, DecodeKey, Zenon
    <2> QED
      BY <2>1, DigestsAreUnique
  <1>7. ASSUME NEW b \in Blocks, NEW c \in Blocks, NEW t \in Txids, NEW u \in Txids,
               HashKey(b, t) = HashKey(c, u)
        PROVE  b = c /\ t = u
    <2>1. [blockHash |-> Hash[b], txid |-> Txid[t]] = [blockHash |-> Hash[c], txid |-> Txid[u]]
      BY <1>7, DecodeKey, Zenon
    <2> QED
      BY <2>1, DigestsAreUnique
  <1>8. \A x, y \in Nat : \A h, i \in Nat :
          encodeTimeIndexKey(x, h) = encodeTimeIndexKey(y, i) => x = y /\ h = i
    BY DEF encodeTimeIndexKey
  <1>9. \A h, i \in Nat : encodeBlockStateKey(h) = encodeBlockStateKey(i) => h = i
    BY DEF encodeBlockStateKey
  <1> QED
    BY <1>1, <1>4, <1>6, <1>7, <1>8, <1>9

-----------------------------------------------------------------------------
(* Order *)

\* The first place where two keys differ decides.
LEMMA FirstDifference ==
    ASSUME NEW k \in Seq(Nat), NEW l \in Seq(Nat), NEW i \in 1..Len(k), i <= Len(l),
           \A j \in 1..(i - 1) : k[j] = l[j]
    PROVE  /\ k[i] < l[i] => Before(k, l)
           /\ l[i] < k[i] => ~Before(k, l)
  <1>1. i \in DOMAIN k \cap DOMAIN l /\ DOMAIN k = 1..Len(k) /\ DOMAIN l = 1..Len(l)
    OBVIOUS
  <1>2. k[i] < l[i] => Before(k, l)
    BY <1>1 DEF Before
  <1>3. ASSUME l[i] < k[i], Before(k, l)
        PROVE  FALSE
    <2>1. k[i] \in Nat /\ l[i] \in Nat
      OBVIOUS
    <2>2. ASSUME NEW m \in DOMAIN k \cap DOMAIN l, k[m] < l[m], \A j \in 1..(m - 1) : k[j] = l[j]
          PROVE  FALSE
      <3>1. m \in Nat \ {0} /\ i \in Nat \ {0} /\ k[m] \in Nat /\ l[m] \in Nat
        BY <1>1, <2>2
      <3>2. CASE m < i
        BY <2>2, <3>1, <3>2
      <3>3. CASE m = i
        BY <1>3, <2>1, <2>2, <3>3
      <3>4. CASE i < m
        BY <1>3, <2>1, <2>2, <3>1, <3>4
      <3> QED
        BY <3>1, <3>2, <3>3, <3>4
    <2>3. ASSUME \A j \in DOMAIN k : k[j] = l[j]
          PROVE  FALSE
      BY <1>1, <1>3, <2>1, <2>3
    <2> QED
      BY <1>3, <2>2, <2>3 DEF Before
  <1> QED
    BY <1>2, <1>3

\* A key that is nowhere less than one no longer than itself is not before it.
LEMMA NowhereLess ==
    ASSUME NEW k \in Seq(Nat), NEW l \in Seq(Nat), Len(l) <= Len(k),
           \A j \in 1..Len(l) : l[j] <= k[j]
    PROVE  ~Before(k, l)
  <1>1. DOMAIN k = 1..Len(k) /\ DOMAIN l = 1..Len(l) /\ Len(k) \in Nat /\ Len(l) \in Nat
    OBVIOUS
  <1>2. \A j \in DOMAIN k \cap DOMAIN l : k[j] \in Nat /\ l[j] \in Nat /\ ~(k[j] < l[j])
    BY <1>1
  <1> QED
    BY <1>1, <1>2 DEF Before

\* A range below one prefix holds no keys of another.
LEMMA OtherPrefix ==
    ASSUME NEW k \in Seq(Nat), NEW g \in Seq(Nat), NEW l \in Seq(Nat),
           1 <= Len(k), 1 <= Len(g), 1 <= Len(l), g[1] = l[1], k[1] # g[1]
    PROVE  ~InRange([gte |-> g, lt |-> l], k)
  <1>1. k[1] \in Nat /\ g[1] \in Nat /\ Len(k) \in Nat /\ 1 \in 1..Len(k)
    OBVIOUS
  <1>2. CASE k[1] < g[1]
    <2>1. Before(k, g)
      BY <1>1, <1>2, FirstDifference
    <2> QED
      BY <2>1 DEF InRange
  <1>3. CASE l[1] < k[1]
    <2>1. ~Before(k, l)
      BY <1>1, <1>3, FirstDifference
    <2> QED
      BY <2>1 DEF InRange
  <1> QED
    BY <1>1, <1>2, <1>3

\* The successor of bytes that have one.
LEMMA SuccessorOf ==
    ASSUME NEW n \in Nat \ {0}, NEW d \in [1..n -> Bytes], Incrementable(d)
    PROVE  \E last \in 1..n :
              /\ \A j \in 1..n : last < j => d[j] = Radix - 1
              /\ bigEndianIncrement(d) =
                    [j \in 1..n |-> IF j < last THEN d[j] ELSE IF j = last THEN d[j] + 1 ELSE 0]
  <1>1. DOMAIN d = 1..n /\ d \in Seq(Bytes) /\ Len(d) = n /\ Radix \in Nat \ {0, 1}
    BY DigestsAreUnique, SeqDef
  <1>2. \A i \in 1..n : d[i] \in 0..(Radix - 1)
    BY DEF Bytes
  <1> DEFINE S == {n - i : i \in {j \in 1..n : d[j] < Radix - 1}}
  <1>3. S \in SUBSET Nat /\ S # {}
    BY <1>1 DEF Incrementable
  <1>4. PICK m \in S : \A i \in S : m <= i
    BY <1>3, LeastElement
  <1>5. PICK i \in 1..n : d[i] < Radix - 1 /\ m = n - i
    BY <1>4
  <1>6. ASSUME NEW j \in 1..n, i < j
        PROVE  ~(d[j] < Radix - 1)
    <2>1. d[j] < Radix - 1 => n - j \in S
      OBVIOUS
    <2> HIDE DEF S
    <2>2. d[j] < Radix - 1 => n - i <= n - j
      BY <1>4, <1>5, <2>1
    <2> QED
      BY <1>6, <2>2
  <1>7. \A j \in (i + 1)..Len(d) : d[j] = Radix - 1
    BY <1>1, <1>2, <1>6
  <1> DEFINE last == CHOOSE x \in DOMAIN d :
                        d[x] < Radix - 1 /\ \A j \in (x + 1)..Len(d) : d[j] = Radix - 1
  <1>8. last \in DOMAIN d /\ \A j \in (last + 1)..Len(d) : d[j] = Radix - 1
    BY <1>1, <1>5, <1>7
  <1>9. bigEndianIncrement(d) =
            [j \in DOMAIN d |-> IF j < last THEN d[j] ELSE IF j = last THEN d[j] + 1 ELSE 0]
    BY DEF bigEndianIncrement
  <1> HIDE DEF last
  <1>10. last \in 1..n /\ \A j \in 1..n : last < j => d[j] = Radix - 1
    BY <1>1, <1>8
  <1>11. bigEndianIncrement(d) =
            [j \in 1..n |-> IF j < last THEN d[j] ELSE IF j = last THEN d[j] + 1 ELSE 0]
    BY <1>1, <1>9, Zenon
  <1> QED
    BY <1>10, <1>11, Zenon

\* l is the successor of g: the digits after the place last are the greatest.
Successor(g, l, last) ==
    /\ Len(l) = Len(g)
    /\ \A i \in 1..Len(g) : i < last => l[i] = g[i]
    /\ l[last] = g[last] + 1
    /\ \A i \in 1..Len(g) : last < i => l[i] = 0 /\ g[i] = Radix - 1

\* The digits of k at the places of g are those of g.
Begins(g, k) == \A i \in 1..Len(g) : k[i] = g[i]

\* No digit of k at the places of g but the first is greater than the greatest.
WithinRadix(g, k) == \A i \in 1..Len(g) : i # 1 => k[i] <= Radix - 1

\* A key lies before the successor if it begins with what is succeeded.
LEMMA InsideRange ==
    ASSUME NEW g \in Seq(Nat), NEW l \in Seq(Nat), NEW k \in Seq(Nat), NEW last \in 1..Len(g),
           Successor(g, l, last), Len(g) <= Len(k), Begins(g, k)
    PROVE  InRange([gte |-> g, lt |-> l], k)
  <1>1. ~Before(k, g)
    <2>1. \A j \in 1..Len(g) : g[j] <= k[j]
      BY DEF Begins
    <2> QED
      BY <2>1, NowhereLess
  <1>4. /\ Len(g) \in Nat /\ Len(k) \in Nat /\ Len(l) = Len(g) /\ last \in Nat
        /\ k[last] \in Nat /\ k[last] = g[last] /\ l[last] = g[last] + 1
    BY DEF Begins, Successor
  <1>5. \A j \in 1..(last - 1) : j \in 1..Len(g) /\ j < last
    BY <1>4
  <1>6. \A j \in 1..(last - 1) : k[j] = l[j]
    BY <1>5 DEF Begins, Successor
  <1>2. k[last] < l[last] /\ last \in 1..Len(k) /\ last <= Len(l)
    BY <1>4
  <1>3. Before(k, l)
    BY <1>2, <1>6, FirstDifference
  <1> QED
    BY <1>1, <1>3 DEF InRange

\* A key between what is succeeded and the successor begins with the former.
LEMMA OutsideRange ==
    ASSUME NEW g \in Seq(Nat), NEW l \in Seq(Nat), NEW k \in Seq(Nat), NEW last \in 2..Len(g),
           Successor(g, l, last), Len(g) <= Len(k), WithinRadix(g, k), ~Begins(g, k)
    PROVE  ~InRange([gte |-> g, lt |-> l], k)
  <1>0. Radix \in Nat /\ Len(g) \in Nat /\ Len(l) \in Nat /\ Len(k) \in Nat /\ Len(l) = Len(g)
    BY DigestsAreUnique DEF Successor
  <1> DEFINE S == {m \in 1..Len(g) : k[m] # g[m]}
  <1>1. S \in SUBSET Nat
    BY <1>0
  <1>7. S # {}
    BY DEF Begins
  <1>2. PICK i \in S : \A m \in S : i <= m
    BY <1>1, <1>7, LeastElement
  <1>8. i \in 1..Len(g) /\ k[i] # g[i]
    OBVIOUS
  <1> HIDE DEF S
  <1>11. i \in Nat /\ i \in 1..Len(k) /\ i \in 1..Len(l) /\ i <= Len(g) /\ i <= Len(l)
    BY <1>0, <1>8
  <1>12. \A j \in 1..Len(k) : k[j] \in Nat
    OBVIOUS
  <1>13. \A j \in 1..Len(g) : g[j] \in Nat
    OBVIOUS
  <1>14. \A j \in 1..Len(l) : l[j] \in Nat
    OBVIOUS
  <1>3. /\ i \in Nat /\ i \in 1..Len(g) /\ k[i] # g[i] /\ i \in 1..Len(k)
        /\ i <= Len(g) /\ i <= Len(l)
        /\ k[i] \in Nat /\ g[i] \in Nat /\ l[i] \in Nat
    BY <1>8, <1>11, <1>12, <1>13, <1>14, Zenon
  <1>4. \A m \in 1..(i - 1) : m \in 1..Len(g) /\ m < i /\ k[m] = g[m]
    <2>1. TAKE m \in 1..(i - 1)
    <2>2. m \in 1..Len(g) /\ m < i /\ ~(i <= m)
      BY <1>0, <1>3, <2>1
    <2>3. k[m] # g[m] => m \in S
      BY <2>2 DEF S
    <2> QED
      BY <1>2, <2>2, <2>3
  <1>9. last \in Nat /\ 2 <= last /\ last \in 1..Len(g)
    BY <1>0
  <1> HIDE DEF S
  <1>5. CASE k[i] < g[i]
    <2>1. Before(k, g)
      BY <1>3, <1>4, <1>5, FirstDifference
    <2> QED
      BY <2>1 DEF InRange
  <1>6. CASE g[i] < k[i]
    <2>1. i <= last
      <3>1. CASE i = 1
        BY <1>9, <3>1
      <3>2. CASE i # 1
        <4>1. k[i] <= Radix - 1
          BY <1>3, <3>2 DEF WithinRadix
        <4>2. g[i] # Radix - 1
          <5>1. \A x, y, z \in Nat : x < y /\ y <= z - 1 => x # z - 1
            OBVIOUS
          <5> QED
            BY <1>0, <1>3, <1>6, <4>1, <5>1
        <4>3. ~(last < i)
          BY <1>3, <4>2 DEF Successor
        <4> QED
          BY <1>3, <1>9, <4>3
      <3> QED
        BY <3>1, <3>2
    <2>5. \A m \in 1..(i - 1) : m < last
      BY <1>3, <1>9, <2>1
    <2>2. \A m \in 1..(i - 1) : k[m] = l[m]
      BY <1>4, <2>5 DEF Successor
    <2>3. CASE l[i] < k[i]
      <3>1. ~Before(k, l)
        BY <1>3, <2>2, <2>3, FirstDifference
      <3> QED
        BY <3>1 DEF InRange
    <2>4. CASE ~(l[i] < k[i])
      <3>5. i < last => l[i] = g[i]
        BY <1>3 DEF Successor
      <3>6. ~(i < last)
        BY <1>6, <2>4, <3>5
      <3>1. i = last /\ l[i] = g[i] + 1
        BY <1>3, <1>9, <2>1, <3>6 DEF Successor
      <3>2. k[i] = l[i]
        BY <1>3, <1>6, <2>4, <3>1
      <3>3. ASSUME NEW m \in 1..Len(l)
            PROVE  l[m] <= k[m]
        <4>1. m \in Nat /\ m \in 1..Len(g) /\ k[m] \in Nat /\ l[m] \in Nat
          BY <1>0, <3>3
        <4>2. CASE m < i
          <5>1. m \in 1..(i - 1)
            BY <1>3, <4>1, <4>2
          <5>2. k[m] = l[m]
            BY <2>2, <5>1
          <5> QED
            BY <4>1, <5>2
        <4>3. CASE m = i
          BY <3>2, <4>1, <4>3
        <4>4. CASE i < m
          <5>1. l[m] = 0
            BY <3>1, <4>1, <4>4 DEF Successor
          <5> QED
            BY <4>1, <5>1
        <4> QED
          BY <1>3, <4>1, <4>2, <4>3, <4>4
      <3>4. ~Before(k, l)
        BY <1>0, <3>3, NowhereLess
      <3> QED
        BY <3>4 DEF InRange
    <2> QED
      BY <2>3, <2>4
  <1>10. k[i] < g[i] \/ g[i] < k[i]
    BY <1>3
  <1> QED
    BY <1>5, <1>6, <1>10

\* The range of the keys that begin with the prefix p and the n bytes d.
IsPrefixRange(range, p, n, d) ==
    \A k \in Seq(Nat) :
        /\ n + 1 <= Len(k) /\ (\A i \in 1..n : k[i + 1] \in Bytes) =>
              (InRange(range, k) <=> (k[1] = p /\ \A i \in 1..n : k[i + 1] = d[i]))
        /\ 1 <= Len(k) /\ k[1] # p => ~InRange(range, k)

\* The ranges by hash or txid are such.
LEMMA PrefixRange ==
    ASSUME NEW p \in Nat, NEW n \in Nat \ {0}, NEW d \in [1..n -> Bytes], Incrementable(d)
    PROVE  \A range :
             range = [gte |-> <<p>> \o d, lt |-> <<p>> \o bigEndianIncrement(d)]
                 => IsPrefixRange(range, p, n, d)
  <1>1. PICK last \in 1..n :
              /\ \A j \in 1..n : last < j => d[j] = Radix - 1
              /\ bigEndianIncrement(d) =
                    [j \in 1..n |-> IF j < last THEN d[j] ELSE IF j = last THEN d[j] + 1 ELSE 0]
    BY SuccessorOf
  <1>2. PICK e : e = bigEndianIncrement(d)
    OBVIOUS
  <1>3. Radix \in Nat \ {0, 1} /\ \A j \in 1..n : d[j] \in Nat /\ d[j] <= Radix - 1
    BY DigestsAreUnique DEF Bytes
  <1>4. /\ d \in Seq(Nat) /\ Len(d) = n
        /\ e \in Seq(Nat) /\ Len(e) = n
    <2>1. d \in [1..n -> Nat] /\ e \in [1..n -> Nat] /\ n \in Nat
      BY <1>1, <1>2, <1>3
    <2> QED
      BY <2>1, SeqDef
  <1> DEFINE first == <<p>>
  <1>5. first \in Seq(Nat) /\ Len(first) = 1 /\ first[1] = p
    OBVIOUS
  <1>16. first = <<p>>
    OBVIOUS
  <1> HIDE DEF first
  <1>6. PICK g : g = first \o d
    OBVIOUS
  <1>7. PICK l : l = first \o e
    OBVIOUS
  <1>17. \A s \in Seq(Nat) : \A k : Len(s) = n /\ k = first \o s =>
            /\ k \in Seq(Nat) /\ Len(k) = n + 1 /\ k[1] = p
            /\ \A i \in 1..n : k[1 + i] = s[i]
    <2>1. SUFFICES ASSUME NEW s \in Seq(Nat), Len(s) = n, NEW k, k = first \o s
                   PROVE  /\ k \in Seq(Nat) /\ Len(k) = n + 1 /\ k[1] = p
                          /\ \A i \in 1..n : k[1 + i] = s[i]
      OBVIOUS
    <2>2. /\ k \in Seq(Nat) /\ Len(k) = Len(first) + Len(s)
          /\ \A i \in 1..Len(first) : k[i] = first[i]
          /\ \A i \in 1..Len(s) : k[Len(first) + i] = s[i]
      BY <1>5, <2>1, Concatenated
    <2> QED
      BY <1>5, <2>1, <2>2
  <1>8. /\ g \in Seq(Nat) /\ Len(g) = n + 1 /\ g[1] = p
        /\ \A i \in 1..n : g[1 + i] = d[i]
    BY <1>4, <1>6, <1>17, Zenon
  <1>9. /\ l \in Seq(Nat) /\ Len(l) = n + 1 /\ l[1] = p
        /\ \A i \in 1..n : l[1 + i] = e[i]
    BY <1>4, <1>7, <1>17, Zenon
  <1>10. [gte |-> <<p>> \o d, lt |-> <<p>> \o bigEndianIncrement(d)] = [gte |-> g, lt |-> l]
    BY <1>2, <1>6, <1>7, <1>16, Zenon
  <1>11. \A i \in 1..(n + 1) : i = 1 \/ (i - 1 \in 1..n /\ 1 + (i - 1) = i)
    OBVIOUS
  <1>12. Successor(g, l, 1 + last)
    <2>1. /\ \A i \in 1..n : i < last => e[i] = d[i]
          /\ e[last] = d[last] + 1
          /\ \A i \in 1..n : last < i => e[i] = 0 /\ d[i] = Radix - 1
      BY <1>1, <1>2
    <2>2. ASSUME NEW i \in 1..(n + 1)
          PROVE  /\ i < 1 + last => l[i] = g[i]
                 /\ 1 + last < i => l[i] = 0 /\ g[i] = Radix - 1
      <3>1. CASE i = 1
        BY <1>8, <1>9, <3>1
      <3>2. CASE i # 1
        <4>1. i - 1 \in 1..n /\ 1 + (i - 1) = i
          BY <2>2, <3>2
        <4>2. l[i] = e[i - 1] /\ g[i] = d[i - 1]
          BY <1>8, <1>9, <4>1
        <4>3. (i < 1 + last => i - 1 < last) /\ (1 + last < i => last < i - 1)
          BY <4>1
        <4> QED
          BY <2>1, <4>1, <4>2, <4>3
      <3> QED
        BY <3>1, <3>2
    <2>3. l[1 + last] = g[1 + last] + 1
      BY <1>8, <1>9, <2>1
    <2>4. Len(g) = n + 1 /\ Len(l) = n + 1
      BY <1>8, <1>9
    <2> QED
      BY <2>2, <2>3, <2>4 DEF Successor
  <1>13. SUFFICES ASSUME NEW k \in Seq(Nat)
                  PROVE  /\ n + 1 <= Len(k) /\ (\A i \in 1..n : k[i + 1] \in Bytes) =>
                              (InRange([gte |-> g, lt |-> l], k) <=>
                                   (k[1] = p /\ \A i \in 1..n : k[i + 1] = d[i]))
                         /\ 1 <= Len(k) /\ k[1] # p => ~InRange([gte |-> g, lt |-> l], k)
    BY <1>10 DEF IsPrefixRange
  <1>14. ASSUME 1 <= Len(k), k[1] # p
         PROVE  ~InRange([gte |-> g, lt |-> l], k)
    <2>1. 1 <= Len(g) /\ 1 <= Len(l)
      BY <1>8, <1>9
    <2> QED
      BY <1>8, <1>9, <1>14, <2>1, OtherPrefix
  <1>15. ASSUME n + 1 <= Len(k), \A i \in 1..n : k[i + 1] \in Bytes
         PROVE  InRange([gte |-> g, lt |-> l], k) <=>
                    (k[1] = p /\ \A i \in 1..n : k[i + 1] = d[i])
    <2>1. (k[1] = p /\ \A i \in 1..n : k[i + 1] = d[i]) <=> Begins(g, k)
      <3>1. \A i \in 1..n : i + 1 = 1 + i /\ 1 + i \in 1..(n + 1)
        OBVIOUS
      <3>2. ASSUME Begins(g, k)
            PROVE  k[1] = p /\ \A i \in 1..n : k[i + 1] = d[i]
        BY <1>8, <3>1, <3>2 DEF Begins
      <3>3. ASSUME k[1] = p, \A i \in 1..n : k[i + 1] = d[i]
            PROVE  Begins(g, k)
        <4>1. ASSUME NEW i \in 1..(n + 1)
              PROVE  k[i] = g[i]
          <5>1. CASE i = 1
            BY <1>8, <3>3, <5>1
          <5>2. CASE i # 1
            <6>1. i - 1 \in 1..n /\ 1 + (i - 1) = i /\ (i - 1) + 1 = i
              BY <4>1, <5>2
            <6> QED
              BY <1>8, <3>3, <6>1
          <5> QED
            BY <5>1, <5>2
        <4> QED
          BY <1>8, <4>1 DEF Begins
      <3> QED
        BY <3>2, <3>3
    <2>2. WithinRadix(g, k)
      <3>1. ASSUME NEW i \in 1..(n + 1), i # 1
            PROVE  k[i] <= Radix - 1
        <4>1. i - 1 \in 1..n /\ (i - 1) + 1 = i
          BY <3>1
        <4>2. k[i] \in Bytes
          BY <1>15, <4>1
        <4> QED
          BY <1>3, <4>2 DEF Bytes
      <3> QED
        BY <1>8, <3>1 DEF WithinRadix
    <2>3. 1 + last \in 1..Len(g) /\ 1 + last \in 2..Len(g) /\ Len(g) <= Len(k)
      BY <1>8, <1>15
    <2>4. Begins(g, k) => InRange([gte |-> g, lt |-> l], k)
      BY <1>8, <1>9, <1>12, <2>3, InsideRange
    <2>5. ~Begins(g, k) => ~InRange([gte |-> g, lt |-> l], k)
      BY <1>8, <1>9, <1>12, <2>2, <2>3, OutsideRange
    <2> QED
      BY <2>1, <2>4, <2>5
  <1> QED
    BY <1>14, <1>15

-----------------------------------------------------------------------------
(* The ranges, on keys that encoders write *)

IsKey(k) ==
    \/ \E t \in Txids : k = TxKey(t)
    \/ \E o \in Outpoints : k = OutKey(o)
    \/ \E o \in Outpoints : k = UnspentKey(o)
    \/ \E t \in Txids, b \in Blocks : k = HeightKey(Height[b], t)
    \/ \E t \in Txids, b \in Blocks : k = HashKey(b, t)
    \/ \E b \in Blocks : k = encodeTimeIndexKey(Time[b], Height[b])
    \/ \E b \in Blocks : k = encodeBlockStateKey(Height[b])
    \/ k = encodeOpStateKey

LEMMA TxKeyType ==
    ASSUME NEW d \in Digests
    PROVE  encodeTxKey(d) \in Seq(Nat) /\ Len(encodeTxKey(d)) = DigestSize + 1
  <1>1. PICK p \in Nat : p = TX
    BY DEF TX
  <1>2. PICK k : k = <<p>> \o d
    OBVIOUS
  <1>3. \A f : f = <<p>> \o d =>
            /\ f \in Seq(Nat) /\ Len(f) = DigestSize + 1 /\ f[1] = p
            /\ \A i \in 1..DigestSize : f[i + 1] = d[i]
    BY PrefixedDigest, Zenon
  <1>4. k \in Seq(Nat) /\ Len(k) = DigestSize + 1
    BY <1>2, <1>3, Zenon
  <1>5. encodeTxKey(d) = k
    BY <1>1, <1>2 DEF encodeTxKey
  <1> QED
    BY <1>4, <1>5, Zenon

\* The keys without a digest.
LEMMA ShortKeys ==
    /\ \A x, h \in Nat :
          LET k == encodeTimeIndexKey(x, h)
          IN  k \in Seq(Nat) /\ Len(k) = 3 /\ k[1] = 4 /\ k[2] = x /\ k[3] = h
    /\ \A h \in Nat :
          LET k == encodeBlockStateKey(h)
          IN  k \in Seq(Nat) /\ Len(k) = 2 /\ k[1] = 0 /\ k[2] = h
    /\ encodeOpStateKey \in Seq(Nat) /\ Len(encodeOpStateKey) = 1
  BY DEF encodeTimeIndexKey, encodeBlockStateKey, encodeOpStateKey, TIME_IDX, BLOCK_STATE, OP_STATE

LEMMA KeyIsSequence ==
    ASSUME NEW k, IsKey(k)
    PROVE  k \in Seq(Nat) /\ Len(k) \in Nat /\ 1 <= Len(k) /\ k[1] \in Nat
  <1>1. DigestSize \in Nat \ {0}
    BY DigestsAreUnique
  <1>2. ASSUME NEW t \in Txids, k = TxKey(t)
        PROVE  k \in Seq(Nat) /\ 1 <= Len(k)
    BY <1>1, <1>2, TxKeyType, NamesAreDigests DEF TxKey
  <1>3. ASSUME NEW o \in Outpoints, k = OutKey(o) \/ k = UnspentKey(o)
        PROVE  k \in Seq(Nat) /\ 1 <= Len(k)
    <2>1. k \in Seq(Nat) /\ Len(k) = DigestSize + 2
      BY <1>3, OutpointKeysAre, OutpointsKeyed
    <2> QED
      BY <1>1, <2>1
  <1>4. ASSUME NEW t \in Txids, NEW b \in Blocks, k = HeightKey(Height[b], t)
        PROVE  k \in Seq(Nat) /\ 1 <= Len(k)
    BY <1>1, <1>4, HeightKeyIs, NamesAreDigests, HeightType DEF HeightKey
  <1>5. ASSUME NEW t \in Txids, NEW b \in Blocks, k = HashKey(b, t)
        PROVE  k \in Seq(Nat) /\ 1 <= Len(k)
    <2>1. k \in Seq(Nat) /\ Len(k) = 2 * DigestSize + 1
      BY <1>5, HashKeyIs, NamesAreDigests DEF HashKey
    <2> QED
      BY <1>1, <2>1
  <1>6. ASSUME NEW b \in Blocks, k = encodeTimeIndexKey(Time[b], Height[b])
        PROVE  k \in Seq(Nat) /\ 1 <= Len(k)
    <2>1. Time[b] \in Nat /\ Height[b] \in Nat
      BY LedgerTypes
    <2>2. k \in Seq(Nat) /\ Len(k) = 3
      BY <1>6, <2>1, ShortKeys, Zenon
    <2> QED
      BY <2>2
  <1>8. ASSUME NEW b \in Blocks, k = encodeBlockStateKey(Height[b])
        PROVE  k \in Seq(Nat) /\ 1 <= Len(k)
    <2>1. Height[b] \in Nat
      BY LedgerTypes
    <2>2. k \in Seq(Nat) /\ Len(k) = 2
      BY <1>8, <2>1, ShortKeys, Zenon
    <2> QED
      BY <2>2
  <1>9. ASSUME k = encodeOpStateKey
        PROVE  k \in Seq(Nat) /\ 1 <= Len(k)
    <2>1. k \in Seq(Nat) /\ Len(k) = 1
      BY <1>9, ShortKeys, Zenon
    <2> QED
      BY <2>1
  <1>7. k \in Seq(Nat) /\ 1 <= Len(k)
    BY <1>2, <1>3, <1>4, <1>5, <1>6, <1>8, <1>9 DEF IsKey
  <1> QED
    BY <1>7

\* The kind of a key by its prefix.
LEMMA KeyOfKind ==
    ASSUME NEW k, IsKey(k)
    PROVE  /\ k[1] = 14 => \E t \in Txids : k = TxKey(t)
           /\ k[1] = 12 => \E o \in Outpoints : k = OutKey(o)
           /\ k[1] = 8 => \E o \in Outpoints : k = UnspentKey(o)
           /\ k[1] = 6 => \E t \in Txids, b \in Blocks : k = HeightKey(Height[b], t)
           /\ k[1] = 2 => \E t \in Txids, b \in Blocks : k = HashKey(b, t)
           /\ k[1] = 4 => \E b \in Blocks : k = encodeTimeIndexKey(Time[b], Height[b])
           /\ k[1] = 0 => \E b \in Blocks : k = encodeBlockStateKey(Height[b])
           /\ k[1] \in {0, 2, 4, 6, 8, 10, 12, 14}
  <1> DEFINE G ==
                /\ k[1] = 14 => \E t \in Txids : k = TxKey(t)
                /\ k[1] = 12 => \E o \in Outpoints : k = OutKey(o)
                /\ k[1] = 8 => \E o \in Outpoints : k = UnspentKey(o)
                /\ k[1] = 6 => \E t \in Txids, b \in Blocks : k = HeightKey(Height[b], t)
                /\ k[1] = 2 => \E t \in Txids, b \in Blocks : k = HashKey(b, t)
                /\ k[1] = 4 => \E b \in Blocks : k = encodeTimeIndexKey(Time[b], Height[b])
                /\ k[1] = 0 => \E b \in Blocks : k = encodeBlockStateKey(Height[b])
                /\ k[1] \in {0, 2, 4, 6, 8, 10, 12, 14}
  <1>0. \A b \in Blocks : Height[b] \in Nat /\ Time[b] \in Nat
    BY LedgerTypes
  <1>1. CASE \E t \in Txids : k = TxKey(t)
    <2>1. k[1] = 14
      BY <1>1, KindOfKey, Zenon
    <2> QED
      BY <1>1, <2>1
  <1>2. CASE \E o \in Outpoints : k = OutKey(o)
    <2>1. k[1] = 12
      BY <1>2, KindOfKey, OutpointsKeyed, Zenon
    <2> QED
      BY <1>2, <2>1
  <1>3. CASE \E o \in Outpoints : k = UnspentKey(o)
    <2>1. k[1] = 8
      BY <1>3, KindOfKey, OutpointsKeyed, Zenon
    <2> QED
      BY <1>3, <2>1
  <1>4. CASE \E t \in Txids, b \in Blocks : k = HeightKey(Height[b], t)
    <2>1. k[1] = 6
      BY <1>0, <1>4, KindOfKey, Zenon
    <2> QED
      BY <1>4, <2>1
  <1>5. CASE \E t \in Txids, b \in Blocks : k = HashKey(b, t)
    <2>1. k[1] = 2
      BY <1>5, KindOfKey
    <2> QED
      BY <1>5, <2>1
  <1>6. CASE \E b \in Blocks : k = encodeTimeIndexKey(Time[b], Height[b])
    <2>1. k[1] = 4
      BY <1>0, <1>6, KindOfKey
    <2> QED
      BY <1>6, <2>1
  <1>7. CASE \E b \in Blocks : k = encodeBlockStateKey(Height[b])
    <2>1. k[1] = 0
      BY <1>0, <1>7, KindOfKey, Zenon
    <2> QED
      BY <1>7, <2>1
  <1>8. CASE k = encodeOpStateKey
    <2>1. k[1] = 10
      BY <1>8, KindOfKey, Zenon
    <2> QED
      BY <2>1
  <1> QED
    BY <1>1, <1>2, <1>3, <1>4, <1>5, <1>6, <1>7, <1>8 DEF IsKey

\* The scan of a hash, or of its first bytes: the entries of the blocks whose hash
\* begins with them.
LEMMA HashRange ==
    ASSUME NEW n \in 1..DigestSize, NEW d \in [1..n -> Bytes], Incrementable(d),
           NEW k, IsKey(k)
    PROVE  InRange(hashIndexRange(d), k) <=>
              \E b \in Blocks, t \in Txids : k = HashKey(b, t) /\ \A i \in 1..n : Hash[b][i] = d[i]
  <1>1. PICK p \in Nat : p = HASH_IDX /\ p = 2
    BY DEF HASH_IDX
  <1>2. PICK range : range = [gte |-> <<p>> \o d, lt |-> <<p>> \o bigEndianIncrement(d)]
    OBVIOUS
  <1>3. hashIndexRange(d) = range
    BY <1>1, <1>2 DEF hashIndexRange
  <1>4. DigestSize \in Nat \ {0} /\ n \in Nat \ {0} /\ n <= DigestSize
    BY DigestsAreUnique
  <1>5. \A r : r = [gte |-> <<p>> \o d, lt |-> <<p>> \o bigEndianIncrement(d)]
                   => IsPrefixRange(r, p, n, d)
    BY <1>4, PrefixRange
  <1>6. IsPrefixRange(range, p, n, d)
    BY <1>2, <1>5, Zenon
  <1>7. ASSUME NEW b \in Blocks, NEW t \in Txids, k = HashKey(b, t)
        PROVE  InRange(range, k) <=> \A i \in 1..n : Hash[b][i] = d[i]
    <2>1. /\ k \in Seq(Nat) /\ Len(k) = 2 * DigestSize + 1 /\ k[1] = p
          /\ \A i \in 1..DigestSize : k[i + 1] = Hash[b][i] /\ Hash[b][i] \in Bytes
      BY <1>1, <1>7, HashKeyIs, NamesAreDigests, DigestType DEF HashKey
    <2>2. n + 1 <= Len(k) /\ \A i \in 1..n : i \in 1..DigestSize
      BY <1>4, <2>1
    <2>3. \A i \in 1..n : k[i + 1] = Hash[b][i] /\ k[i + 1] \in Bytes
      BY <2>1, <2>2
    <2>4. InRange(range, k) <=> \A i \in 1..n : k[i + 1] = d[i]
      BY <1>6, <2>1, <2>2, <2>3 DEF IsPrefixRange
    <2> QED
      BY <2>3, <2>4
  <1>8. CASE k[1] = p
    <2>1. PICK b \in Blocks, t \in Txids : k = HashKey(b, t)
      BY <1>1, <1>8, KeyOfKind
    <2>2. \A c \in Blocks, u \in Txids : k = HashKey(c, u) => c = b
      BY <2>1, KeysAreUnique
    <2> QED
      BY <1>3, <1>7, <2>1, <2>2
  <1>9. CASE k[1] # p
    <2>1. ~InRange(range, k)
      BY <1>6, <1>9, KeyIsSequence DEF IsPrefixRange
    <2>2. \A c \in Blocks, u \in Txids : k # HashKey(c, u)
      BY <1>1, <1>9, KindOfKey
    <2> QED
      BY <1>3, <2>1, <2>2
  <1> QED
    BY <1>8, <1>9

\* The scans of a transaction's outputs.
LEMMA OutputRanges ==
    ASSUME NEW t \in Txids, NEW k, IsKey(k)
    PROVE  /\ InRange(outputPrefixRange(Txid[t]), k) <=>
                 \E o \in Outpoints : k = OutKey(o) /\ o[1] = t
           /\ InRange(unspentPrefixRange(Txid[t]), k) <=>
                 \E o \in Outpoints : k = UnspentKey(o) /\ o[1] = t
  <1>0. PICK d \in [1..DigestSize -> Bytes] : d = Txid[t] /\ d \in Digests /\ Incrementable(d)
    BY NamesAreDigests, DigestsHaveSuccessors DEF Digests
  <1>1. PICK p \in Nat : p = OUTPUT /\ p = 12
    BY DEF OUTPUT
  <1>2. PICK q \in Nat : q = UNSPENT_IDX /\ q = 8
    BY DEF UNSPENT_IDX
  <1>3. PICK outputs : outputs = [gte |-> <<p>> \o d, lt |-> <<p>> \o bigEndianIncrement(d)]
    OBVIOUS
  <1>4. PICK unspent : unspent = [gte |-> <<q>> \o d, lt |-> <<q>> \o bigEndianIncrement(d)]
    OBVIOUS
  <1>5. outputPrefixRange(Txid[t]) = outputs /\ unspentPrefixRange(Txid[t]) = unspent
    BY <1>0, <1>1, <1>2, <1>3, <1>4 DEF outputPrefixRange, unspentPrefixRange
  <1>6. DigestSize \in Nat \ {0}
    BY DigestsAreUnique
  <1>7. \A r : r = [gte |-> <<p>> \o d, lt |-> <<p>> \o bigEndianIncrement(d)]
                   => IsPrefixRange(r, p, DigestSize, d)
    BY <1>0, <1>6, PrefixRange
  <1>8. \A r : r = [gte |-> <<q>> \o d, lt |-> <<q>> \o bigEndianIncrement(d)]
                   => IsPrefixRange(r, q, DigestSize, d)
    BY <1>0, <1>6, PrefixRange
  <1>9. IsPrefixRange(outputs, p, DigestSize, d)
    BY <1>3, <1>7, Zenon
  <1>10. IsPrefixRange(unspent, q, DigestSize, d)
    BY <1>4, <1>8, Zenon
  <1>11. ASSUME NEW o \in Outpoints
         PROVE  (\A i \in 1..DigestSize : Txid[o[1]][i] = d[i]) <=> o[1] = t
    <2>1. o[1] \in Txids /\ Txid[o[1]] \in Digests
      BY OutpointsKeyed, NamesAreDigests DEF AnyOutpoint
    <2>2. (\A i \in 1..DigestSize : Txid[o[1]][i] = d[i]) => Txid[o[1]] = d
      BY <1>0, <2>1, SameDigest
    <2> QED
      BY <1>0, <2>1, <2>2, DigestsAreUnique
  <1>12. ASSUME NEW o \in Outpoints
         PROVE  /\ k = OutKey(o) => (InRange(outputs, k) <=> o[1] = t)
                /\ k = UnspentKey(o) => (InRange(unspent, k) <=> o[1] = t)
    <2>1. o[1] \in Txids /\ Txid[o[1]] \in Digests /\ o \in AnyOutpoint
      BY OutpointsKeyed, NamesAreDigests DEF AnyOutpoint
    <2>2. \A i \in 1..DigestSize : Txid[o[1]][i] \in Bytes
      BY <2>1, DigestType
    <2>3. ASSUME k = OutKey(o)
          PROVE  InRange(outputs, k) <=> o[1] = t
      <3>1. /\ k \in Seq(Nat) /\ Len(k) = DigestSize + 2 /\ k[1] = p
            /\ \A i \in 1..DigestSize : k[i + 1] = Txid[o[1]][i]
        BY <1>1, <2>1, <2>3, OutpointKeysAre
      <3>2. DigestSize + 1 <= Len(k)
        BY <1>6, <3>1
      <3> QED
        BY <1>9, <1>11, <2>2, <3>1, <3>2 DEF IsPrefixRange
    <2>4. ASSUME k = UnspentKey(o)
          PROVE  InRange(unspent, k) <=> o[1] = t
      <3>1. /\ k \in Seq(Nat) /\ Len(k) = DigestSize + 2 /\ k[1] = q
            /\ \A i \in 1..DigestSize : k[i + 1] = Txid[o[1]][i]
        BY <1>2, <2>1, <2>4, OutpointKeysAre
      <3>2. DigestSize + 1 <= Len(k)
        BY <1>6, <3>1
      <3> QED
        BY <1>10, <1>11, <2>2, <3>1, <3>2 DEF IsPrefixRange
    <2> QED
      BY <2>3, <2>4
  <1>13. InRange(outputs, k) <=> \E o \in Outpoints : k = OutKey(o) /\ o[1] = t
    <2>1. CASE k[1] = p
      <3>1. \E o \in Outpoints : k = OutKey(o)
        BY <1>1, <2>1, KeyOfKind
      <3> QED
        BY <1>12, <3>1
    <2>2. CASE k[1] # p
      <3>1. ~InRange(outputs, k) /\ \A o \in Outpoints : k # OutKey(o)
        BY <1>1, <1>9, <2>2, KindOfKey, OutpointsKeyed, KeyIsSequence DEF IsPrefixRange
      <3> QED
        BY <3>1
    <2> QED
      BY <2>1, <2>2
  <1>14. InRange(unspent, k) <=> \E o \in Outpoints : k = UnspentKey(o) /\ o[1] = t
    <2>1. CASE k[1] = q
      <3>1. \E o \in Outpoints : k = UnspentKey(o)
        BY <1>2, <2>1, KeyOfKind
      <3> QED
        BY <1>12, <3>1
    <2>2. CASE k[1] # q
      <3>1. ~InRange(unspent, k) /\ \A o \in Outpoints : k # UnspentKey(o)
        BY <1>2, <1>10, <2>2, KindOfKey, OutpointsKeyed, KeyIsSequence DEF IsPrefixRange
      <3> QED
        BY <3>1
    <2> QED
      BY <2>1, <2>2
  <1> QED
    BY <1>5, <1>13, <1>14

\* The scan of a span of heights.
LEMMA HeightRange ==
    ASSUME NEW start \in Nat, NEW end \in Nat, NEW k, IsKey(k)
    PROVE  InRange(heightSpanRange(start, end), k) <=>
              \E b \in Blocks, t \in Txids :
                 k = HeightKey(Height[b], t) /\ start <= Height[b] /\ Height[b] <= end
  <1> DEFINE g == <<HEIGHT_IDX, start>>
             l == <<HEIGHT_IDX, end + 1>>
  <1>1. /\ g \in Seq(Nat) /\ Len(g) = 2 /\ g[1] = 6 /\ g[2] = start
        /\ l \in Seq(Nat) /\ Len(l) = 2 /\ l[1] = 6 /\ l[2] = end + 1
    BY DEF HEIGHT_IDX
  <1>2. heightSpanRange(start, end) = [gte |-> g, lt |-> l]
    BY DEF heightSpanRange
  <1> HIDE DEF g, l
  <1>3. k \in Seq(Nat) /\ Len(k) \in Nat /\ 1 <= Len(k) /\ k[1] \in Nat
    BY KeyIsSequence
  <1>4. CASE k[1] = 6
    <2>1. PICK b \in Blocks, t \in Txids : k = HeightKey(Height[b], t)
      BY <1>4, KeyOfKind
    <2>2. Height[b] \in Nat /\ DigestSize \in Nat \ {0}
      BY LedgerTypes, DigestsAreUnique
    <2>3. Len(k) = DigestSize + 2 /\ k[1] = 6 /\ k[2] = Height[b]
      BY <1>4, <2>1, <2>2, HeightKeyIs, NamesAreDigests DEF HeightKey
    <2>4. 2 \in 1..Len(k) /\ 2 <= Len(g) /\ 2 <= Len(l) /\ Len(g) <= Len(k) /\ Len(l) <= Len(k)
      BY <1>1, <2>2, <2>3
    <2>5. \A j \in 1..(2 - 1) : k[j] = g[j] /\ k[j] = l[j]
      BY <1>1, <2>3
    <2>6. Before(k, g) <=> Height[b] < start
      <3>1. CASE Height[b] < start
        BY <1>1, <1>3, <2>3, <2>4, <2>5, <3>1, FirstDifference
      <3>2. CASE ~(Height[b] < start)
        <4>1. \A j \in 1..Len(g) : g[j] <= k[j]
          BY <1>1, <2>2, <2>3, <3>2
        <4>2. ~Before(k, g)
          BY <1>1, <1>3, <2>4, <4>1, NowhereLess
        <4> QED
          BY <3>2, <4>2
      <3> QED
        BY <3>1, <3>2
    <2>7. Before(k, l) <=> Height[b] < end + 1
      <3>1. CASE Height[b] < end + 1
        BY <1>1, <1>3, <2>3, <2>4, <2>5, <3>1, FirstDifference
      <3>2. CASE ~(Height[b] < end + 1)
        <4>1. \A j \in 1..Len(l) : l[j] <= k[j]
          BY <1>1, <2>2, <2>3, <3>2
        <4>2. ~Before(k, l)
          BY <1>1, <1>3, <2>4, <4>1, NowhereLess
        <4> QED
          BY <3>2, <4>2
      <3> QED
        BY <3>1, <3>2
    <2>8. InRange(heightSpanRange(start, end), k) <=> start <= Height[b] /\ Height[b] <= end
      BY <1>2, <2>2, <2>6, <2>7 DEF InRange
    <2>9. \A c \in Blocks, u \in Txids : k = HeightKey(Height[c], u) => Height[c] = Height[b]
      BY <2>1, KeysAreUnique, LedgerTypes
    <2> QED
      BY <2>1, <2>8, <2>9
  <1>5. CASE k[1] # 6
    <2>3. 1 <= Len(g) /\ 1 <= Len(l) /\ k[1] # g[1] /\ l[1] = g[1]
      BY <1>1, <1>5
    <2>4. ~InRange([gte |-> g, lt |-> l], k)
      BY <1>1, <1>3, <2>3, OtherPrefix
    <2>1. ~InRange(heightSpanRange(start, end), k)
      BY <1>2, <2>4
    <2>2. \A c \in Blocks, u \in Txids : k # HeightKey(Height[c], u)
      BY <1>5, KindOfKey, LedgerTypes
    <2> QED
      BY <2>1, <2>2
  <1> QED
    BY <1>4, <1>5

\* The scan from a timestamp on.
LEMMA TimeRange ==
    ASSUME NEW x \in Nat, NEW k, IsKey(k)
    PROVE  InRange(timeIndexSeek(x), k) <=>
              \E b \in Blocks : k = encodeTimeIndexKey(Time[b], Height[b]) /\ x < Time[b]
  <1> DEFINE g == <<TIME_IDX, x + 1>>
             l == <<TIME_IDX + 1>>
  <1>1. /\ g \in Seq(Nat) /\ Len(g) = 2 /\ g[1] = 4 /\ g[2] = x + 1
        /\ l \in Seq(Nat) /\ Len(l) = 1 /\ l[1] = 5
    BY DEF TIME_IDX
  <1>2. timeIndexSeek(x) = [gte |-> g, lt |-> l]
    BY DEF timeIndexSeek, prefixUpperBound
  <1> HIDE DEF g, l
  <1>3. k \in Seq(Nat) /\ Len(k) \in Nat /\ 1 <= Len(k) /\ k[1] \in Nat /\ 1 \in 1..Len(k)
    BY KeyIsSequence
  <1>6. /\ 1 <= Len(g) /\ 1 <= Len(l)
        /\ \A j \in 1..(1 - 1) : k[j] = g[j]
        /\ \A j \in 1..(1 - 1) : k[j] = l[j]
    BY <1>1
  <1>4. CASE k[1] = 4
    <2>1. PICK b \in Blocks : k = encodeTimeIndexKey(Time[b], Height[b])
      BY <1>4, KeyOfKind
    <2>2. Height[b] \in Nat /\ Time[b] \in Nat
      BY LedgerTypes
    <2>3. Len(k) = 3 /\ k[1] = 4 /\ k[2] = Time[b]
      BY <2>1, <2>2, ShortKeys, Zenon
    <2>4. 2 \in 1..Len(k) /\ 2 <= Len(g) /\ Len(g) <= Len(k) /\ 1 <= Len(l)
      BY <1>1, <2>3
    <2>5. \A j \in 1..(2 - 1) : k[j] = g[j]
      BY <1>1, <2>3
    <2>6. Before(k, g) <=> Time[b] < x + 1
      <3>1. CASE Time[b] < x + 1
        BY <1>1, <1>3, <2>3, <2>4, <2>5, <3>1, FirstDifference
      <3>2. CASE ~(Time[b] < x + 1)
        <4>1. \A j \in 1..Len(g) : g[j] <= k[j]
          BY <1>1, <2>2, <2>3, <3>2
        <4>2. ~Before(k, g)
          BY <1>1, <1>3, <2>4, <4>1, NowhereLess
        <4> QED
          BY <3>2, <4>2
      <3> QED
        BY <3>1, <3>2
    <2>10. k[1] < l[1]
      BY <1>1, <2>3
    <2>7. Before(k, l)
      BY <1>1, <1>3, <1>6, <2>10, FirstDifference
    <2>8. InRange(timeIndexSeek(x), k) <=> x < Time[b]
      BY <1>2, <2>2, <2>6, <2>7 DEF InRange
    <2>9. \A c \in Blocks : k = encodeTimeIndexKey(Time[c], Height[c]) => Time[c] = Time[b]
      BY <2>1, KeysAreUnique, LedgerTypes
    <2> QED
      BY <2>1, <2>8, <2>9
  <1>5. CASE k[1] # 4
    <2>1. k[1] < 4 \/ 5 < k[1]
      <3>1. k[1] \in {0, 2, 4, 6, 8, 10, 12, 14}
        BY KeyOfKind
      <3> QED
        BY <1>5, <3>1
    <2>2. CASE k[1] < 4
      <3>2. k[1] < g[1]
        BY <1>1, <2>2
      <3>1. Before(k, g)
        BY <1>1, <1>3, <1>6, <3>2, FirstDifference
      <3> QED
        BY <1>2, <1>5, <3>1, KindOfKey, LedgerTypes DEF InRange
    <2>3. CASE 5 < k[1]
      <3>2. l[1] < k[1]
        BY <1>1, <1>3, <2>3
      <3>1. ~Before(k, l)
        BY <1>1, <1>3, <1>6, <3>2, FirstDifference
      <3> QED
        BY <1>2, <1>5, <3>1, KindOfKey, LedgerTypes DEF InRange
    <2> QED
      BY <2>1, <2>2, <2>3
  <1> QED
    BY <1>4, <1>5

\* The reverse scan of the block states.
LEMMA StateRange ==
    ASSUME NEW k, IsKey(k)
    PROVE  InReverseRange(blockStateRange, k) <=>
              \E b \in Blocks : k = encodeBlockStateKey(Height[b])
  <1> DEFINE g == <<BLOCK_STATE>>
             l == <<BLOCK_STATE + 1>>
  <1>1. /\ g \in Seq(Nat) /\ Len(g) = 1 /\ g[1] = 0
        /\ l \in Seq(Nat) /\ Len(l) = 1 /\ l[1] = 1
    BY DEF BLOCK_STATE
  <1>2. blockStateRange = [gte |-> g, lt |-> l]
    BY DEF blockStateRange, prefixUpperBound
  <1>7. DOMAIN g = {1}
    OBVIOUS
  <1> HIDE DEF g, l
  <1>3. k \in Seq(Nat) /\ Len(k) \in Nat /\ 1 <= Len(k) /\ k[1] \in Nat
    BY KeyIsSequence
  <1>6. 1 \in 1..Len(l) /\ \A j \in 1..(1 - 1) : l[j] = k[j]
    BY <1>1
  <1>4. CASE k[1] = 0
    <2>1. PICK b \in Blocks : k = encodeBlockStateKey(Height[b])
      BY <1>4, KeyOfKind
    <2>2. Len(k) = 2
      BY <2>1, ShortKeys, LedgerTypes, Zenon
    <2>3. Before(g, k)
      BY <1>1, <1>4, <1>7, <2>2 DEF Before
    <2>4. ~Before(l, k)
      BY <1>1, <1>3, <1>4, <1>6, FirstDifference
    <2> QED
      BY <1>2, <2>1, <2>3, <2>4 DEF InReverseRange
  <1>5. CASE k[1] # 0
    <2>1. 1 < k[1]
      <3>1. k[1] \in {0, 2, 4, 6, 8, 10, 12, 14}
        BY KeyOfKind
      <3> QED
        BY <1>5, <3>1
    <2>2. Before(l, k)
      BY <1>1, <1>3, <1>6, <2>1, FirstDifference
    <2>3. \A b \in Blocks : k # encodeBlockStateKey(Height[b])
      BY <1>5, KindOfKey, LedgerTypes
    <2> QED
      BY <1>2, <2>2, <2>3 DEF InReverseRange
  <1> QED
    BY <1>4, <1>5

\* Entries of the time index sort by time, block states by height.
LEMMA OrderOfKeys ==
    /\ \A x, y, h, i \in Nat :
          Before(encodeTimeIndexKey(x, h), encodeTimeIndexKey(y, i)) <=>
              x < y \/ (x = y /\ h < i)
    /\ \A h, i \in Nat : Before(encodeBlockStateKey(h), encodeBlockStateKey(i)) <=> h < i
  <1>1. ASSUME NEW x \in Nat, NEW y \in Nat, NEW h \in Nat, NEW i \in Nat
        PROVE  Before(encodeTimeIndexKey(x, h), encodeTimeIndexKey(y, i)) <=>
                   x < y \/ (x = y /\ h < i)
    <2> DEFINE k == encodeTimeIndexKey(x, h)
               l == encodeTimeIndexKey(y, i)
    <2>1. /\ k \in Seq(Nat) /\ Len(k) = 3 /\ k[1] = 4 /\ k[2] = x /\ k[3] = h
          /\ l \in Seq(Nat) /\ Len(l) = 3 /\ l[1] = 4 /\ l[2] = y /\ l[3] = i
      BY ShortKeys, Zenon
    <2> HIDE DEF k, l
    <2>2. 2 \in 1..Len(k) /\ 2 <= Len(l) /\ 3 \in 1..Len(k) /\ 3 <= Len(l) /\ Len(l) <= Len(k)
      BY <2>1
    <2>3. \A j \in 1..(2 - 1) : k[j] = l[j]
      BY <2>1
    <2>4. x < y => Before(k, l)
      BY <2>1, <2>2, <2>3, FirstDifference
    <2>5. y < x => ~Before(k, l)
      BY <2>1, <2>2, <2>3, FirstDifference
    <2>6. ASSUME x = y
          PROVE  Before(k, l) <=> h < i
      <3>1. \A j \in 1..(3 - 1) : k[j] = l[j]
        BY <2>1, <2>6
      <3>2. h < i => Before(k, l)
        BY <2>1, <2>2, <3>1, FirstDifference
      <3>3. i < h => ~Before(k, l)
        BY <2>1, <2>2, <3>1, FirstDifference
      <3>4. ASSUME h = i
            PROVE  ~Before(k, l)
        <4>1. \A j \in 1..Len(l) : l[j] <= k[j]
          BY <2>1, <2>6, <3>4
        <4> QED
          BY <2>1, <2>2, <4>1, NowhereLess
      <3> QED
        BY <3>2, <3>3, <3>4
    <2>7. Before(k, l) <=> x < y \/ (x = y /\ h < i)
      BY <2>4, <2>5, <2>6
    <2> QED
      BY <2>7 DEF k, l
  <1>2. ASSUME NEW h \in Nat, NEW i \in Nat
        PROVE  Before(encodeBlockStateKey(h), encodeBlockStateKey(i)) <=> h < i
    <2> DEFINE k == encodeBlockStateKey(h)
               l == encodeBlockStateKey(i)
    <2>1. /\ k \in Seq(Nat) /\ Len(k) = 2 /\ k[1] = 0 /\ k[2] = h
          /\ l \in Seq(Nat) /\ Len(l) = 2 /\ l[1] = 0 /\ l[2] = i
      BY ShortKeys, Zenon
    <2> HIDE DEF k, l
    <2>2. 2 \in 1..Len(k) /\ 2 <= Len(l) /\ Len(l) <= Len(k)
      BY <2>1
    <2>3. \A j \in 1..(2 - 1) : k[j] = l[j]
      BY <2>1
    <2>4. h < i => Before(k, l)
      BY <2>1, <2>2, <2>3, FirstDifference
    <2>5. i < h => ~Before(k, l)
      BY <2>1, <2>2, <2>3, FirstDifference
    <2>6. ASSUME h = i
          PROVE  ~Before(k, l)
      <3>1. \A j \in 1..Len(l) : l[j] <= k[j]
        BY <2>1, <2>6
      <3> QED
        BY <2>1, <2>2, <3>1, NowhereLess
    <2>7. Before(k, l) <=> h < i
      BY <2>4, <2>5, <2>6
    <2> QED
      BY <2>7 DEF k, l
  <1> QED
    BY <1>1, <1>2

-----------------------------------------------------------------------------
(* What the pairs stand for *)

\* Whose hash and whose txid: both are unique.
LEMMA NamesDecoded ==
    /\ \A b \in Blocks : BlockOf(Hash[b]) = b
    /\ \A t \in Txids : TxidOf(Txid[t]) = t
  BY DigestsAreUnique DEF BlockOf, TxidOf

\* The value that goes with a key of each kind.
PairOfKind(k, value) ==
    /\ \A t \in Txids : k = TxKey(t) => \E b \in Blocks : value = SavedTx(b)
    /\ \A o \in AnyOutpoint : k = OutKey(o) => o \in Outpoints /\ value \in [isSpent : BOOLEAN]
    /\ \A o \in AnyOutpoint : k = UnspentKey(o) => o \in Outpoints
    /\ \A h \in Nat, t \in Txids : k = HeightKey(h, t) => h \in Heights
    /\ \A x, h \in Nat : k = encodeTimeIndexKey(x, h) =>
          \E b \in Blocks : x = Time[b] /\ h = Height[b]
    /\ \A h \in Nat : k = encodeBlockStateKey(h) => \E b \in Blocks : h = Height[b] /\ value = Hash[b]
    /\ k = encodeOpStateKey => value \in [indexedBlockHeight : Heights]

LEMMA PairIsKey ==
    ASSUME NEW k, NEW value, IsPair(k, value)
    PROVE  IsKey(k)
  BY DEF IsPair, IsKey, TxKey, OutKey, UnspentKey, HeightKey, HashKey

\* A key of one kind is none of another.
LEMMA OtherKinds ==
    ASSUME NEW k
    PROVE  /\ k[1] # 14 => \A t \in Txids : k # TxKey(t)
           /\ k[1] # 12 => \A o \in AnyOutpoint : k # OutKey(o)
           /\ k[1] # 8 => \A o \in AnyOutpoint : k # UnspentKey(o)
           /\ k[1] # 6 => \A h \in Nat, t \in Txids : k # HeightKey(h, t)
           /\ k[1] # 2 => \A b \in Blocks, t \in Txids : k # HashKey(b, t)
           /\ k[1] # 4 => \A x, h \in Nat : k # encodeTimeIndexKey(x, h)
           /\ k[1] # 0 => \A h \in Nat : k # encodeBlockStateKey(h)
           /\ k[1] # 10 => k # encodeOpStateKey
  BY KindOfKey

LEMMA PairsOfKinds ==
    ASSUME NEW k, NEW value, IsPair(k, value)
    PROVE  PairOfKind(k, value)
  <1>0. /\ \A b \in Blocks : Height[b] \in Nat /\ Height[b] \in Heights /\ Time[b] \in Nat
        /\ Outpoints \subseteq AnyOutpoint
    BY LedgerTypes, OutpointsKeyed DEF Heights
  <1>1. \/ \E t \in Txids, b \in Blocks : k = TxKey(t) /\ value = SavedTx(b)
        \/ \E o \in Outpoints : k = OutKey(o) /\ value \in [isSpent : BOOLEAN]
        \/ \E o \in Outpoints : k = UnspentKey(o)
        \/ \E t \in Txids, b \in Blocks : k = HeightKey(Height[b], t)
        \/ \E t \in Txids, b \in Blocks : k = HashKey(b, t)
        \/ \E b \in Blocks : k = encodeTimeIndexKey(Time[b], Height[b])
        \/ \E b \in Blocks : k = encodeBlockStateKey(Height[b]) /\ value = Hash[b]
        \/ k = encodeOpStateKey /\ value \in [indexedBlockHeight : Heights]
    BY Zenon DEF IsPair, TxKey, OutKey, UnspentKey, HeightKey, HashKey
  <1>2. CASE \E t \in Txids, b \in Blocks : k = TxKey(t) /\ value = SavedTx(b)
    <2>1. k[1] = 14
      BY <1>2, KindOfKey
    <2> QED
      BY <1>2, <2>1, OtherKinds DEF PairOfKind
  <1>3. CASE \E o \in Outpoints : k = OutKey(o) /\ value \in [isSpent : BOOLEAN]
    <2>1. PICK o \in Outpoints : k = OutKey(o) /\ value \in [isSpent : BOOLEAN]
      BY <1>3
    <2>2. o \in AnyOutpoint /\ k[1] = 12
      BY <1>0, <2>1, KindOfKey
    <2>3. \A q \in AnyOutpoint : k = OutKey(q) => q = o
      BY <2>1, <2>2, KeysAreUnique, Zenon
    <2> QED
      BY <2>1, <2>2, <2>3, OtherKinds DEF PairOfKind
  <1>4. CASE \E o \in Outpoints : k = UnspentKey(o)
    <2>1. PICK o \in Outpoints : k = UnspentKey(o)
      BY <1>4
    <2>2. o \in AnyOutpoint /\ k[1] = 8
      BY <1>0, <2>1, KindOfKey
    <2>3. \A q \in AnyOutpoint : k = UnspentKey(q) => q = o
      BY <2>1, <2>2, KeysAreUnique, Zenon
    <2> QED
      BY <2>1, <2>2, <2>3, OtherKinds DEF PairOfKind
  <1>5. CASE \E t \in Txids, b \in Blocks : k = HeightKey(Height[b], t)
    <2>1. PICK t \in Txids, b \in Blocks : k = HeightKey(Height[b], t)
      BY <1>5
    <2>2. Height[b] \in Nat /\ Height[b] \in Heights /\ k[1] = 6
      BY <1>0, <2>1, KindOfKey
    <2>3. \A h \in Nat, u \in Txids : k = HeightKey(h, u) => h = Height[b]
      BY <2>1, <2>2, KeysAreUnique, Zenon
    <2> QED
      BY <2>1, <2>2, <2>3, OtherKinds DEF PairOfKind
  <1>6. CASE \E t \in Txids, b \in Blocks : k = HashKey(b, t)
    <2>1. k[1] = 2
      BY <1>6, KindOfKey
    <2> QED
      BY <2>1, OtherKinds DEF PairOfKind
  <1>7. CASE \E b \in Blocks : k = encodeTimeIndexKey(Time[b], Height[b])
    <2>1. PICK b \in Blocks : k = encodeTimeIndexKey(Time[b], Height[b])
      BY <1>7
    <2>2. k[1] = 4
      BY <1>0, <2>1, KindOfKey
    <2>3. \A x, h \in Nat : k = encodeTimeIndexKey(x, h) => x = Time[b] /\ h = Height[b]
      BY <1>0, <2>1, KeysAreUnique
    <2> QED
      BY <2>2, <2>3, OtherKinds DEF PairOfKind
  <1>8. CASE \E b \in Blocks : k = encodeBlockStateKey(Height[b]) /\ value = Hash[b]
    <2>1. PICK b \in Blocks : k = encodeBlockStateKey(Height[b]) /\ value = Hash[b]
      BY <1>8
    <2>2. k[1] = 0
      BY <1>0, <2>1, KindOfKey
    <2>3. \A h \in Nat : k = encodeBlockStateKey(h) => h = Height[b]
      BY <1>0, <2>1, KeysAreUnique
    <2> QED
      BY <2>1, <2>2, <2>3, OtherKinds DEF PairOfKind
  <1>9. CASE k = encodeOpStateKey /\ value \in [indexedBlockHeight : Heights]
    <2>1. k[1] = 10
      BY <1>9, KindOfKey
    <2> QED
      BY <1>9, <2>1, OtherKinds DEF PairOfKind
  <1> QED
    BY <1>1, <1>2, <1>3, <1>4, <1>5, <1>6, <1>7, <1>8, <1>9

Pairs(pairs) == \A k \in DOMAIN pairs : IsPair(k, pairs[k])

OperationStates == [indexedBlockHeight : Heights]

\* The store d is the one that the pairs stand for: the same things are kept.
ReadsTx(d, pairs) ==
    \A t \in Txids :
        /\ TxKey(t) \in DOMAIN pairs <=> d.tx[t] # NoBlock
        /\ TxKey(t) \in DOMAIN pairs => pairs[TxKey(t)] = SavedTx(d.tx[t])

ReadsOutput(d, pairs) ==
    \A o \in Outpoints :
        /\ OutKey(o) \in DOMAIN pairs <=> d.output[o] # "absent"
        /\ OutKey(o) \in DOMAIN pairs => (pairs[OutKey(o)].isSpent <=> d.output[o] = "spent")

ReadsIndexes(d, pairs) ==
    /\ \A o \in Outpoints : UnspentKey(o) \in DOMAIN pairs <=> o \in d.unspent
    /\ \A h \in Heights, t \in Txids : HeightKey(h, t) \in DOMAIN pairs <=> <<h, t>> \in d.heightIndex
    /\ \A b \in Blocks, t \in Txids : HashKey(b, t) \in DOMAIN pairs <=> <<b, t>> \in d.hashIndex
    /\ \A x \in Nat, h \in Heights :
          encodeTimeIndexKey(x, h) \in DOMAIN pairs <=> <<x, h>> \in d.timeIndex

ReadsStates(d, pairs) ==
    /\ \A h \in Heights :
          /\ encodeBlockStateKey(h) \in DOMAIN pairs <=> d.blockState[h] # NoBlock
          /\ encodeBlockStateKey(h) \in DOMAIN pairs =>
                pairs[encodeBlockStateKey(h)] = Hash[d.blockState[h]] /\ Height[d.blockState[h]] = h
    /\ encodeOpStateKey \in DOMAIN pairs <=> d.opState # NoState
    /\ encodeOpStateKey \in DOMAIN pairs => pairs[encodeOpStateKey] = d.opState

\* The record of a transaction holds the time of its block.
Timed(d) == d.time = [t \in Txids |-> IF d.tx[t] = NoBlock THEN 0 ELSE Time[d.tx[t]]]

Reads(d, pairs) ==
    /\ d \in Stores(OperationStates)
    /\ Timed(d)
    /\ ReadsTx(d, pairs)
    /\ ReadsOutput(d, pairs)
    /\ ReadsIndexes(d, pairs)
    /\ ReadsStates(d, pairs)

LEMMA SavedTxBlock ==
    \A b \in Blocks : SavedTx(b).blockHash = Hash[b] /\ BlockOf(SavedTx(b).blockHash) = b
  BY NamesDecoded DEF SavedTx

\* There is one store that the pairs stand for.
LEMMA ReadsUnique ==
    ASSUME NEW d, NEW e, NEW pairs, Reads(d, pairs), Reads(e, pairs)
    PROVE  d = e
  <1>1. d \in Stores(OperationStates) /\ e \in Stores(OperationStates)
    BY DEF Reads
  <1>2. d.tx = e.tx
    <2>1. d.tx \in [Txids -> Blocks \cup {NoBlock}] /\ e.tx \in [Txids -> Blocks \cup {NoBlock}]
      BY <1>1 DEF Stores
    <2>2. ASSUME NEW t \in Txids
          PROVE  d.tx[t] = e.tx[t]
      <3>1. d.tx[t] # NoBlock <=> e.tx[t] # NoBlock
        BY DEF Reads, ReadsTx
      <3>2. ASSUME d.tx[t] # NoBlock
            PROVE  SavedTx(d.tx[t]) = SavedTx(e.tx[t])
        BY <3>2 DEF Reads, ReadsTx
      <3> QED
        BY <2>1, <3>1, <3>2, SavedTxBlock
    <2> QED
      BY <2>1, <2>2
  <1>3. d.output = e.output
    <2>1. d.output \in [Outpoints -> OutputStatus] /\ e.output \in [Outpoints -> OutputStatus]
      BY <1>1 DEF Stores
    <2>2. ASSUME NEW o \in Outpoints
          PROVE  d.output[o] = e.output[o]
      BY <2>1 DEF Reads, ReadsOutput, OutputStatus
    <2> QED
      BY <2>1, <2>2
  <1>4. d.unspent = e.unspent
    BY <1>1 DEF Reads, ReadsIndexes, Stores
  <1>9. d.hashIndex = e.hashIndex
    <2>1. d.hashIndex \subseteq Blocks \X Txids /\ e.hashIndex \subseteq Blocks \X Txids
      BY <1>1 DEF Stores
    <2>2. \A b \in Blocks, t \in Txids : <<b, t>> \in d.hashIndex <=> <<b, t>> \in e.hashIndex
      BY DEF Reads, ReadsIndexes
    <2> QED
      BY <2>1, <2>2
  <1>5. d.heightIndex = e.heightIndex
    <2>1. d.heightIndex \subseteq Heights \X Txids /\ e.heightIndex \subseteq Heights \X Txids
      BY <1>1 DEF Stores
    <2>2. \A h \in Heights, t \in Txids : <<h, t>> \in d.heightIndex <=> <<h, t>> \in e.heightIndex
      BY DEF Reads, ReadsIndexes
    <2> QED
      BY <2>1, <2>2
  <1>6. d.timeIndex = e.timeIndex
    <2>1. d.timeIndex \subseteq Nat \X Heights /\ e.timeIndex \subseteq Nat \X Heights
      BY <1>1 DEF Stores
    <2>2. \A x \in Nat, h \in Heights : <<x, h>> \in d.timeIndex <=> <<x, h>> \in e.timeIndex
      BY DEF Reads, ReadsIndexes
    <2> QED
      BY <2>1, <2>2
  <1>7. d.blockState = e.blockState
    <2>1. /\ d.blockState \in [Heights -> Blocks \cup {NoBlock}]
          /\ e.blockState \in [Heights -> Blocks \cup {NoBlock}]
      BY <1>1 DEF Stores
    <2>2. ASSUME NEW h \in Heights
          PROVE  d.blockState[h] = e.blockState[h]
      <3>1. d.blockState[h] # NoBlock <=> e.blockState[h] # NoBlock
        BY DEF Reads, ReadsStates
      <3>2. ASSUME d.blockState[h] # NoBlock
            PROVE  Hash[d.blockState[h]] = Hash[e.blockState[h]]
        BY <3>2 DEF Reads, ReadsStates
      <3> QED
        BY <2>1, <3>1, <3>2, DigestsAreUnique
    <2> QED
      BY <2>1, <2>2
  <1>8. d.opState = e.opState
    BY DEF Reads, ReadsStates
  <1>10. d.time = e.time
    BY <1>2 DEF Reads, Timed
  <1> QED
    BY <1>1, <1>2, <1>3, <1>4, <1>5, <1>6, <1>7, <1>8, <1>9, <1>10 DEF Stores

-----------------------------------------------------------------------------
(* Decoded is that store *)

LEMMA PairOfKey ==
    ASSUME Pairs(kv), NEW k \in DOMAIN kv
    PROVE  IsKey(k) /\ PairOfKind(k, kv[k])
  BY PairIsKey, PairsOfKinds DEF Pairs

LEMMA DecodedRecords ==
    ASSUME Pairs(kv)
    PROVE  /\ Decoded.tx \in [Txids -> Blocks \cup {NoBlock}] /\ ReadsTx(Decoded, kv)
           /\ Decoded.output \in [Outpoints -> OutputStatus] /\ ReadsOutput(Decoded, kv)
  <1>1. ASSUME NEW t \in Txids
        PROVE  /\ TxKey(t) \in DOMAIN kv <=> Decoded.tx[t] # NoBlock
               /\ TxKey(t) \in DOMAIN kv =>
                     Decoded.tx[t] \in Blocks /\ kv[TxKey(t)] = SavedTx(Decoded.tx[t])
    <2>1. Decoded.tx[t] = IF TxKey(t) \in DOMAIN kv THEN BlockOf(kv[TxKey(t)].blockHash) ELSE NoBlock
      BY DEF Decoded, Has, TxKey
    <2>2. ASSUME TxKey(t) \in DOMAIN kv
          PROVE  \E b \in Blocks : kv[TxKey(t)] = SavedTx(b)
      BY <2>2, PairOfKey DEF PairOfKind
    <2> QED
      BY <2>1, <2>2, SavedTxBlock, LedgerTypes
  <1>2. Decoded.tx \in [Txids -> Blocks \cup {NoBlock}]
    <2>1. Decoded.tx = [t \in Txids |-> Decoded.tx[t]]
      BY DEF Decoded
    <2> QED
      BY <1>1, <2>1
  <1>3. ASSUME NEW o \in Outpoints
        PROVE  /\ OutKey(o) \in DOMAIN kv <=> Decoded.output[o] # "absent"
               /\ OutKey(o) \in DOMAIN kv => (kv[OutKey(o)].isSpent <=> Decoded.output[o] = "spent")
               /\ Decoded.output[o] \in OutputStatus
    <2>1. Decoded.output[o] =
             IF OutKey(o) \notin DOMAIN kv THEN "absent"
             ELSE IF kv[OutKey(o)].isSpent THEN "spent" ELSE "unspent"
      BY Zenon DEF Decoded, Has, OutKey
    <2> QED
      BY <2>1 DEF OutputStatus
  <1>4. Decoded.output \in [Outpoints -> OutputStatus]
    <2>1. Decoded.output = [o \in Outpoints |-> Decoded.output[o]]
      BY DEF Decoded
    <2> QED
      BY <1>3, <2>1
  <1> QED
    BY <1>1, <1>2, <1>3, <1>4 DEF ReadsTx, ReadsOutput

LEMMA DecodedTimes ==
    ASSUME Pairs(kv)
    PROVE  Decoded.time \in [Txids -> Nat] /\ Timed(Decoded)
  <1>1. ASSUME NEW t \in Txids
        PROVE  /\ Decoded.time[t] = IF Decoded.tx[t] = NoBlock THEN 0 ELSE Time[Decoded.tx[t]]
               /\ Decoded.time[t] \in Nat
    <2>1. Decoded.time[t] = IF TxKey(t) \in DOMAIN kv THEN kv[TxKey(t)].blockTime ELSE 0
      BY DEF Decoded, Has, TxKey
    <2>2. /\ TxKey(t) \in DOMAIN kv <=> Decoded.tx[t] # NoBlock
          /\ TxKey(t) \in DOMAIN kv => kv[TxKey(t)] = SavedTx(Decoded.tx[t])
          /\ Decoded.tx[t] # NoBlock => Decoded.tx[t] \in Blocks
      BY DecodedRecords DEF ReadsTx
    <2>3. \A b : SavedTx(b).blockTime = Time[b]
      BY DEF SavedTx
    <2> QED
      BY <2>1, <2>2, <2>3, LedgerTypes
  <1>2. Decoded.time = [t \in Txids |-> Decoded.time[t]]
    BY DEF Decoded
  <1> QED
    BY <1>1, <1>2 DEF Timed

LEMMA DecodedIndexes ==
    ASSUME Pairs(kv)
    PROVE  /\ Decoded.unspent \subseteq Outpoints
           /\ Decoded.heightIndex \subseteq Heights \X Txids
           /\ Decoded.hashIndex \subseteq Blocks \X Txids
           /\ Decoded.timeIndex \subseteq Nat \X Heights
           /\ ReadsIndexes(Decoded, kv)
  <1>0. /\ \A b \in Blocks : Height[b] \in Nat /\ Height[b] \in Heights /\ Time[b] \in Nat
        /\ Heights \subseteq Nat
        /\ Outpoints \subseteq AnyOutpoint
    BY LedgerTypes, OutpointsKeyed DEF Heights
  <1>1. Decoded.unspent = {o \in Outpoints : UnspentKey(o) \in DOMAIN kv}
    <2> DEFINE read(k) == <<TxidOf(decodeUnspentIndexKey(k).txid), decodeUnspentIndexKey(k).vout>>
    <2>1. Decoded.unspent = {read(k) : k \in KeysUnder(UNSPENT_IDX)}
      BY DEF Decoded
    <2>2. \A o \in Outpoints : read(UnspentKey(o)) = o
      <3>1. \A o \in Outpoints : decodeUnspentIndexKey(UnspentKey(o)) = [txid |-> Txid[o[1]], vout |-> o[2]]
        BY <1>0, DecodeKey
      <3>2. \A o \in Outpoints : o[1] \in Txids /\ o = <<o[1], o[2]>>
        BY <1>0 DEF AnyOutpoint
      <3> QED
        BY <3>1, <3>2, NamesDecoded
    <2>3. \A k \in KeysUnder(UNSPENT_IDX) : \E o \in Outpoints : k = UnspentKey(o)
      BY PairOfKey, KeyOfKind DEF KeysUnder, UNSPENT_IDX
    <2>4. \A o \in Outpoints : UnspentKey(o) \in DOMAIN kv => UnspentKey(o) \in KeysUnder(UNSPENT_IDX)
      BY <1>0, KindOfKey DEF KeysUnder, UNSPENT_IDX
    <2> HIDE DEF read
    <2>5. \A k \in KeysUnder(UNSPENT_IDX) : k \in DOMAIN kv
      BY DEF KeysUnder
    <2> QED
      BY <2>1, <2>2, <2>3, <2>4, <2>5
  <1>2. Decoded.heightIndex = {p \in Heights \X Txids : HeightKey(p[1], p[2]) \in DOMAIN kv}
    <2> DEFINE read(k) == <<decodeHeightIndexKey(k).height, TxidOf(decodeHeightIndexKey(k).txid)>>
    <2>1. Decoded.heightIndex = {read(k) : k \in KeysUnder(HEIGHT_IDX)}
      BY DEF Decoded
    <2>2. \A h \in Heights, t \in Txids : read(HeightKey(h, t)) = <<h, t>>
      BY <1>0, DecodeKey, NamesDecoded
    <2>3. \A k \in KeysUnder(HEIGHT_IDX) : \E h \in Heights, t \in Txids : k = HeightKey(h, t)
      BY <1>0, PairOfKey, KeyOfKind DEF KeysUnder, HEIGHT_IDX
    <2>4. \A h \in Heights, t \in Txids :
             HeightKey(h, t) \in DOMAIN kv => HeightKey(h, t) \in KeysUnder(HEIGHT_IDX)
      BY <1>0, KindOfKey DEF KeysUnder, HEIGHT_IDX
    <2>5. \A k \in KeysUnder(HEIGHT_IDX) : k \in DOMAIN kv
      BY DEF KeysUnder
    <2> HIDE DEF read
    <2> QED
      BY <2>1, <2>2, <2>3, <2>4, <2>5
  <1>3. Decoded.hashIndex = {p \in Blocks \X Txids : HashKey(p[1], p[2]) \in DOMAIN kv}
    <2> DEFINE read(k) == <<BlockOf(decodeHashIndexKey(k).blockHash), TxidOf(decodeHashIndexKey(k).txid)>>
    <2>1. Decoded.hashIndex = {read(k) : k \in KeysUnder(HASH_IDX)}
      BY DEF Decoded
    <2>2. \A b \in Blocks, t \in Txids : read(HashKey(b, t)) = <<b, t>>
      BY DecodeKey, NamesDecoded
    <2>3. \A k \in KeysUnder(HASH_IDX) : \E b \in Blocks, t \in Txids : k = HashKey(b, t)
      BY PairOfKey, KeyOfKind DEF KeysUnder, HASH_IDX
    <2>4. \A b \in Blocks, t \in Txids :
             HashKey(b, t) \in DOMAIN kv => HashKey(b, t) \in KeysUnder(HASH_IDX)
      BY KindOfKey DEF KeysUnder, HASH_IDX
    <2>5. \A k \in KeysUnder(HASH_IDX) : k \in DOMAIN kv
      BY DEF KeysUnder
    <2> HIDE DEF read
    <2> QED
      BY <2>1, <2>2, <2>3, <2>4, <2>5
  <1>4. Decoded.timeIndex = {p \in Nat \X Heights : encodeTimeIndexKey(p[1], p[2]) \in DOMAIN kv}
    <2> DEFINE read(k) == <<decodeTimeIndexKey(k).blockTime, decodeTimeIndexKey(k).blockHeight>>
    <2>1. Decoded.timeIndex = {read(k) : k \in KeysUnder(TIME_IDX)}
      BY DEF Decoded
    <2>2. \A x \in Nat, h \in Heights : read(encodeTimeIndexKey(x, h)) = <<x, h>>
      BY <1>0, DecodeKey
    <2>3. \A k \in KeysUnder(TIME_IDX) : \E x \in Nat, h \in Heights : k = encodeTimeIndexKey(x, h)
      BY <1>0, PairOfKey, KeyOfKind DEF KeysUnder, TIME_IDX
    <2>4. \A x \in Nat, h \in Heights :
             encodeTimeIndexKey(x, h) \in DOMAIN kv => encodeTimeIndexKey(x, h) \in KeysUnder(TIME_IDX)
      BY <1>0, KindOfKey DEF KeysUnder, TIME_IDX
    <2>5. \A k \in KeysUnder(TIME_IDX) : k \in DOMAIN kv
      BY DEF KeysUnder
    <2> HIDE DEF read
    <2> QED
      BY <2>1, <2>2, <2>3, <2>4, <2>5
  <1> QED
    BY <1>1, <1>2, <1>3, <1>4 DEF ReadsIndexes

LEMMA DecodedStates ==
    ASSUME Pairs(kv)
    PROVE  /\ Decoded.blockState \in [Heights -> Blocks \cup {NoBlock}]
           /\ Decoded.opState \in OperationStates \cup {NoState}
           /\ ReadsStates(Decoded, kv)
  <1>0. Heights \subseteq Nat
    BY LedgerTypes DEF Heights
  <1>1. ASSUME NEW h \in Heights
        PROVE  /\ encodeBlockStateKey(h) \in DOMAIN kv <=> Decoded.blockState[h] # NoBlock
               /\ encodeBlockStateKey(h) \in DOMAIN kv =>
                     /\ Decoded.blockState[h] \in Blocks
                     /\ kv[encodeBlockStateKey(h)] = Hash[Decoded.blockState[h]]
                     /\ Height[Decoded.blockState[h]] = h
    <2>1. Decoded.blockState[h] = IF encodeBlockStateKey(h) \in DOMAIN kv
                                  THEN BlockOf(kv[encodeBlockStateKey(h)]) ELSE NoBlock
      BY DEF Decoded, Has
    <2>2. ASSUME encodeBlockStateKey(h) \in DOMAIN kv
          PROVE  \E b \in Blocks : h = Height[b] /\ kv[encodeBlockStateKey(h)] = Hash[b]
      BY <1>0, <2>2, PairOfKey DEF PairOfKind
    <2> QED
      BY <2>1, <2>2, NamesDecoded, LedgerTypes
  <1>2. Decoded.blockState \in [Heights -> Blocks \cup {NoBlock}]
    <2>1. Decoded.blockState = [h \in Heights |-> Decoded.blockState[h]]
      BY DEF Decoded
    <2> QED
      BY <1>1, <2>1
  <1>3. Decoded.opState = IF encodeOpStateKey \in DOMAIN kv THEN kv[encodeOpStateKey] ELSE NoState
    BY DEF Decoded, Has
  <1>4. encodeOpStateKey \in DOMAIN kv => kv[encodeOpStateKey] \in OperationStates
    BY PairOfKey DEF PairOfKind, OperationStates
  <1>5. NoState \notin OperationStates
    BY NoStateIsNone DEF OperationStates
  <1> QED
    BY <1>1, <1>2, <1>3, <1>4, <1>5 DEF ReadsStates

\* What Decoded reads of the pairs: one store, in which the same things are kept.
LEMMA DecodedReads == Pairs(kv) => Reads(Decoded, kv)
  <1> SUFFICES ASSUME Pairs(kv)
               PROVE  Reads(Decoded, kv)
    OBVIOUS
  <1>1. Decoded \in Stores(OperationStates)
    <2>1. Decoded = [ tx |-> Decoded.tx, time |-> Decoded.time,
                      output |-> Decoded.output, unspent |-> Decoded.unspent,
                      heightIndex |-> Decoded.heightIndex, hashIndex |-> Decoded.hashIndex,
                      timeIndex |-> Decoded.timeIndex, blockState |-> Decoded.blockState,
                      opState |-> Decoded.opState ]
      BY DEF Decoded
    <2> QED
      BY <2>1, DecodedRecords, DecodedTimes, DecodedIndexes, DecodedStates DEF Stores
  <1> QED
    BY <1>1, DecodedRecords, DecodedTimes, DecodedIndexes, DecodedStates DEF Reads

-----------------------------------------------------------------------------
(* The scans *)

\* The vouts read for a transaction are those of its outputs in the store.
LEMMA OutputsRead ==
    ASSUME Pairs(kv), NEW t \in Txids, NEW filterSpent \in BOOLEAN
    PROVE  getOutputsForTxid(Txid[t], filterSpent) =
              {o[2] : o \in GetOutputsForTxid(Decoded, t, filterSpent)}
  <1> DEFINE mine == {o \in Outpoints : o[1] = t}
  <1>0. OutpointsOf({t}) = mine /\ Outpoints \subseteq AnyOutpoint
    BY OutpointsKeyed DEF OutpointsOf
  <1>1. \A o \in mine : o = <<t, o[2]>> /\ OutKey(o) = encodeOutputKey(Txid[t], o[2])
    BY <1>0 DEF AnyOutpoint, OutKey
  <1>2. \A o \in mine : OutKey(o) \in DOMAIN kv <=> Decoded.output[o] # "absent"
    BY DecodedRecords DEF ReadsOutput
  <1>3. \A o \in mine : UnspentKey(o) \in DOMAIN kv <=> o \in Decoded.unspent
    BY DecodedIndexes DEF ReadsIndexes
  <1>4. \A o \in mine : decodeOutputKey(OutKey(o)).vout = o[2] /\ decodeUnspentIndexKey(UnspentKey(o)).vout = o[2]
    <2>1. \A o \in AnyOutpoint :
             /\ decodeOutputKey(OutKey(o)) = [txid |-> Txid[o[1]], vout |-> o[2]]
             /\ decodeUnspentIndexKey(UnspentKey(o)) = [txid |-> Txid[o[1]], vout |-> o[2]]
      BY DecodeKey
    <2> QED
      BY <1>0, <2>1
  <1>5. KeysIn(outputPrefixRange(Txid[t])) = {OutKey(o) : o \in {q \in mine : OutKey(q) \in DOMAIN kv}}
    <2>1. \A k \in DOMAIN kv : InRange(outputPrefixRange(Txid[t]), k) <=> \E o \in mine : k = OutKey(o)
      BY PairOfKey, OutputRanges
    <2> QED
      BY <2>1 DEF KeysIn
  <1>6. KeysIn(unspentPrefixRange(Txid[t])) =
           {UnspentKey(o) : o \in {q \in mine : UnspentKey(q) \in DOMAIN kv}}
    <2>1. \A k \in DOMAIN kv : InRange(unspentPrefixRange(Txid[t]), k) <=> \E o \in mine : k = UnspentKey(o)
      BY PairOfKey, OutputRanges
    <2> QED
      BY <2>1 DEF KeysIn
  <1>7. GetOutputsForTxid(Decoded, t, filterSpent) =
           {o \in mine : Decoded.output[o] # "absent" /\ (filterSpent => o \in Decoded.unspent)}
    BY <1>0 DEF GetOutputsForTxid
  <1> HIDE DEF mine
  <1>8. CASE filterSpent
    <2>1. getOutputsForTxid(Txid[t], filterSpent) =
             {v \in {decodeUnspentIndexKey(k).vout : k \in KeysIn(unspentPrefixRange(Txid[t]))} :
                 encodeOutputKey(Txid[t], v) \in DOMAIN kv}
      BY <1>8 DEF getOutputsForTxid, Has
    <2>2. {decodeUnspentIndexKey(k).vout : k \in KeysIn(unspentPrefixRange(Txid[t]))} =
             {o[2] : o \in {q \in mine : q \in Decoded.unspent}}
      BY <1>3, <1>4, <1>6
    <2>3. \A o \in mine : encodeOutputKey(Txid[t], o[2]) \in DOMAIN kv <=> Decoded.output[o] # "absent"
      BY <1>1, <1>2
    <2>4. getOutputsForTxid(Txid[t], filterSpent) =
             {v \in {o[2] : o \in {q \in mine : q \in Decoded.unspent}} :
                 encodeOutputKey(Txid[t], v) \in DOMAIN kv}
      BY <2>1, <2>2
    <2>5. GetOutputsForTxid(Decoded, t, filterSpent) =
             {o \in mine : Decoded.output[o] # "absent" /\ o \in Decoded.unspent}
      BY <1>7, <1>8
    <2> QED
      BY <2>3, <2>4, <2>5
  <1>9. CASE ~filterSpent
    <2>1. getOutputsForTxid(Txid[t], filterSpent) =
             {decodeOutputKey(k).vout : k \in KeysIn(outputPrefixRange(Txid[t]))}
      BY <1>9 DEF getOutputsForTxid
    <2> QED
      BY <1>2, <1>4, <1>5, <1>7, <1>9, <2>1
  <1> QED
    BY <1>8, <1>9

\* What is fetched for txids is what the store holds under them.
LEMMA FetchRead ==
    ASSUME Pairs(kv), NEW T \in SUBSET Txids, NEW filterSpent \in BOOLEAN
    PROVE  fetchTransactions({Txid[t] : t \in T}, filterSpent) =
              Answer(FetchTransactions(Decoded, T, filterSpent))
  <1>1. \A t \in T : Has(encodeTxKey(Txid[t])) <=> Decoded.tx[t] # NoBlock
    BY DecodedRecords DEF ReadsTx, Has, TxKey
  <1> DEFINE outs(t) == GetOutputsForTxid(Decoded, t, filterSpent)
             read(t) == {o[2] : o \in outs(t)}
  <1>2. \A t \in T : getOutputsForTxid(Txid[t], filterSpent) = read(t)
    BY OutputsRead
  <1>3. \A t \in T : read(t) # {} <=> outs(t) # {}
    OBVIOUS
  <1> DEFINE found == {t \in T : Decoded.tx[t] # NoBlock /\ outs(t) # {}}
  <1>4. FetchTransactions(Decoded, T, filterSpent) = {[id |-> t, outputs |-> outs(t)] : t \in found}
    BY DEF FetchTransactions
  <1>5. Answer(FetchTransactions(Decoded, T, filterSpent)) =
           {[id |-> Txid[t], outputs |-> read(t)] : t \in found}
    <2> DEFINE rec(t) == [id |-> t, outputs |-> outs(t)]
               show(r) == [id |-> Txid[r.id], outputs |-> {o[2] : o \in r.outputs}]
    <2>1. \A t \in found : show(rec(t)) = [id |-> Txid[t], outputs |-> read(t)]
      <3> HIDE DEF outs, found
      <3> QED
        OBVIOUS
    <2>2. FetchTransactions(Decoded, T, filterSpent) = {rec(t) : t \in found}
      BY <1>4
    <2>3. \A S : Answer(S) = {show(r) : r \in S}
      BY DEF Answer
    <2> HIDE DEF rec, show, found, outs, read
    <2> QED
      BY <2>1, <2>2, <2>3
  <1>6. {x \in {Txid[t] : t \in T} :
            Has(encodeTxKey(x)) /\ getOutputsForTxid(x, filterSpent) # {}} = {Txid[t] : t \in found}
    <2> HIDE DEF outs, read
    <2> QED
      BY <1>1, <1>2, <1>3
  <1>7. fetchTransactions({Txid[t] : t \in T}, filterSpent) =
           {[id |-> x, outputs |-> getOutputsForTxid(x, filterSpent)] : x \in {Txid[t] : t \in found}}
    BY <1>6 DEF fetchTransactions
  <1>8. \A t \in found : t \in T
    OBVIOUS
  <1> HIDE DEF outs, read, found
  <1> QED
    BY <1>2, <1>5, <1>7, <1>8

\* The txids in a span of heights.
LEMMA HeightsRead ==
    ASSUME Pairs(kv), NEW start \in Nat, NEW end \in Nat
    PROVE  {decodeHeightIndexKey(k).txid : k \in KeysIn(heightSpanRange(start, end))} =
              {Txid[t] : t \in {u \in Txids : \E h \in start..end : <<h, u>> \in Decoded.heightIndex}}
  <1>0. /\ \A b \in Blocks : Height[b] \in Nat /\ Height[b] \in Heights
        /\ Heights \subseteq Nat /\ \A h \in Heights : \E b \in Blocks : h = Height[b]
    BY LedgerTypes DEF Heights
  <1>1. \A k \in DOMAIN kv : InRange(heightSpanRange(start, end), k) <=>
           \E h \in Heights, t \in Txids : k = HeightKey(h, t) /\ start <= h /\ h <= end
    BY <1>0, PairOfKey, HeightRange
  <1>2. \A h \in Heights, t \in Txids : HeightKey(h, t) \in DOMAIN kv <=> <<h, t>> \in Decoded.heightIndex
    BY DecodedIndexes DEF ReadsIndexes
  <1>3. Decoded.heightIndex \subseteq Heights \X Txids
    BY DecodedIndexes
  <1>4. \A h \in Heights, t \in Txids : decodeHeightIndexKey(HeightKey(h, t)).txid = Txid[t]
    BY <1>0, DecodeKey
  <1>5. KeysIn(heightSpanRange(start, end)) =
           {k \in DOMAIN kv : \E h \in Heights, t \in Txids : k = HeightKey(h, t) /\ start <= h /\ h <= end}
    BY <1>1 DEF KeysIn
  <1>6. \A k \in KeysIn(heightSpanRange(start, end)) : \E h \in Heights, t \in Txids :
           k = HeightKey(h, t) /\ h \in start..end /\ <<h, t>> \in Decoded.heightIndex
    BY <1>0, <1>2, <1>5
  <1>7. \A h \in start..end, t \in Txids : <<h, t>> \in Decoded.heightIndex =>
           HeightKey(h, t) \in KeysIn(heightSpanRange(start, end)) /\ h \in Heights
    BY <1>0, <1>2, <1>3, <1>5
  <1> DEFINE txid(k) == decodeHeightIndexKey(k).txid
             keys == KeysIn(heightSpanRange(start, end))
             T == {u \in Txids : \E h \in start..end : <<h, u>> \in Decoded.heightIndex}
  <1>8. \A k \in keys : \E t \in T : txid(k) = Txid[t]
    BY <1>4, <1>6
  <1>9. \A t \in T : \E k \in keys : txid(k) = Txid[t]
    BY <1>4, <1>7
  <1> HIDE DEF txid, keys, T
  <1>10. {txid(k) : k \in keys} = {Txid[t] : t \in T}
    BY <1>8, <1>9
  <1> QED
    BY <1>10 DEF txid, keys, T

\* A scan of a span of heights finds the transactions of these heights.
LEMMA SpanRead ==
    ASSUME Pairs(kv), NEW start \in Nat, NEW end \in Nat, NEW filterSpent \in BOOLEAN
    PROVE  getTransactionsByBlockHeightRange(start, end, filterSpent) =
              Answer(UNION {GetTransactionsByBlockHeight(Decoded, h, filterSpent) : h \in start..end})
  <1> DEFINE at(h) == {t \in Txids : <<h, t>> \in Decoded.heightIndex}
             T == {t \in Txids : \E h \in start..end : <<h, t>> \in Decoded.heightIndex}
             good(t) == Decoded.tx[t] # NoBlock /\ GetOutputsForTxid(Decoded, t, filterSpent) # {}
             rec(t) == [id |-> t, outputs |-> GetOutputsForTxid(Decoded, t, filterSpent)]
  <1>1. \A S : FetchTransactions(Decoded, S, filterSpent) = {rec(t) : t \in {u \in S : good(u)}}
    BY DEF FetchTransactions
  <1>2. \A h : GetTransactionsByBlockHeight(Decoded, h, filterSpent) =
                  FetchTransactions(Decoded, at(h), filterSpent)
    BY DEF GetTransactionsByBlockHeight
  <1>3. T = UNION {at(h) : h \in start..end}
    <2>1. ASSUME NEW t \in T
          PROVE  t \in UNION {at(h) : h \in start..end}
      <3>1. PICK h \in start..end : t \in at(h)
        OBVIOUS
      <3>2. at(h) \in {at(i) : i \in start..end}
        OBVIOUS
      <3> HIDE DEF at
      <3> QED
        BY <3>1, <3>2
    <2>2. ASSUME NEW t \in UNION {at(h) : h \in start..end}
          PROVE  t \in T
      <3>1. PICK h \in start..end : t \in at(h)
        <4> HIDE DEF at
        <4> QED
          OBVIOUS
      <3> QED
        BY <3>1
    <2> HIDE DEF at, T
    <2> QED
      BY <2>1, <2>2
  <1>4. FetchTransactions(Decoded, T, filterSpent) =
           UNION {GetTransactionsByBlockHeight(Decoded, h, filterSpent) : h \in start..end}
    <2> HIDE DEF at, T, good, rec
    <2> QED
      BY <1>1, <1>2, <1>3
  <1>5. getTransactionsByBlockHeightRange(start, end, filterSpent) =
           fetchTransactions({Txid[t] : t \in T}, filterSpent)
    BY HeightsRead DEF getTransactionsByBlockHeightRange
  <1>6. T \in SUBSET Txids
    OBVIOUS
  <1> HIDE DEF T
  <1> QED
    BY <1>4, <1>5, <1>6, FetchRead

LEMMA HeightScans == Pairs(kv) => HeightScansExact
  <1> SUFFICES ASSUME Pairs(kv), NEW start \in UInt32, NEW end \in UInt32,
                      NEW filterSpent \in BOOLEAN
               PROVE  LET txs == UNION {GetTransactionsByBlockHeight(Decoded, h, filterSpent) :
                                           h \in start..end}
                      IN  /\ getTransactionsByBlockHeightRange(start, end, filterSpent) = Answer(txs)
                          /\ start = end =>
                                getTransactionsByBlockHeight(start, filterSpent) = Answer(txs)
    BY Zenon DEF HeightScansExact
  <1>1. start \in Nat /\ end \in Nat
    BY DigestsAreUnique DEF UInt32
  <1>2. start = end => getTransactionsByBlockHeight(start, filterSpent)
                          = getTransactionsByBlockHeightRange(start, end, filterSpent)
    BY DEF getTransactionsByBlockHeight, getTransactionsByBlockHeightRange, singleHeightRange,
           heightSpanRange
  <1> QED
    BY <1>1, <1>2, SpanRead, Zenon

\* The txids under a hash, or under what a hash begins with.
LEMMA HashesRead ==
    ASSUME Pairs(kv), NEW n \in 1..DigestSize, NEW hash \in [1..n -> Bytes], Incrementable(hash)
    PROVE  {decodeHashIndexKey(k).txid : k \in KeysIn(hashIndexRange(hash))} =
              {Txid[t] : t \in UNION {{u \in Txids : <<b, u>> \in Decoded.hashIndex} :
                                         b \in {c \in Blocks : IsPrefix(hash, Hash[c])}}}
  <1>1. \A b \in Blocks : IsPrefix(hash, Hash[b]) <=> \A i \in 1..n : Hash[b][i] = hash[i]
    <2> SUFFICES ASSUME NEW b \in Blocks
                 PROVE  IsPrefix(hash, Hash[b]) <=> \A i \in 1..n : Hash[b][i] = hash[i]
      OBVIOUS
    <2>1. DigestSize \in Nat \ {0} /\ n \in Nat /\ n <= DigestSize
      BY DigestsAreUnique
    <2>2. hash \in Seq(Nat) /\ Len(hash) = n
      <3>1. hash \in [1..n -> Nat]
        BY <2>1, DigestsAreUnique DEF Bytes
      <3> QED
        BY <2>1, <3>1, SeqDef
    <2>3. Hash[b] \in Seq(Nat) /\ Len(Hash[b]) = DigestSize
      BY NamesAreDigests, DigestType
    <2>4. SubSeq(Hash[b], 1, n) \in Seq(Nat) /\ Len(SubSeq(Hash[b], 1, n)) = n
          /\ \A i \in 1..n : SubSeq(Hash[b], 1, n)[i] = Hash[b][i]
      BY <2>1, <2>3
    <2>5. IsPrefix(hash, Hash[b]) <=> hash = SubSeq(Hash[b], 1, n)
      BY <2>1, <2>2, <2>3 DEF IsPrefix
    <2> QED
      BY <2>1, <2>2, <2>4, <2>5
  <1> DEFINE B == {c \in Blocks : IsPrefix(hash, Hash[c])}
  <1>2. KeysIn(hashIndexRange(hash)) =
           {k \in DOMAIN kv : \E b \in B, t \in Txids : k = HashKey(b, t)}
    <2>1. \A k \in DOMAIN kv : InRange(hashIndexRange(hash), k) <=>
             \E b \in Blocks, t \in Txids : k = HashKey(b, t) /\ \A i \in 1..n : Hash[b][i] = hash[i]
      BY PairOfKey, HashRange
    <2>2. KeysIn(hashIndexRange(hash)) = {k \in DOMAIN kv : InRange(hashIndexRange(hash), k)}
      BY DEF KeysIn
    <2> QED
      BY <1>1, <2>1, <2>2
  <1>3. \A b \in Blocks, t \in Txids : HashKey(b, t) \in DOMAIN kv <=> <<b, t>> \in Decoded.hashIndex
    BY DecodedIndexes DEF ReadsIndexes
  <1>4. \A b \in Blocks, t \in Txids : decodeHashIndexKey(HashKey(b, t)).txid = Txid[t]
    BY DecodeKey
  <1>5. B \subseteq Blocks
    OBVIOUS
  <1> HIDE DEF B
  <1> DEFINE txid(k) == decodeHashIndexKey(k).txid
             keys == KeysIn(hashIndexRange(hash))
             T == UNION {{u \in Txids : <<b, u>> \in Decoded.hashIndex} : b \in B}
  <1>7. \A t : t \in T <=> t \in Txids /\ \E b \in B : <<b, t>> \in Decoded.hashIndex
    <2> DEFINE under(b) == {u \in Txids : <<b, u>> \in Decoded.hashIndex}
    <2>1. \A b, t : t \in under(b) <=> t \in Txids /\ <<b, t>> \in Decoded.hashIndex
      OBVIOUS
    <2>2. T = UNION {under(b) : b \in B}
      OBVIOUS
    <2> HIDE DEF under, T
    <2>3. \A t : t \in T <=> \E b \in B : t \in under(b)
      BY <2>2
    <2> QED
      BY <2>1, <2>3
  <1>8. \A k \in keys : \E t \in Txids, b \in B : txid(k) = Txid[t] /\ <<b, t>> \in Decoded.hashIndex
    BY <1>2, <1>3, <1>4, <1>5
  <1>9. \A t \in Txids, b \in B : <<b, t>> \in Decoded.hashIndex =>
           HashKey(b, t) \in keys /\ txid(HashKey(b, t)) = Txid[t]
    BY <1>2, <1>3, <1>4, <1>5
  <1> HIDE DEF txid, keys, T
  <1>10. {txid(k) : k \in keys} = {Txid[t] : t \in T}
    BY <1>7, <1>8, <1>9
  <1> QED
    BY <1>10 DEF txid, keys, T, B

LEMMA HashScans == Pairs(kv) => HashScansExact
  <1> SUFFICES ASSUME Pairs(kv), NEW n \in 1..DigestSize, NEW hash \in [1..n -> Bytes],
                      NEW filterSpent \in BOOLEAN, Incrementable(hash)
               PROVE  getTransactionsByBlockHash(hash, filterSpent) =
                         Answer(FetchTransactions(Decoded,
                            UNION {{t \in Txids : <<b, t>> \in Decoded.hashIndex} :
                                      b \in {c \in Blocks : IsPrefix(hash, Hash[c])}}, filterSpent))
    BY Zenon DEF HashScansExact
  <1> DEFINE T == UNION {{t \in Txids : <<b, t>> \in Decoded.hashIndex} :
                            b \in {c \in Blocks : IsPrefix(hash, Hash[c])}}
  <1>1. T \in SUBSET Txids
    OBVIOUS
  <1>2. getTransactionsByBlockHash(hash, filterSpent) = fetchTransactions({Txid[t] : t \in T}, filterSpent)
    BY HashesRead DEF getTransactionsByBlockHash
  <1> HIDE DEF T
  <1>3. getTransactionsByBlockHash(hash, filterSpent) = Answer(FetchTransactions(Decoded, T, filterSpent))
    BY <1>1, <1>2, FetchRead
  <1> QED
    BY <1>3 DEF T

-----------------------------------------------------------------------------
(* The current block state *)

\* The top of the store d, as far as the reads of it go.
IsTop(d, b) ==
    /\ b \in Blocks /\ Height[b] \in Heights
    /\ d.blockState[Height[b]] = b
    /\ \A h \in Heights : d.blockState[h] # NoBlock => h <= Height[b]

LEMMA StateKeysRead ==
    ASSUME Pairs(kv), NEW k
    PROVE  /\ k \in DOMAIN kv /\ InReverseRange(blockStateRange, k) <=>
                 \E h \in IndexedHeights(Decoded) : k = encodeBlockStateKey(h)
           /\ k \in KeysUnder(BLOCK_STATE) <=>
                 \E h \in IndexedHeights(Decoded) : k = encodeBlockStateKey(h)
  <1>0. /\ \A b \in Blocks : Height[b] \in Nat /\ Height[b] \in Heights
        /\ Heights \subseteq Nat /\ \A h \in Heights : \E b \in Blocks : h = Height[b]
    BY LedgerTypes DEF Heights
  <1>1. \A h \in Heights : encodeBlockStateKey(h) \in DOMAIN kv <=> h \in IndexedHeights(Decoded)
    BY DecodedStates DEF ReadsStates, IndexedHeights
  <1>2. IndexedHeights(Decoded) \subseteq Heights
    BY DEF IndexedHeights
  <1>3. ASSUME k \in DOMAIN kv
        PROVE  InReverseRange(blockStateRange, k) <=> \E h \in Heights : k = encodeBlockStateKey(h)
    BY <1>0, <1>3, PairOfKey, StateRange
  <1>4. ASSUME k \in DOMAIN kv
        PROVE  k[1] = BLOCK_STATE <=> \E h \in Heights : k = encodeBlockStateKey(h)
    <2>1. BLOCK_STATE = 0 /\ IsKey(k)
      BY <1>4, PairOfKey DEF BLOCK_STATE
    <2>2. k[1] = 0 => \E b \in Blocks : k = encodeBlockStateKey(Height[b])
      BY <2>1, KeyOfKind
    <2>3. \A h \in Heights : encodeBlockStateKey(h)[1] = 0
      BY <1>0, KindOfKey
    <2> QED
      BY <1>0, <2>1, <2>2, <2>3
  <1> QED
    BY <1>1, <1>2, <1>3, <1>4 DEF KeysUnder

LEMMA NoStateRead ==
    ASSUME Pairs(kv), IndexedHeights(Decoded) = {}
    PROVE  getCurrentBlockState = [blockHeight |-> NoHeight, blockHash |-> << >>]
  BY StateKeysRead DEF getCurrentBlockState

LEMMA TopStateRead ==
    ASSUME Pairs(kv), StatesBounded, IndexedHeights(Decoded) # {}
    PROVE  LET b == GetCurrentBlockState(Decoded)
           IN  /\ IsTop(Decoded, b)
               /\ getCurrentBlockState = [blockHeight |-> Height[b], blockHash |-> Hash[b]]
               /\ Current = b
  <1> DEFINE S == IndexedHeights(Decoded)
             m == Max(S)
             b == GetCurrentBlockState(Decoded)
             keys == {k \in DOMAIN kv : InReverseRange(blockStateRange, k)}
  <1>0. /\ S \subseteq Heights /\ Heights \subseteq Nat /\ S # {}
        /\ \A c \in Blocks : Height[c] \in Nat /\ Height[c] \in Heights
    BY LedgerTypes DEF Heights, IndexedHeights
  <1>1. \A k : k \in keys <=> \E h \in S : k = encodeBlockStateKey(h)
    BY StateKeysRead
  <1>2. PICK n \in Nat : \A h \in S : h <= n
    <2>1. PICK n \in Heights : \A k \in KeysUnder(BLOCK_STATE) : decodeBlockStateKey(k) <= n
      BY DEF StatesBounded
    <2>2. \A h \in S : encodeBlockStateKey(h) \in KeysUnder(BLOCK_STATE)
      BY StateKeysRead
    <2>3. \A h \in S : decodeBlockStateKey(encodeBlockStateKey(h)) = h
      BY <1>0, DecodeKey
    <2> QED
      BY <1>0, <2>1, <2>2, <2>3
  <1>3. m \in S /\ \A h \in S : h <= m
    BY <1>0, <1>2, MaxOfBounded
  <1>10. m \in Nat /\ \A h \in S : h \in Nat
    BY <1>0, <1>3
  <1>4. b = Decoded.blockState[m]
    BY <1>0 DEF GetCurrentBlockState
  <1>5. b \in Blocks /\ kv[encodeBlockStateKey(m)] = Hash[b] /\ Height[b] = m
    <2>1. Decoded.blockState[m] # NoBlock /\ m \in Heights
      BY <1>3 DEF IndexedHeights
    <2> QED
      BY <1>4, <2>1, DecodedStates DEF ReadsStates
  <1>6. IsTop(Decoded, b)
    BY <1>0, <1>3, <1>4, <1>5 DEF IsTop, IndexedHeights
  <1>7. LastIn(blockStateRange) = encodeBlockStateKey(m)
    <2> DEFINE last(k) == \A l \in keys : l = k \/ Before(l, k)
    <2>1. LastIn(blockStateRange) = CHOOSE k \in keys : last(k)
      BY DEF LastIn
    <2>2. \A h, i \in S : Before(encodeBlockStateKey(h), encodeBlockStateKey(i)) <=> h < i
      BY <1>0, OrderOfKeys
    <2>3. encodeBlockStateKey(m) \in keys
      BY <1>1, <1>3
    <2>4. last(encodeBlockStateKey(m))
      <3> SUFFICES ASSUME NEW l \in keys
                   PROVE  l = encodeBlockStateKey(m) \/ Before(l, encodeBlockStateKey(m))
        OBVIOUS
      <3>1. PICK h \in S : l = encodeBlockStateKey(h)
        BY <1>1
      <3>2. h = m \/ h < m
        <4>1. h \in Nat /\ m \in Nat /\ h <= m
          BY <1>3, <1>10
        <4> HIDE DEF m, S
        <4> QED
          BY <4>1
      <3> QED
        BY <1>3, <2>2, <3>1, <3>2
    <2>5. ASSUME NEW k \in keys, last(k)
          PROVE  k = encodeBlockStateKey(m)
      <3>1. PICK i \in S : k = encodeBlockStateKey(i)
        BY <1>1
      <3>2. encodeBlockStateKey(m) = k \/ m < i
        BY <1>3, <2>2, <2>3, <2>5, <3>1
      <3>3. i \in Nat /\ m \in Nat /\ i <= m
        BY <1>3, <1>10
      <3> HIDE DEF m, S
      <3>4. ~(m < i)
        BY <3>3
      <3> QED
        BY <3>1, <3>2, <3>4
    <2> HIDE DEF last, keys, m
    <2> QED
      BY <2>1, <2>3, <2>4, <2>5
  <1>8. getCurrentBlockState = [blockHeight |-> Height[b], blockHash |-> Hash[b]]
    <2>1. \E k \in DOMAIN kv : InReverseRange(blockStateRange, k)
      BY <1>1, <1>3
    <2>2. decodeBlockStateKey(encodeBlockStateKey(m)) = m
      BY <1>0, <1>3, DecodeKey
    <2> HIDE DEF m, b
    <2> QED
      BY <1>5, <1>7, <2>1, <2>2 DEF getCurrentBlockState
  <1>9. Current = b
    <2>1. getCurrentBlockState.blockHash = Hash[b]
      BY <1>8
    <2>2. Current = BlockOf(Hash[b])
      BY <2>1 DEF Current, BlockOf
    <2> QED
      BY <1>5, <2>2, NamesDecoded
  <1> QED
    BY <1>6, <1>8, <1>9

LEMMA CurrentStateExact == Pairs(kv) /\ StatesBounded => CurrentStateRead
  <1> SUFFICES ASSUME Pairs(kv), StatesBounded
               PROVE  CurrentStateRead
    OBVIOUS
  <1>1. CASE IndexedHeights(Decoded) = {}
    BY <1>1, NoStateRead DEF CurrentStateRead, GetCurrentBlockState
  <1>2. CASE IndexedHeights(Decoded) # {}
    BY <1>2, TopStateRead, LedgerTypes DEF CurrentStateRead, IsTop
  <1> QED
    BY <1>1, <1>2

-----------------------------------------------------------------------------
(* What the ops of a batch do to the pairs *)

\* The ops of a batch one after the other: first those queued first.
LEMMA ApplyThen ==
    ASSUME NEW pairs, NEW ops, NEW more
    PROVE  Apply(pairs, Then(ops, more)) = Apply(Apply(pairs, ops), more)
  BY DEF Apply, Then

\* Of a key with an op the op decides, of another what was there.
AppliedAt(pairs, ops, k) ==
    /\ k \in DOMAIN Apply(pairs, ops) <=>
          IF k \in DOMAIN ops THEN ops[k].type = "put" ELSE k \in DOMAIN pairs
    /\ k \in DOMAIN Apply(pairs, ops) =>
          Apply(pairs, ops)[k] = IF k \in DOMAIN ops THEN ops[k].value ELSE pairs[k]

LEMMA ApplyAt ==
    ASSUME NEW pairs, NEW ops
    PROVE  \A k : AppliedAt(pairs, ops, k)
  BY DEF Apply, AppliedAt

LEMMA ApplyPairs ==
    ASSUME NEW pairs, NEW ops, Pairs(pairs),
           \A k \in DOMAIN ops : ops[k].type = "put" => IsPair(k, ops[k].value)
    PROVE  Pairs(Apply(pairs, ops))
  BY ApplyAt DEF Pairs, AppliedAt

-----------------------------------------------------------------------------
(* Indexing transactions *)

\* A key saveTransaction puts for t in b, and the op on it.
SaveKey(k, t, b) ==
    \/ k = TxKey(t)
    \/ \E o \in Outpoints : o[1] = t /\ (k = OutKey(o) \/ k = UnspentKey(o))
    \/ k \in {HeightKey(Height[b], t), HashKey(b, t), encodeTimeIndexKey(Time[b], Height[b])}

SaveOp(k, b) ==
    [type  |-> "put",
     value |-> IF k[1] = TX THEN SavedTx(b) ELSE IF k[1] = OUTPUT THEN [isSpent |-> FALSE] ELSE Empty]

LEMMA SaveTransactionOps ==
    ASSUME NEW t \in Txids, NEW b \in Blocks
    PROVE  LET ops == saveTransaction(t, b)
           IN  /\ \A k : k \in DOMAIN ops <=> SaveKey(k, t, b)
               /\ \A k \in DOMAIN ops : ops[k] = SaveOp(k, b)
  <1> DEFINE mine    == {o \in Outpoints : o[1] = t}
             outputs == {encodeOutputKey(Txid[t], v) : v \in Outputs[t]}
             unspent == {encodeUnspentIndexKey(Txid[t], v) : v \in Outputs[t]}
             index   == {HeightKey(Height[b], t), HashKey(b, t), encodeTimeIndexKey(Time[b], Height[b])}
             first   == put({TxKey(t)}, SavedTx(b))
             second  == put(outputs, [isSpent |-> FALSE])
             third   == put(unspent \cup index, Empty)
             ops     == saveTransaction(t, b)
  <1>0. /\ Height[b] \in Nat /\ Time[b] \in Nat /\ Outpoints \subseteq AnyOutpoint
        /\ \A v \in Outputs[t] : <<t, v>> \in mine
        /\ \A o \in mine : o[2] \in Outputs[t] /\ o = <<t, o[2]>>
    BY LedgerTypes, OutpointsKeyed DEF Outpoints
  <1>1. \A k : /\ k \in outputs <=> \E o \in mine : k = OutKey(o)
               /\ k \in unspent <=> \E o \in mine : k = UnspentKey(o)
    <2>1. \A v : OutKey(<<t, v>>) = encodeOutputKey(Txid[t], v)
                 /\ UnspentKey(<<t, v>>) = encodeUnspentIndexKey(Txid[t], v)
      BY DEF OutKey, UnspentKey
    <2> HIDE DEF mine
    <2> QED
      BY <1>0, <2>1
  <1>2. ops = Then(first, Then(second, third))
    BY DEF saveTransaction, TxKey, HeightKey, HashKey
  <1>3. /\ DOMAIN first = {TxKey(t)} /\ first[TxKey(t)] = [type |-> "put", value |-> SavedTx(b)]
        /\ DOMAIN second = outputs
        /\ \A k \in outputs : second[k] = [type |-> "put", value |-> [isSpent |-> FALSE]]
        /\ DOMAIN third = unspent \cup index
        /\ \A k \in unspent \cup index : third[k] = [type |-> "put", value |-> Empty]
    BY DEF put
  <1>4. \A k : k \in DOMAIN ops <=> k = TxKey(t) \/ k \in outputs \/ k \in unspent \/ k \in index
    <2> HIDE DEF first, second, third, outputs, unspent, index
    <2> QED
      BY <1>2, <1>3 DEF Then
  <1>5. \A k \in DOMAIN ops :
           ops[k] = IF k \in unspent \cup index THEN [type |-> "put", value |-> Empty]
                    ELSE IF k \in outputs THEN [type |-> "put", value |-> [isSpent |-> FALSE]]
                    ELSE [type |-> "put", value |-> SavedTx(b)]
    <2> HIDE DEF first, second, third, outputs, unspent, index
    <2> QED
      BY <1>2, <1>3, <1>4 DEF Then
  <1>6. \A k : k \in DOMAIN ops <=> SaveKey(k, t, b)
    <2> HIDE DEF ops, outputs, unspent
    <2> QED
      BY <1>1, <1>4 DEF SaveKey
  <1>7. /\ \A k \in unspent \cup index : k[1] \in {8, 6, 2, 4}
        /\ \A k \in outputs : k[1] = 12
        /\ TxKey(t)[1] = 14
    <2>1. \A o \in mine : OutKey(o)[1] = 12 /\ UnspentKey(o)[1] = 8
      BY <1>0, KindOfKey
    <2>2. \A k \in index : k[1] \in {6, 2, 4}
      BY <1>0, KindOfKey
    <2> HIDE DEF outputs, unspent, index, mine
    <2> QED
      BY <1>1, <2>1, <2>2, KindOfKey
  <1>8. ASSUME NEW k \in DOMAIN ops
        PROVE  ops[k] = SaveOp(k, b)
    <2> HIDE DEF ops, outputs, unspent, index
    <2>1. CASE k \in unspent \cup index
      BY <1>5, <1>7, <2>1 DEF SaveOp, TX, OUTPUT
    <2>2. CASE k \notin unspent \cup index /\ k \in outputs
      BY <1>5, <1>7, <2>2 DEF SaveOp, TX, OUTPUT
    <2>3. CASE k \notin unspent \cup index /\ k \notin outputs
      BY <1>4, <1>5, <1>7, <2>3 DEF SaveOp, TX, OUTPUT
    <2> QED
      BY <2>1, <2>2, <2>3
  <1> QED
    BY <1>6, <1>8

LEMMA SavesOps ==
    ASSUME NEW b \in Blocks, NEW T \in SUBSET Txids
    PROVE  /\ \A k : k \in DOMAIN Saves(b, T) <=> \E t \in T : SaveKey(k, t, b)
           /\ \A k \in DOMAIN Saves(b, T) : Saves(b, T)[k] = SaveOp(k, b)
  <1>1. Saves(b, T) = [k \in UNION {DOMAIN saveTransaction(t, b) : t \in T} |-> SaveOp(k, b)]
    BY Zenon DEF Saves, SaveOp
  <1>2. \A k : k \in UNION {DOMAIN saveTransaction(t, b) : t \in T} <=>
                  \E t \in T : k \in DOMAIN saveTransaction(t, b)
    OBVIOUS
  <1>3. \A k : \A t \in T : k \in DOMAIN saveTransaction(t, b) <=> SaveKey(k, t, b)
    BY SaveTransactionOps
  <1> QED
    BY <1>1, <1>2, <1>3

\* One more transaction is saved after the others.
LEMMA SavesThen ==
    ASSUME NEW b \in Blocks, NEW T \in SUBSET Txids, NEW t \in Txids
    PROVE  Then(Saves(b, T), saveTransaction(t, b)) = Saves(b, T \cup {t})
  <1> DEFINE before == Saves(b, T)
             ops    == saveTransaction(t, b)
             after  == Saves(b, T \cup {t})
  <1>1. \A k : k \in DOMAIN before <=> \E u \in T : SaveKey(k, u, b)
    BY SavesOps
  <1>2. \A k \in DOMAIN before : before[k] = SaveOp(k, b)
    BY SavesOps
  <1>3. \A k : k \in DOMAIN ops <=> SaveKey(k, t, b)
    BY SaveTransactionOps
  <1>4. \A k \in DOMAIN ops : ops[k] = SaveOp(k, b)
    BY SaveTransactionOps
  <1>5. /\ \A k : k \in DOMAIN after <=> \E u \in T \cup {t} : SaveKey(k, u, b)
        /\ \A k \in DOMAIN after : after[k] = SaveOp(k, b)
    <2>1. T \cup {t} \in SUBSET Txids
      OBVIOUS
    <2> QED
      BY <2>1, SavesOps
  <1>6. after = [k \in DOMAIN after |-> after[k]]
    <2>1. after = [k \in UNION {DOMAIN saveTransaction(u, b) : u \in T \cup {t}} |-> SaveOp(k, b)]
      BY Zenon DEF Saves, SaveOp
    <2> QED
      BY <2>1
  <1> HIDE DEF before, ops, after
  <1>7. DOMAIN before \cup DOMAIN ops = DOMAIN after
    BY <1>1, <1>3, <1>5
  <1>8. Then(before, ops) = [k \in DOMAIN after |-> IF k \in DOMAIN ops THEN ops[k] ELSE before[k]]
    BY <1>7 DEF Then
  <1>9. Then(before, ops) = after
    BY <1>2, <1>4, <1>5, <1>6, <1>7, <1>8
  <1> QED
    BY <1>9 DEF before, ops, after

\* The keys a block's transactions T are saved under, kind by kind.
SavedUnder(ops, b, T) ==
    /\ \A t \in Txids : TxKey(t) \in DOMAIN ops <=> t \in T
    /\ \A o \in Outpoints :
          (OutKey(o) \in DOMAIN ops <=> o[1] \in T) /\ (UnspentKey(o) \in DOMAIN ops <=> o[1] \in T)
    /\ \A h \in Heights, t \in Txids : HeightKey(h, t) \in DOMAIN ops <=> h = Height[b] /\ t \in T
    /\ \A c \in Blocks, t \in Txids : HashKey(c, t) \in DOMAIN ops <=> c = b /\ t \in T
    /\ \A x \in Nat, h \in Heights :
          encodeTimeIndexKey(x, h) \in DOMAIN ops <=> T # {} /\ x = Time[b] /\ h = Height[b]
    /\ \A h \in Nat : encodeBlockStateKey(h) \notin DOMAIN ops
    /\ encodeOpStateKey \notin DOMAIN ops

LEMMA LedgerNumbers ==
    /\ \A b \in Blocks : Height[b] \in Nat /\ Height[b] \in Heights /\ Time[b] \in Nat
    /\ Heights \subseteq Nat /\ \A h \in Heights : \E b \in Blocks : h = Height[b]
    /\ Outpoints \subseteq AnyOutpoint
    /\ \A o \in Outpoints : o[1] \in Txids /\ o = <<o[1], o[2]>>
  BY LedgerTypes, OutpointsKeyed DEF Heights, AnyOutpoint

LEMMA SavesUnder ==
    ASSUME NEW b \in Blocks, NEW T \in SUBSET Txids
    PROVE  SavedUnder(Saves(b, T), b, T)
  <1> DEFINE ops == Saves(b, T)
  <1>0. \A k : k \in DOMAIN ops <=> \E t \in T : SaveKey(k, t, b)
    BY SavesOps
  <1> HIDE DEF ops
  <1>k. /\ Height[b] \in Nat /\ Time[b] \in Nat /\ Heights \subseteq Nat /\ T \subseteq Txids
        /\ Outpoints \subseteq AnyOutpoint
    BY LedgerNumbers
  <1>1. \A t \in Txids : TxKey(t) \in DOMAIN ops <=> t \in T
    <2>1. \A t, u \in Txids : SaveKey(TxKey(t), u, b) <=> u = t
      <3> SUFFICES ASSUME NEW t \in Txids, NEW u \in Txids
                   PROVE  SaveKey(TxKey(t), u, b) <=> u = t
        OBVIOUS
      <3>1. TxKey(t)[1] = 14
        BY KindOfKey
      <3> QED
        BY <1>k, <3>1, OtherKinds, KeysAreUnique DEF SaveKey
    <2> QED
      BY <1>0, <2>1
  <1>2. \A o \in Outpoints : OutKey(o) \in DOMAIN ops <=> o[1] \in T
    <2>1. \A o \in Outpoints, u \in Txids : SaveKey(OutKey(o), u, b) <=> u = o[1]
      <3> SUFFICES ASSUME NEW o \in Outpoints, NEW u \in Txids
                   PROVE  SaveKey(OutKey(o), u, b) <=> u = o[1]
        OBVIOUS
      <3>1. OutKey(o)[1] = 12
        BY <1>k, KindOfKey
      <3>2. \A q \in Outpoints : OutKey(o) = OutKey(q) => q = o
        BY <1>k, KeysAreUnique
      <3>3. SaveKey(OutKey(o), u, b) <=> \E q \in Outpoints : q[1] = u /\ OutKey(o) = OutKey(q)
        BY <1>k, <3>1, OtherKinds DEF SaveKey
      <3> QED
        BY <3>2, <3>3
    <2> QED
      BY <1>0, <1>k, <2>1
  <1>3. \A o \in Outpoints : UnspentKey(o) \in DOMAIN ops <=> o[1] \in T
    <2>1. \A o \in Outpoints, u \in Txids : SaveKey(UnspentKey(o), u, b) <=> u = o[1]
      <3> SUFFICES ASSUME NEW o \in Outpoints, NEW u \in Txids
                   PROVE  SaveKey(UnspentKey(o), u, b) <=> u = o[1]
        OBVIOUS
      <3>1. UnspentKey(o)[1] = 8
        BY <1>k, KindOfKey
      <3>2. \A q \in Outpoints : UnspentKey(o) = UnspentKey(q) => q = o
        BY <1>k, KeysAreUnique
      <3>3. SaveKey(UnspentKey(o), u, b) <=> \E q \in Outpoints : q[1] = u /\ UnspentKey(o) = UnspentKey(q)
        BY <1>k, <3>1, OtherKinds DEF SaveKey
      <3> QED
        BY <3>2, <3>3
    <2> QED
      BY <1>0, <1>k, <2>1
  <1>4. \A h \in Heights, t \in Txids : HeightKey(h, t) \in DOMAIN ops <=> h = Height[b] /\ t \in T
    <2>1. \A h \in Heights, t, u \in Txids : SaveKey(HeightKey(h, t), u, b) <=> h = Height[b] /\ u = t
      <3> SUFFICES ASSUME NEW h \in Heights, NEW t \in Txids, NEW u \in Txids
                   PROVE  SaveKey(HeightKey(h, t), u, b) <=> h = Height[b] /\ u = t
        OBVIOUS
      <3>1. HeightKey(h, t)[1] = 6 /\ h \in Nat
        BY <1>k, KindOfKey
      <3>2. HeightKey(h, t) = HeightKey(Height[b], u) <=> h = Height[b] /\ u = t
        BY <1>k, <3>1, KeysAreUnique
      <3>3. SaveKey(HeightKey(h, t), u, b) <=> HeightKey(h, t) = HeightKey(Height[b], u)
        BY <1>k, <3>1, OtherKinds DEF SaveKey
      <3> QED
        BY <3>2, <3>3
    <2> QED
      BY <1>0, <2>1
  <1>5. \A c \in Blocks, t \in Txids : HashKey(c, t) \in DOMAIN ops <=> c = b /\ t \in T
    <2>1. \A c \in Blocks, t, u \in Txids : SaveKey(HashKey(c, t), u, b) <=> c = b /\ u = t
      <3> SUFFICES ASSUME NEW c \in Blocks, NEW t \in Txids, NEW u \in Txids
                   PROVE  SaveKey(HashKey(c, t), u, b) <=> c = b /\ u = t
        OBVIOUS
      <3>1. HashKey(c, t)[1] = 2
        BY KindOfKey
      <3>2. HashKey(c, t) = HashKey(b, u) <=> c = b /\ u = t
        BY KeysAreUnique
      <3>3. SaveKey(HashKey(c, t), u, b) <=> HashKey(c, t) = HashKey(b, u)
        BY <1>k, <3>1, OtherKinds DEF SaveKey
      <3> QED
        BY <3>2, <3>3
    <2> QED
      BY <1>0, <2>1
  <1>6. \A x \in Nat, h \in Heights :
           encodeTimeIndexKey(x, h) \in DOMAIN ops <=> T # {} /\ x = Time[b] /\ h = Height[b]
    <2>1. \A x \in Nat, h \in Heights, u \in Txids :
             SaveKey(encodeTimeIndexKey(x, h), u, b) <=> x = Time[b] /\ h = Height[b]
      <3> SUFFICES ASSUME NEW x \in Nat, NEW h \in Heights, NEW u \in Txids
                   PROVE  SaveKey(encodeTimeIndexKey(x, h), u, b) <=> x = Time[b] /\ h = Height[b]
        OBVIOUS
      <3>1. encodeTimeIndexKey(x, h)[1] = 4 /\ h \in Nat
        BY <1>k, KindOfKey
      <3>2. encodeTimeIndexKey(x, h) = encodeTimeIndexKey(Time[b], Height[b]) <=> x = Time[b] /\ h = Height[b]
        BY <1>k, <3>1, KeysAreUnique
      <3>3. SaveKey(encodeTimeIndexKey(x, h), u, b) <=>
               encodeTimeIndexKey(x, h) = encodeTimeIndexKey(Time[b], Height[b])
        BY <1>k, <3>1, OtherKinds DEF SaveKey
      <3> QED
        BY <3>2, <3>3
    <2> QED
      BY <1>0, <1>k, <2>1
  <1>7. ASSUME NEW k, k[1] = 0 \/ k[1] = 10
        PROVE  k \notin DOMAIN ops
    <2>1. \A u \in Txids : ~SaveKey(k, u, b)
      BY <1>k, <1>7, OtherKinds DEF SaveKey
    <2> QED
      BY <1>0, <1>k, <2>1
  <1>8. /\ \A h \in Nat : encodeBlockStateKey(h) \notin DOMAIN ops
        /\ encodeOpStateKey \notin DOMAIN ops
    BY <1>7, KindOfKey
  <1> QED
    BY <1>1, <1>2, <1>3, <1>4, <1>5, <1>6, <1>8 DEF SavedUnder, ops

\* The values saved.
LEMMA SavesValues ==
    ASSUME NEW b \in Blocks, NEW T \in SUBSET Txids
    PROVE  /\ \A k \in DOMAIN Saves(b, T) : Saves(b, T)[k].type = "put"
           /\ \A t \in Txids : TxKey(t) \in DOMAIN Saves(b, T) =>
                 Saves(b, T)[TxKey(t)].value = SavedTx(b)
           /\ \A o \in Outpoints : OutKey(o) \in DOMAIN Saves(b, T) =>
                 Saves(b, T)[OutKey(o)].value = [isSpent |-> FALSE]
  <1>1. \A k \in DOMAIN Saves(b, T) : Saves(b, T)[k] = SaveOp(k, b)
    BY SavesOps
  <1>2. \A k : SaveOp(k, b).type = "put" /\ (k[1] = 14 => SaveOp(k, b).value = SavedTx(b))
               /\ (k[1] = 12 => SaveOp(k, b).value = [isSpent |-> FALSE])
    BY DEF SaveOp, TX, OUTPUT
  <1> QED
    BY <1>1, <1>2, KindOfKey, LedgerNumbers

LEMMA SavesPairs ==
    ASSUME NEW b \in Blocks, NEW T \in SUBSET Txids
    PROVE  \A k \in DOMAIN Saves(b, T) : IsPair(k, Saves(b, T)[k].value)
  <1> SUFFICES ASSUME NEW k \in DOMAIN Saves(b, T)
               PROVE  IsPair(k, Saves(b, T)[k].value)
    OBVIOUS
  <1>1. PICK t \in T : SaveKey(k, t, b)
    BY SavesOps
  <1>2. t \in Txids
    OBVIOUS
  <1>3. CASE k = TxKey(t)
    <2>1. Saves(b, T)[k].value = SavedTx(b)
      BY <1>2, <1>3, SavesValues
    <2> QED
      BY <1>2, <1>3, <2>1 DEF IsPair, TxKey
  <1>4. ASSUME NEW o \in Outpoints, k = OutKey(o)
        PROVE  IsPair(k, Saves(b, T)[k].value)
    <2>1. Saves(b, T)[k].value = [isSpent |-> FALSE]
      BY <1>4, SavesValues
    <2>2. Saves(b, T)[k].value \in [isSpent : BOOLEAN]
      BY <2>1
    <2> QED
      BY <1>4, <2>2 DEF IsPair, OutKey
  <1>5. ASSUME NEW o \in Outpoints, k = UnspentKey(o)
        PROVE  IsPair(k, Saves(b, T)[k].value)
    BY <1>5 DEF IsPair, UnspentKey
  <1>6. CASE k \in {HeightKey(Height[b], t), HashKey(b, t), encodeTimeIndexKey(Time[b], Height[b])}
    BY <1>2, <1>6 DEF IsPair, HeightKey, HashKey
  <1> QED
    BY <1>1, <1>3, <1>4, <1>5, <1>6 DEF SaveKey

\* saveTransaction for each transaction saves them all.
LEMMA ReadsSaves ==
    ASSUME NEW d, NEW pairs, Reads(d, pairs), NEW b \in Blocks, NEW txs \in SUBSET Txids
    PROVE  Reads(SaveTransactions(d, b, txs, BlockTime(b)), Apply(pairs, Saves(b, Eligible(txs))))
  <1> DEFINE T    == Eligible(txs)
             ops  == Saves(b, T)
             more == Apply(pairs, ops)
             e    == SaveTransactions(d, b, txs, BlockTime(b))
  <1>0. T \in SUBSET Txids
    BY DEF Eligible
  <1>1. SavedUnder(ops, b, T) /\ \A k \in DOMAIN ops : ops[k].type = "put"
    BY <1>0, SavesUnder, SavesValues
  <1>2. \A k : /\ k \in DOMAIN more <=> k \in DOMAIN ops \/ k \in DOMAIN pairs
               /\ k \in DOMAIN more => more[k] = IF k \in DOMAIN ops THEN ops[k].value ELSE pairs[k]
    BY <1>1, ApplyAt DEF AppliedAt
  <1>3. d \in Stores(OperationStates)
    BY DEF Reads
  <1>4. /\ e.tx          = [t \in Txids |-> IF t \in T THEN b ELSE d.tx[t]]
        /\ e.output      = [o \in Outpoints |-> IF o \in OutpointsOf(T) THEN "unspent" ELSE d.output[o]]
        /\ e.unspent     = d.unspent \cup OutpointsOf(T)
        /\ e.heightIndex = d.heightIndex \cup ({Height[b]} \X T)
        /\ e.hashIndex   = d.hashIndex \cup ({b} \X T)
        /\ e.timeIndex   = d.timeIndex \cup {<<BlockTime(b)[t], Height[b]>> : t \in T}
        /\ e.blockState  = d.blockState
        /\ e.opState     = d.opState
        /\ e.time        = [t \in Txids |-> IF t \in T THEN BlockTime(b)[t] ELSE d.time[t]]
    BY <1>3 DEF SaveTransactions, Stores
  <1>t. \A t \in Txids : BlockTime(b)[t] = Time[b] /\ BlockTime(b)[t] \in Nat
    BY LedgerTypes DEF BlockTime
  <1>5. e \in Stores(OperationStates)
    BY <1>3, <1>t, SaveTransactionsType
  <1>6. \A o \in Outpoints : o \in OutpointsOf(T) <=> o[1] \in T
    BY DEF OutpointsOf
  <1>v. /\ \A t \in Txids : TxKey(t) \in DOMAIN ops => ops[TxKey(t)].value = SavedTx(b)
        /\ \A o \in Outpoints : OutKey(o) \in DOMAIN ops => ops[OutKey(o)].value = [isSpent |-> FALSE]
    BY <1>0, SavesValues
  <1> HIDE DEF T, ops, more, e
  <1>11. Timed(e)
    BY <1>0, <1>4, <1>t, LedgerTypes DEF Timed, Reads
  <1>7. ReadsTx(e, more)
    <2> SUFFICES ASSUME NEW t \in Txids
                 PROVE  /\ TxKey(t) \in DOMAIN more <=> e.tx[t] # NoBlock
                        /\ TxKey(t) \in DOMAIN more => more[TxKey(t)] = SavedTx(e.tx[t])
      BY DEF ReadsTx
    <2>1. TxKey(t) \in DOMAIN ops <=> t \in T
      BY <1>1 DEF SavedUnder
    <2>2. /\ TxKey(t) \in DOMAIN pairs <=> d.tx[t] # NoBlock
          /\ TxKey(t) \in DOMAIN pairs => pairs[TxKey(t)] = SavedTx(d.tx[t])
      BY DEF Reads, ReadsTx
    <2>3. e.tx[t] = IF t \in T THEN b ELSE d.tx[t]
      BY <1>4
    <2>4. CASE t \in T
      <3>1. TxKey(t) \in DOMAIN more /\ more[TxKey(t)] = SavedTx(b)
        BY <1>2, <1>v, <2>1, <2>4
      <3> QED
        BY <2>3, <2>4, <3>1, LedgerTypes
    <2>5. CASE t \notin T
      <3>1. TxKey(t) \in DOMAIN more <=> TxKey(t) \in DOMAIN pairs
        BY <1>2, <2>1, <2>5
      <3>2. TxKey(t) \in DOMAIN more => more[TxKey(t)] = pairs[TxKey(t)]
        BY <1>2, <2>1, <2>5
      <3> QED
        BY <2>2, <2>3, <2>5, <3>1, <3>2
    <2> QED
      BY <2>4, <2>5
  <1>8. ReadsOutput(e, more)
    <2> SUFFICES ASSUME NEW o \in Outpoints
                 PROVE  /\ OutKey(o) \in DOMAIN more <=> e.output[o] # "absent"
                        /\ OutKey(o) \in DOMAIN more => (more[OutKey(o)].isSpent <=> e.output[o] = "spent")
      BY DEF ReadsOutput
    <2>1. OutKey(o) \in DOMAIN ops <=> o \in OutpointsOf(T)
      BY <1>1, <1>6 DEF SavedUnder
    <2>2. /\ OutKey(o) \in DOMAIN pairs <=> d.output[o] # "absent"
          /\ OutKey(o) \in DOMAIN pairs => (pairs[OutKey(o)].isSpent <=> d.output[o] = "spent")
      BY DEF Reads, ReadsOutput
    <2>3. e.output[o] = IF o \in OutpointsOf(T) THEN "unspent" ELSE d.output[o]
      BY <1>4
    <2>4. CASE o \in OutpointsOf(T)
      <3>1. more[OutKey(o)] = [isSpent |-> FALSE] /\ OutKey(o) \in DOMAIN more
        BY <1>2, <1>v, <2>1, <2>4
      <3> QED
        BY <2>3, <2>4, <3>1
    <2>5. CASE o \notin OutpointsOf(T)
      <3>1. OutKey(o) \in DOMAIN more <=> OutKey(o) \in DOMAIN pairs
        BY <1>2, <2>1, <2>5
      <3>2. OutKey(o) \in DOMAIN more => more[OutKey(o)] = pairs[OutKey(o)]
        BY <1>2, <2>1, <2>5
      <3>3. ASSUME OutKey(o) \in DOMAIN more
            PROVE  more[OutKey(o)].isSpent <=> d.output[o] = "spent"
        <4>1. more[OutKey(o)] = pairs[OutKey(o)]
          BY <3>2, <3>3
        <4>2. pairs[OutKey(o)].isSpent <=> d.output[o] = "spent"
          BY <2>2, <3>1, <3>3
        <4> QED
          BY <4>1, <4>2, Zenon
      <3>4. e.output[o] = d.output[o]
        BY <2>3, <2>5
      <3> QED
        BY <2>2, <3>1, <3>3, <3>4, Zenon
    <2> QED
      BY <2>4, <2>5
  <1>9. ReadsIndexes(e, more)
    <2>1. \A o \in Outpoints : UnspentKey(o) \in DOMAIN more <=> o \in e.unspent
      BY <1>1, <1>2, <1>4, <1>6 DEF SavedUnder, Reads, ReadsIndexes
    <2>2. \A h \in Heights, t \in Txids : HeightKey(h, t) \in DOMAIN more <=> <<h, t>> \in e.heightIndex
      BY <1>1, <1>2, <1>4 DEF SavedUnder, Reads, ReadsIndexes
    <2>3. \A c \in Blocks, t \in Txids : HashKey(c, t) \in DOMAIN more <=> <<c, t>> \in e.hashIndex
      BY <1>1, <1>2, <1>4 DEF SavedUnder, Reads, ReadsIndexes
    <2>4. \A x \in Nat, h \in Heights :
             encodeTimeIndexKey(x, h) \in DOMAIN more <=> <<x, h>> \in e.timeIndex
      <3> SUFFICES ASSUME NEW x \in Nat, NEW h \in Heights
                   PROVE  encodeTimeIndexKey(x, h) \in DOMAIN more <=> <<x, h>> \in e.timeIndex
        OBVIOUS
      <3>1. encodeTimeIndexKey(x, h) \in DOMAIN more <=>
               (T # {} /\ x = Time[b] /\ h = Height[b]) \/ <<x, h>> \in d.timeIndex
        BY <1>1, <1>2 DEF SavedUnder, Reads, ReadsIndexes
      <3>2. <<x, h>> \in e.timeIndex <=>
               <<x, h>> \in d.timeIndex \/ \E t \in T : x = BlockTime(b)[t] /\ h = Height[b]
        BY <1>4
      <3> QED
        BY <1>0, <1>t, <3>1, <3>2
    <2> QED
      BY <2>1, <2>2, <2>3, <2>4 DEF ReadsIndexes
  <1>10. ReadsStates(e, more)
    <2>1. \A h \in Heights : /\ encodeBlockStateKey(h) \in DOMAIN more <=> encodeBlockStateKey(h) \in DOMAIN pairs
                             /\ encodeBlockStateKey(h) \in DOMAIN more =>
                                   more[encodeBlockStateKey(h)] = pairs[encodeBlockStateKey(h)]
      BY <1>1, <1>2, LedgerNumbers DEF SavedUnder
    <2>2. /\ encodeOpStateKey \in DOMAIN more <=> encodeOpStateKey \in DOMAIN pairs
          /\ encodeOpStateKey \in DOMAIN more => more[encodeOpStateKey] = pairs[encodeOpStateKey]
      BY <1>1, <1>2 DEF SavedUnder
    <2> QED
      BY <1>4, <2>1, <2>2 DEF Reads, ReadsStates
  <1> QED
    BY <1>5, <1>7, <1>8, <1>9, <1>10, <1>11 DEF Reads, e, more, ops, T

-----------------------------------------------------------------------------
(* Marking outputs spent *)

\* The outputs of the outpoints that are marked: in the batch, or unspent in the store.
Marked(outpoints, pending) ==
    {o \in Outpoints \cap outpoints : o \in pending \/ Decoded.output[o] = "unspent"}

\* The ops that mark the outputs S: each is written again, its index entry removed.
MarksOps(ops, S) ==
    /\ \A k : k \in DOMAIN ops <=> \E o \in S : k = OutKey(o) \/ k = UnspentKey(o)
    /\ \A o \in S : ops[OutKey(o)] = [type |-> "put", value |-> [isSpent |-> TRUE]]
    /\ \A o \in S : ops[UnspentKey(o)].type = "del"

LEMMA MarkOps ==
    ASSUME Pairs(kv), NEW outpoints \in SUBSET AnyOutpoint, NEW pending \in SUBSET Outpoints
    PROVE  MarksOps(markOutputsSpent(outpoints, pending), Marked(outpoints, pending))
  <1> DEFINE S     == Marked(outpoints, pending)
             outs  == {OutKey(o) : o \in S}
             unsp  == {UnspentKey(o) : o \in S}
             first == put(outs, [isSpent |-> TRUE])
             last  == del(unsp)
             ops   == markOutputsSpent(outpoints, pending)
             found == {o \in outpoints : \/ o \in pending
                                         \/ Has(OutKey(o)) /\ ~kv[OutKey(o)].isSpent}
  <1>1. found = S
    <2>1. ASSUME NEW o \in outpoints
          PROVE  (Has(OutKey(o)) /\ ~kv[OutKey(o)].isSpent) <=>
                    o \in Outpoints /\ Decoded.output[o] = "unspent"
      <3>1. OutKey(o) \in DOMAIN kv => o \in Outpoints
        BY PairOfKey DEF PairOfKind
      <3>2. ASSUME o \in Outpoints
            PROVE  Decoded.output[o] = IF ~Has(OutKey(o)) THEN "absent"
                                       ELSE IF kv[OutKey(o)].isSpent THEN "spent" ELSE "unspent"
        BY <3>2, Zenon DEF Decoded, OutKey
      <3> QED
        BY <3>1, <3>2 DEF Has
    <2>2. \A o \in pending : o \in Outpoints
      OBVIOUS
    <2> QED
      BY <2>1, <2>2 DEF Marked
  <1>2. ops = Then(put({OutKey(o) : o \in found}, [isSpent |-> TRUE]),
                   del({UnspentKey(o) : o \in found}))
    BY Zenon DEF markOutputsSpent, OutKey, UnspentKey
  <1>3. ops = Then(first, last)
    BY <1>1, <1>2
  <1>4. \A o \in S : o \in AnyOutpoint
    BY OutpointsKeyed DEF Marked
  <1>5. \A o, q \in S : OutKey(o) # UnspentKey(q)
    BY <1>4, KindOfKey
  <1>6. /\ DOMAIN first = outs /\ \A k \in outs : first[k] = [type |-> "put", value |-> [isSpent |-> TRUE]]
        /\ DOMAIN last = unsp /\ \A k \in unsp : last[k] = [type |-> "del"]
    BY DEF put, del
  <1>7. DOMAIN ops = outs \cup unsp
    <2> HIDE DEF first, last, outs, unsp, ops
    <2> QED
      BY <1>3, <1>6 DEF Then
  <1>8. \A k \in outs \cup unsp : ops[k] = IF k \in unsp THEN last[k] ELSE first[k]
    <2> HIDE DEF first, last, outs, unsp, ops
    <2> QED
      BY <1>3, <1>6 DEF Then
  <1>9. /\ \A k : k \in outs <=> \E o \in S : k = OutKey(o)
        /\ \A k : k \in unsp <=> \E o \in S : k = UnspentKey(o)
    OBVIOUS
  <1> HIDE DEF S, outs, unsp, first, last, ops
  <1>10. \A o \in S : ops[OutKey(o)] = [type |-> "put", value |-> [isSpent |-> TRUE]]
    BY <1>5, <1>6, <1>8, <1>9
  <1>11. \A o \in S : ops[UnspentKey(o)].type = "del"
    <2>1. [type |-> "del"].type = "del"
      OBVIOUS
    <2> QED
      BY <1>6, <1>8, <1>9, <2>1
  <1>12. \A k : k \in DOMAIN ops <=> \E o \in S : k = OutKey(o) \/ k = UnspentKey(o)
    BY <1>7, <1>9
  <1> QED
    BY <1>10, <1>11, <1>12 DEF MarksOps, S, ops

LEMMA MarkPairs ==
    ASSUME NEW ops, NEW S \in SUBSET Outpoints, MarksOps(ops, S)
    PROVE  \A k \in DOMAIN ops : ops[k].type = "put" => IsPair(k, ops[k].value)
  <1> SUFFICES ASSUME NEW k \in DOMAIN ops, ops[k].type = "put"
               PROVE  IsPair(k, ops[k].value)
    OBVIOUS
  <1>1. PICK o \in S : k = OutKey(o) \/ k = UnspentKey(o)
    BY DEF MarksOps
  <1>2. CASE k = OutKey(o)
    <2>3. ops[OutKey(o)] = [type |-> "put", value |-> [isSpent |-> TRUE]]
      BY Zenon DEF MarksOps
    <2>1. ops[k].value = [isSpent |-> TRUE]
      BY <1>2, <2>3
    <2>2. ops[k].value \in [isSpent : BOOLEAN]
      BY <2>1
    <2> QED
      BY <1>2, <2>2 DEF IsPair, OutKey
  <1>3. CASE k = UnspentKey(o)
    BY <1>3 DEF IsPair, UnspentKey
  <1> QED
    BY <1>1, <1>2, <1>3

\* The outputs marked are spent, whatever the batch did before.
LEMMA ReadsMark ==
    ASSUME NEW d, NEW pairs, Reads(d, pairs), NEW ops, NEW S \in SUBSET Outpoints, MarksOps(ops, S),
           NEW e, e = [d EXCEPT !.output  = [o \in Outpoints |-> IF o \in S THEN "spent" ELSE @[o]],
                                !.unspent = @ \ S],
           e \in Stores(OperationStates)
    PROVE  Reads(e, Apply(pairs, ops))
  <1> DEFINE more == Apply(pairs, ops)
  <1>1. d \in Stores(OperationStates)
    BY DEF Reads
  <1>2. /\ e.tx = d.tx /\ e.heightIndex = d.heightIndex /\ e.hashIndex = d.hashIndex
        /\ e.timeIndex = d.timeIndex /\ e.blockState = d.blockState /\ e.opState = d.opState
        /\ e.output = [o \in Outpoints |-> IF o \in S THEN "spent" ELSE d.output[o]]
        /\ e.unspent = d.unspent \ S
        /\ e.time = d.time
    BY <1>1 DEF Stores
  <1>3. \A k : AppliedAt(pairs, ops, k)
    BY ApplyAt
  <1>4. \A k : k \in DOMAIN ops => k[1] = 12 \/ k[1] = 8
    BY KindOfKey, LedgerNumbers DEF MarksOps
  <1>5. \A k : k[1] \notin {12, 8} => /\ k \in DOMAIN more <=> k \in DOMAIN pairs
                                      /\ k \in DOMAIN more => more[k] = pairs[k]
    BY <1>3, <1>4 DEF AppliedAt
  <1>6. \A o \in Outpoints : (OutKey(o) \in DOMAIN ops <=> o \in S)
                             /\ (UnspentKey(o) \in DOMAIN ops <=> o \in S)
    <2> SUFFICES ASSUME NEW o \in Outpoints
                 PROVE  /\ OutKey(o) \in DOMAIN ops <=> o \in S
                        /\ UnspentKey(o) \in DOMAIN ops <=> o \in S
      OBVIOUS
    <2>1. \A q \in S : q \in AnyOutpoint
      BY LedgerNumbers
    <2>2. o \in AnyOutpoint
      BY LedgerNumbers
    <2>3. \A q \in S : OutKey(o) # UnspentKey(q) /\ UnspentKey(o) # OutKey(q)
      BY <2>1, <2>2, KindOfKey
    <2>4. \A q \in S : (OutKey(o) = OutKey(q) => o = q) /\ (UnspentKey(o) = UnspentKey(q) => o = q)
      BY <2>1, <2>2, KeysAreUnique
    <2> QED
      BY <2>3, <2>4 DEF MarksOps
  <1> HIDE DEF more
  <1>7. ReadsTx(e, more)
    <2>1. \A t \in Txids : TxKey(t)[1] \notin {12, 8}
      BY KindOfKey
    <2> QED
      BY <1>2, <1>5, <2>1 DEF Reads, ReadsTx
  <1>8. ReadsOutput(e, more)
    <2> SUFFICES ASSUME NEW o \in Outpoints
                 PROVE  /\ OutKey(o) \in DOMAIN more <=> e.output[o] # "absent"
                        /\ OutKey(o) \in DOMAIN more => (more[OutKey(o)].isSpent <=> e.output[o] = "spent")
      BY DEF ReadsOutput
    <2>1. AppliedAt(pairs, ops, OutKey(o))
      BY <1>3
    <2>2. /\ OutKey(o) \in DOMAIN pairs <=> d.output[o] # "absent"
          /\ OutKey(o) \in DOMAIN pairs => (pairs[OutKey(o)].isSpent <=> d.output[o] = "spent")
      BY DEF Reads, ReadsOutput
    <2>3. e.output[o] = IF o \in S THEN "spent" ELSE d.output[o]
      BY <1>2
    <2>4. CASE o \in S
      <3>2. ops[OutKey(o)] = [type |-> "put", value |-> [isSpent |-> TRUE]]
        BY <2>4, Zenon DEF MarksOps
      <3>3. ops[OutKey(o)].type = "put" /\ ops[OutKey(o)].value = [isSpent |-> TRUE]
        BY <3>2
      <3>1. more[OutKey(o)] = [isSpent |-> TRUE] /\ OutKey(o) \in DOMAIN more
        BY <1>6, <2>1, <2>4, <3>3 DEF AppliedAt, more
      <3> QED
        BY <2>3, <2>4, <3>1
    <2>5. CASE o \notin S
      <3>1. OutKey(o) \in DOMAIN more <=> OutKey(o) \in DOMAIN pairs
        BY <1>6, <2>1, <2>5 DEF AppliedAt, more
      <3>2. OutKey(o) \in DOMAIN more => more[OutKey(o)] = pairs[OutKey(o)]
        BY <1>6, <2>1, <2>5 DEF AppliedAt, more
      <3>3. ASSUME OutKey(o) \in DOMAIN more
            PROVE  more[OutKey(o)].isSpent <=> d.output[o] = "spent"
        <4>1. more[OutKey(o)] = pairs[OutKey(o)]
          BY <3>2, <3>3
        <4>2. pairs[OutKey(o)].isSpent <=> d.output[o] = "spent"
          BY <2>2, <3>1, <3>3
        <4> QED
          BY <4>1, <4>2, Zenon
      <3>4. e.output[o] = d.output[o]
        BY <2>3, <2>5
      <3> QED
        BY <2>2, <3>1, <3>3, <3>4, Zenon
    <2> QED
      BY <2>4, <2>5
  <1>9. ReadsIndexes(e, more)
    <2>1. \A o \in Outpoints : UnspentKey(o) \in DOMAIN more <=> o \in e.unspent
      <3> SUFFICES ASSUME NEW o \in Outpoints
                   PROVE  UnspentKey(o) \in DOMAIN more <=> o \in e.unspent
        OBVIOUS
      <3>1. AppliedAt(pairs, ops, UnspentKey(o))
        BY <1>3
      <3>2. UnspentKey(o) \in DOMAIN pairs <=> o \in d.unspent
        BY DEF Reads, ReadsIndexes
      <3>3. o \in S => ops[UnspentKey(o)].type # "put"
        BY DEF MarksOps
      <3> QED
        BY <1>2, <1>6, <3>1, <3>2, <3>3 DEF AppliedAt, more
    <2>2. \A h \in Heights, t \in Txids : HeightKey(h, t)[1] \notin {12, 8}
      BY KindOfKey, LedgerNumbers
    <2>3. \A b \in Blocks, t \in Txids : HashKey(b, t)[1] \notin {12, 8}
      BY KindOfKey
    <2>4. \A x \in Nat, h \in Heights : encodeTimeIndexKey(x, h)[1] \notin {12, 8}
      BY KindOfKey, LedgerNumbers
    <2> QED
      BY <1>2, <1>5, <2>1, <2>2, <2>3, <2>4 DEF Reads, ReadsIndexes
  <1>10. ReadsStates(e, more)
    <2>1. \A h \in Heights : encodeBlockStateKey(h)[1] \notin {12, 8}
      BY KindOfKey, LedgerNumbers
    <2>2. encodeOpStateKey[1] \notin {12, 8}
      BY KindOfKey
    <2> QED
      BY <1>2, <1>5, <2>1, <2>2 DEF Reads, ReadsStates
  <1>11. Timed(e)
    BY <1>2 DEF Reads, Timed
  <1> QED
    BY <1>7, <1>8, <1>9, <1>10, <1>11 DEF Reads, more

-----------------------------------------------------------------------------
(* The states *)

\* setState keeps the block's state and names its height.
LEMMA SetStateOps ==
    ASSUME NEW b \in Blocks
    PROVE  LET ops == setState(b)
           IN  /\ DOMAIN ops = {encodeOpStateKey, encodeBlockStateKey(Height[b])}
               /\ ops[encodeOpStateKey] =
                     [type |-> "put", value |-> [indexedBlockHeight |-> Height[b]]]
               /\ ops[encodeBlockStateKey(Height[b])] = [type |-> "put", value |-> Hash[b]]
  <1> DEFINE first == put({encodeOpStateKey}, [indexedBlockHeight |-> Height[b]])
             last  == put({encodeBlockStateKey(Height[b])}, Hash[b])
             ops   == setState(b)
  <1>1. ops = Then(first, last)
    BY DEF setState, saveOperationState, saveBlockState
  <1>2. /\ DOMAIN first = {encodeOpStateKey} /\ DOMAIN last = {encodeBlockStateKey(Height[b])}
        /\ first[encodeOpStateKey] = [type |-> "put", value |-> [indexedBlockHeight |-> Height[b]]]
        /\ last[encodeBlockStateKey(Height[b])] = [type |-> "put", value |-> Hash[b]]
    BY DEF put
  <1>3. encodeOpStateKey # encodeBlockStateKey(Height[b])
    BY KindOfKey, LedgerNumbers
  <1> HIDE DEF first, last, ops
  <1> QED
    BY <1>1, <1>2, <1>3 DEF Then, ops

LEMMA ReadsSetState ==
    ASSUME NEW d, NEW pairs, Reads(d, pairs), NEW b \in Blocks
    PROVE  Reads(SetState(d, [indexedBlockHeight |-> Height[b]], b), Apply(pairs, setState(b)))
  <1> DEFINE state == [indexedBlockHeight |-> Height[b]]
             e     == SetState(d, state, b)
             ops   == setState(b)
             more  == Apply(pairs, ops)
  <1>0. Height[b] \in Nat /\ Height[b] \in Heights
    BY LedgerNumbers
  <1>1. d \in Stores(OperationStates) /\ state \in OperationStates
    BY <1>0 DEF Reads, OperationStates
  <1>2. e \in Stores(OperationStates)
    BY <1>1, SetStateType
  <1>3. /\ e.tx = d.tx /\ e.output = d.output /\ e.unspent = d.unspent
        /\ e.heightIndex = d.heightIndex /\ e.hashIndex = d.hashIndex /\ e.timeIndex = d.timeIndex
        /\ e.blockState = [d.blockState EXCEPT ![Height[b]] = b] /\ e.opState = state
        /\ e.time = d.time
    BY <1>1 DEF SetState, Stores
  <1>4. d.blockState \in [Heights -> Blocks \cup {NoBlock}]
    BY <1>1 DEF Stores
  <1>5. /\ DOMAIN ops = {encodeOpStateKey, encodeBlockStateKey(Height[b])}
        /\ ops[encodeOpStateKey] = [type |-> "put", value |-> state]
        /\ ops[encodeBlockStateKey(Height[b])] = [type |-> "put", value |-> Hash[b]]
    BY SetStateOps
  <1>6. \A k : AppliedAt(pairs, ops, k)
    BY ApplyAt
  <1>7. state # NoState
    BY <1>1, NoStateIsNone DEF OperationStates
  <1> HIDE DEF state, ops, more, e
  <1>8. \A k : k[1] \notin {0, 10} => /\ k \in DOMAIN more <=> k \in DOMAIN pairs
                                      /\ k \in DOMAIN more => more[k] = pairs[k]
    <2>1. \A k : k[1] \notin {0, 10} => k \notin DOMAIN ops
      BY <1>0, <1>5, KindOfKey
    <2> QED
      BY <1>6, <2>1 DEF AppliedAt, more
  <1>9. ReadsTx(e, more)
    <2>1. \A t \in Txids : TxKey(t)[1] \notin {0, 10}
      BY KindOfKey
    <2> QED
      BY <1>3, <1>8, <2>1 DEF Reads, ReadsTx
  <1>10. ReadsOutput(e, more)
    <2>1. \A o \in Outpoints : OutKey(o)[1] \notin {0, 10}
      BY KindOfKey, LedgerNumbers
    <2>2. \A o \in Outpoints : /\ OutKey(o) \in DOMAIN more <=> OutKey(o) \in DOMAIN pairs
                               /\ OutKey(o) \in DOMAIN more => more[OutKey(o)] = pairs[OutKey(o)]
      BY <1>8, <2>1
    <2>3. ReadsOutput(d, pairs)
      BY DEF Reads
    <2> QED
      BY <1>3, <2>2, <2>3, Zenon DEF ReadsOutput
  <1>11. ReadsIndexes(e, more)
    <2>1. \A o \in Outpoints : UnspentKey(o)[1] \notin {0, 10}
      BY KindOfKey, LedgerNumbers
    <2>2. \A h \in Heights, t \in Txids : HeightKey(h, t)[1] \notin {0, 10}
      BY KindOfKey, LedgerNumbers
    <2>3. \A c \in Blocks, t \in Txids : HashKey(c, t)[1] \notin {0, 10}
      BY KindOfKey
    <2>4. \A x \in Nat, h \in Heights : encodeTimeIndexKey(x, h)[1] \notin {0, 10}
      BY KindOfKey, LedgerNumbers
    <2> QED
      BY <1>3, <1>8, <2>1, <2>2, <2>3, <2>4 DEF Reads, ReadsIndexes
  <1>12. ReadsStates(e, more)
    <2>1. ASSUME NEW h \in Heights
          PROVE  /\ encodeBlockStateKey(h) \in DOMAIN more <=> e.blockState[h] # NoBlock
                 /\ encodeBlockStateKey(h) \in DOMAIN more =>
                       more[encodeBlockStateKey(h)] = Hash[e.blockState[h]] /\ Height[e.blockState[h]] = h
      <3>1. /\ encodeBlockStateKey(h) \in DOMAIN pairs <=> d.blockState[h] # NoBlock
            /\ encodeBlockStateKey(h) \in DOMAIN pairs =>
                  pairs[encodeBlockStateKey(h)] = Hash[d.blockState[h]] /\ Height[d.blockState[h]] = h
        BY DEF Reads, ReadsStates
      <3>2. AppliedAt(pairs, ops, encodeBlockStateKey(h))
        BY <1>6
      <3>3. encodeBlockStateKey(h) \in DOMAIN ops <=> h = Height[b]
        <4>1. encodeBlockStateKey(h) # encodeOpStateKey
          BY KindOfKey, LedgerNumbers
        <4>2. encodeBlockStateKey(h) = encodeBlockStateKey(Height[b]) => h = Height[b]
          BY <1>0, KeysAreUnique, LedgerNumbers
        <4> QED
          BY <1>5, <4>1, <4>2
      <3>4. CASE h = Height[b]
        <4>1. e.blockState[h] = b
          BY <1>0, <1>3, <1>4, <3>4
        <4>2. encodeBlockStateKey(h) \in DOMAIN more /\ more[encodeBlockStateKey(h)] = Hash[b]
          BY <1>5, <3>2, <3>3, <3>4 DEF AppliedAt, more
        <4> QED
          BY <3>4, <4>1, <4>2, LedgerTypes
      <3>5. CASE h # Height[b]
        <4>1. e.blockState[h] = d.blockState[h]
          BY <1>3, <1>4, <3>5
        <4> QED
          BY <3>1, <3>2, <3>3, <3>5, <4>1 DEF AppliedAt, more
      <3> QED
        BY <3>4, <3>5
    <2>2. encodeOpStateKey \in DOMAIN more /\ more[encodeOpStateKey] = state
      <3>1. AppliedAt(pairs, ops, encodeOpStateKey)
        BY <1>6
      <3> QED
        BY <1>5, <3>1 DEF AppliedAt, more
    <2> QED
      BY <1>3, <1>7, <2>1, <2>2 DEF ReadsStates
  <1>13. Timed(e)
    BY <1>3 DEF Reads, Timed
  <1> QED
    BY <1>2, <1>9, <1>10, <1>11, <1>12, <1>13 DEF Reads, e, more, ops, state

-----------------------------------------------------------------------------
(* Removing a block *)

\* The transactions that go with b: those under its hash that have a record.
Gone(b) == {t \in Txids : <<b, t>> \in Decoded.hashIndex /\ Decoded.tx[t] # NoBlock}

\* A key that goes with the transaction t, rebuilt from its record or found by a scan.
GoneKey(k, t, b) ==
    \/ k = TxKey(t)
    \/ k \in DOMAIN kv /\ \E o \in Outpoints : o[1] = t /\ (k = OutKey(o) \/ k = UnspentKey(o))
    \/ k \in {HeightKey(Height[Decoded.tx[t]], t), HashKey(b, t),
              encodeTimeIndexKey(Time[Decoded.tx[t]], Height[Decoded.tx[t]])}

\* The whole bytes of a hash begin no other hash.
LEMMA WholeHash ==
    \A b, c \in Blocks : IsPrefix(Hash[b], Hash[c]) <=> c = b
  <1> SUFFICES ASSUME NEW b \in Blocks, NEW c \in Blocks
               PROVE  IsPrefix(Hash[b], Hash[c]) <=> c = b
    OBVIOUS
  <1>1. /\ Hash[b] \in Seq(Nat) /\ Len(Hash[b]) = DigestSize
        /\ Hash[c] \in Seq(Nat) /\ Len(Hash[c]) = DigestSize
        /\ DigestSize \in Nat
    BY NamesAreDigests, DigestType
  <1>2. SubSeq(Hash[c], 1, DigestSize) = Hash[c]
    BY <1>1
  <1>3. IsPrefix(Hash[b], Hash[c]) <=> Hash[b] = SubSeq(Hash[c], 1, DigestSize)
    BY <1>1 DEF IsPrefix
  <1> QED
    BY <1>2, <1>3, DigestsAreUnique

LEMMA HashRead ==
    ASSUME Pairs(kv), NEW b \in Blocks
    PROVE  {decodeHashIndexKey(k).txid : k \in KeysIn(hashIndexRange(Hash[b]))} =
              {Txid[t] : t \in {u \in Txids : <<b, u>> \in Decoded.hashIndex}}
  <1>1. Hash[b] \in [1..DigestSize -> Bytes] /\ Incrementable(Hash[b]) /\ DigestSize \in 1..DigestSize
    BY DigestsAreUnique, DigestsHaveSuccessors DEF Digests
  <1>2. {c \in Blocks : IsPrefix(Hash[b], Hash[c])} = {b}
    BY WholeHash
  <1>3. {decodeHashIndexKey(k).txid : k \in KeysIn(hashIndexRange(Hash[b]))} =
           {Txid[t] : t \in UNION {{u \in Txids : <<c, u>> \in Decoded.hashIndex} :
                                      c \in {d \in Blocks : IsPrefix(Hash[b], Hash[d])}}}
    BY <1>1, HashesRead
  <1>4. UNION {{u \in Txids : <<c, u>> \in Decoded.hashIndex} : c \in {b}} =
           {u \in Txids : <<b, u>> \in Decoded.hashIndex}
    OBVIOUS
  <1> QED
    BY <1>2, <1>3, <1>4

LEMMA DeleteKeys ==
    ASSUME Pairs(kv), NEW b \in Blocks
    PROVE  LET ops == deleteTransactionsByBlockHash(Hash[b])
           IN  /\ \A k : k \in DOMAIN ops <=> \E t \in Gone(b) : GoneKey(k, t, b)
               /\ \A k \in DOMAIN ops : ops[k] = [type |-> "del"]
  <1> DEFINE ops     == deleteTransactionsByBlockHash(Hash[b])
             tx(x)   == kv[encodeTxKey(x)]
             each(x) == KeysIn(outputPrefixRange(x)) \cup KeysIn(unspentPrefixRange(x))
                        \cup {encodeTxKey(x), encodeHeightIndexKey(tx(x).blockHeight, x),
                              encodeHashIndexKey(Hash[b], x),
                              encodeTimeIndexKey(tx(x).blockTime, tx(x).blockHeight)}
             under   == {t \in Txids : <<b, t>> \in Decoded.hashIndex}
  <1>1. ops = del(UNION {each(x) : x \in {y \in {Txid[t] : t \in under} : Has(encodeTxKey(y))}})
    BY HashRead DEF deleteTransactionsByBlockHash
  <1>2. \A t \in under : Has(encodeTxKey(Txid[t])) <=> t \in Gone(b)
    BY DecodedRecords DEF ReadsTx, Has, TxKey, Gone
  <1>3. {y \in {Txid[t] : t \in under} : Has(encodeTxKey(y))} = {Txid[t] : t \in Gone(b)}
    <2>1. \A t \in Gone(b) : t \in under
      BY DEF Gone
    <2> HIDE DEF under
    <2> QED
      BY <1>2, <2>1
  <1>4. ASSUME NEW t \in Gone(b), NEW k
        PROVE  k \in each(Txid[t]) <=> GoneKey(k, t, b)
    <2> DEFINE c == Decoded.tx[t]
    <2>1. t \in Txids /\ c \in Blocks /\ tx(Txid[t]) = SavedTx(c)
      <3>1. t \in Txids /\ c # NoBlock
        BY DEF Gone
      <3>2. c \in Blocks
        BY <3>1, DecodedRecords
      <3>3. kv[TxKey(t)] = SavedTx(c)
        BY <3>1, DecodedRecords DEF ReadsTx
      <3> QED
        BY <3>1, <3>2, <3>3 DEF TxKey
    <2>2. tx(Txid[t]).blockHeight = Height[c] /\ tx(Txid[t]).blockTime = Time[c]
      <3> HIDE DEF tx, c
      <3> QED
        BY <2>1 DEF SavedTx
    <2>3. /\ k \in KeysIn(outputPrefixRange(Txid[t])) <=>
                k \in DOMAIN kv /\ \E o \in Outpoints : o[1] = t /\ k = OutKey(o)
          /\ k \in KeysIn(unspentPrefixRange(Txid[t])) <=>
                k \in DOMAIN kv /\ \E o \in Outpoints : o[1] = t /\ k = UnspentKey(o)
      BY <2>1, PairOfKey, OutputRanges DEF KeysIn
    <2>4. k \in each(Txid[t]) <=>
             \/ k \in KeysIn(outputPrefixRange(Txid[t])) \/ k \in KeysIn(unspentPrefixRange(Txid[t]))
             \/ k = TxKey(t) \/ k = HeightKey(Height[c], t) \/ k = HashKey(b, t)
             \/ k = encodeTimeIndexKey(Time[c], Height[c])
      <3> HIDE DEF tx, c
      <3> QED
        BY <2>2 DEF TxKey, HeightKey, HashKey
    <2> HIDE DEF each
    <2> QED
      BY <2>3, <2>4 DEF GoneKey
  <1> HIDE DEF each, under
  <1>5. ops = del(UNION {each(x) : x \in {Txid[t] : t \in Gone(b)}})
    BY <1>1, <1>3
  <1>6. \A k : k \in UNION {each(x) : x \in {Txid[t] : t \in Gone(b)}} <=>
           \E t \in Gone(b) : k \in each(Txid[t])
    OBVIOUS
  <1>7. \A k : k \in DOMAIN ops <=> \E t \in Gone(b) : k \in each(Txid[t])
    BY <1>5, <1>6 DEF del
  <1>8. \A k \in DOMAIN ops : ops[k] = [type |-> "del"]
    BY <1>5 DEF del
  <1> QED
    BY <1>4, <1>7, <1>8

\* removeState deletes the current block's state and what goes with the block.
LEMMA RemoveOps ==
    ASSUME Pairs(kv), StatesBounded, IndexedHeights(Decoded) # {}
    PROVE  LET b == GetCurrentBlockState(Decoded)
           IN  /\ \A k : k \in DOMAIN removeState <=>
                         k = encodeBlockStateKey(Height[b]) \/ \E t \in Gone(b) : GoneKey(k, t, b)
               /\ \A k \in DOMAIN removeState : removeState[k].type = "del"
  <1> DEFINE b     == GetCurrentBlockState(Decoded)
             first == deleteBlockState(Height[b])
             last  == deleteTransactionsByBlockHash(Hash[b])
  <1>1. b \in Blocks /\ getCurrentBlockState = [blockHeight |-> Height[b], blockHash |-> Hash[b]]
    BY TopStateRead DEF IsTop
  <1>2. removeState = Then(first, last)
    <2> HIDE DEF b
    <2> QED
      BY <1>1 DEF removeState
  <1>3. /\ DOMAIN first = {encodeBlockStateKey(Height[b])}
        /\ \A k \in DOMAIN first : first[k] = [type |-> "del"]
    BY DEF deleteBlockState, del
  <1>4. /\ \A k : k \in DOMAIN last <=> \E t \in Gone(b) : GoneKey(k, t, b)
        /\ \A k \in DOMAIN last : last[k] = [type |-> "del"]
    BY <1>1, DeleteKeys
  <1> HIDE DEF first, last, b
  <1>5. \A k : k \in DOMAIN removeState <=> k \in DOMAIN first \/ k \in DOMAIN last
    BY <1>2 DEF Then
  <1>6. \A k \in DOMAIN removeState : removeState[k] = [type |-> "del"]
    BY <1>2, <1>3, <1>4 DEF Then
  <1>7. [type |-> "del"].type = "del"
    OBVIOUS
  <1> QED
    BY <1>3, <1>4, <1>5, <1>6, <1>7 DEF b

\* The keys that go, kind by kind.
LEMMA GoneKeys ==
    ASSUME Pairs(kv), NEW b \in Blocks, NEW t \in Gone(b)
    PROVE  LET c == Decoded.tx[t]
           IN  /\ c \in Blocks /\ t \in Txids
               /\ \A u \in Txids : GoneKey(TxKey(u), t, b) <=> u = t
               /\ \A o \in Outpoints : OutKey(o) \in DOMAIN kv =>
                     (GoneKey(OutKey(o), t, b) <=> o[1] = t)
               /\ \A o \in Outpoints : UnspentKey(o) \in DOMAIN kv =>
                     (GoneKey(UnspentKey(o), t, b) <=> o[1] = t)
               /\ \A h \in Heights, u \in Txids :
                     GoneKey(HeightKey(h, u), t, b) <=> h = Height[c] /\ u = t
               /\ \A d \in Blocks, u \in Txids : GoneKey(HashKey(d, u), t, b) <=> d = b /\ u = t
               /\ \A x \in Nat, h \in Heights :
                     GoneKey(encodeTimeIndexKey(x, h), t, b) <=> x = Time[c] /\ h = Height[c]
               /\ \A k : k[1] \in {0, 10} => ~GoneKey(k, t, b)
  <1> DEFINE c == Decoded.tx[t]
  <1>1. t \in Txids /\ c \in Blocks
    BY DecodedRecords DEF Gone
  <1> HIDE DEF c
  <1>2. /\ Height[c] \in Nat /\ Height[c] \in Heights /\ Time[c] \in Nat
        /\ Outpoints \subseteq AnyOutpoint /\ Heights \subseteq Nat
    BY <1>1, LedgerNumbers
  <1>0. \A k : GoneKey(k, t, b) <=>
           \/ k = TxKey(t)
           \/ k \in DOMAIN kv /\ \E o \in Outpoints : o[1] = t /\ (k = OutKey(o) \/ k = UnspentKey(o))
           \/ k = HeightKey(Height[c], t) \/ k = HashKey(b, t)
           \/ k = encodeTimeIndexKey(Time[c], Height[c])
    BY DEF GoneKey, c
  <1>3. ASSUME NEW u \in Txids
        PROVE  GoneKey(TxKey(u), t, b) <=> u = t
    <2>1. TxKey(u)[1] = 14
      BY KindOfKey
    <2>2. GoneKey(TxKey(u), t, b) <=> TxKey(u) = TxKey(t)
      BY <1>0, <1>1, <1>2, <2>1, OtherKinds
    <2> QED
      BY <1>1, <2>2, KeysAreUnique
  <1>4. ASSUME NEW o \in Outpoints, OutKey(o) \in DOMAIN kv
        PROVE  GoneKey(OutKey(o), t, b) <=> o[1] = t
    <2>1. OutKey(o)[1] = 12
      BY <1>2, KindOfKey
    <2>2. GoneKey(OutKey(o), t, b) <=> \E q \in Outpoints : q[1] = t /\ OutKey(o) = OutKey(q)
      BY <1>0, <1>1, <1>2, <1>4, <2>1, OtherKinds
    <2>3. \A q \in Outpoints : OutKey(o) = OutKey(q) => q = o
      BY <1>2, KeysAreUnique
    <2> QED
      BY <2>2, <2>3
  <1>5. ASSUME NEW o \in Outpoints, UnspentKey(o) \in DOMAIN kv
        PROVE  GoneKey(UnspentKey(o), t, b) <=> o[1] = t
    <2>1. UnspentKey(o)[1] = 8
      BY <1>2, KindOfKey
    <2>2. GoneKey(UnspentKey(o), t, b) <=> \E q \in Outpoints : q[1] = t /\ UnspentKey(o) = UnspentKey(q)
      BY <1>0, <1>1, <1>2, <1>5, <2>1, OtherKinds
    <2>3. \A q \in Outpoints : UnspentKey(o) = UnspentKey(q) => q = o
      BY <1>2, KeysAreUnique
    <2> QED
      BY <2>2, <2>3
  <1>6. ASSUME NEW h \in Heights, NEW u \in Txids
        PROVE  GoneKey(HeightKey(h, u), t, b) <=> h = Height[c] /\ u = t
    <2>1. HeightKey(h, u)[1] = 6 /\ h \in Nat
      BY <1>2, KindOfKey
    <2>2. GoneKey(HeightKey(h, u), t, b) <=> HeightKey(h, u) = HeightKey(Height[c], t)
      BY <1>0, <1>1, <1>2, <2>1, OtherKinds
    <2>3. HeightKey(h, u) = HeightKey(Height[c], t) <=> h = Height[c] /\ u = t
      BY <1>1, <1>2, <2>1, KeysAreUnique
    <2> QED
      BY <2>2, <2>3
  <1>7. ASSUME NEW d \in Blocks, NEW u \in Txids
        PROVE  GoneKey(HashKey(d, u), t, b) <=> d = b /\ u = t
    <2>1. HashKey(d, u)[1] = 2
      BY KindOfKey
    <2>2. GoneKey(HashKey(d, u), t, b) <=> HashKey(d, u) = HashKey(b, t)
      BY <1>0, <1>1, <1>2, <2>1, OtherKinds
    <2>3. HashKey(d, u) = HashKey(b, t) <=> d = b /\ u = t
      BY <1>1, KeysAreUnique
    <2> QED
      BY <2>2, <2>3
  <1>8. ASSUME NEW x \in Nat, NEW h \in Heights
        PROVE  GoneKey(encodeTimeIndexKey(x, h), t, b) <=> x = Time[c] /\ h = Height[c]
    <2>1. encodeTimeIndexKey(x, h)[1] = 4 /\ h \in Nat
      BY <1>2, KindOfKey
    <2>2. GoneKey(encodeTimeIndexKey(x, h), t, b) <=>
             encodeTimeIndexKey(x, h) = encodeTimeIndexKey(Time[c], Height[c])
      BY <1>0, <1>1, <1>2, <2>1, OtherKinds
    <2>3. encodeTimeIndexKey(x, h) = encodeTimeIndexKey(Time[c], Height[c]) <=> x = Time[c] /\ h = Height[c]
      BY <1>2, <2>1, KeysAreUnique
    <2> QED
      BY <2>2, <2>3
  <1>9. ASSUME NEW k, k[1] \in {0, 10}
        PROVE  ~GoneKey(k, t, b)
    BY <1>0, <1>1, <1>2, <1>9, OtherKinds
  <1> QED
    BY <1>1, <1>3, <1>4, <1>5, <1>6, <1>7, <1>8, <1>9 DEF c

\* What is left once the batch is applied.
LEMMA ReadsRemove ==
    ASSUME Pairs(kv), StatesBounded, IndexedHeights(Decoded) # {}
    PROVE  Reads(RemoveState(Decoded, GetCurrentBlockState(Decoded)), Apply(kv, removeState))
  <1> DEFINE d    == Decoded
             b    == GetCurrentBlockState(d)
             e    == RemoveState(d, b)
             ops  == removeState
             more == Apply(kv, ops)
             gone == Gone(b)
             goes(k) == \E t \in gone : GoneKey(k, t, b)
  <1>0. Reads(d, kv) /\ d \in Stores(OperationStates)
    BY DecodedReads DEF Reads
  <1>1. b \in Blocks /\ d.blockState[Height[b]] = b
    BY TopStateRead DEF IsTop
  <1>2. e \in Stores(OperationStates)
    BY <1>0, <1>1, RemoveStateType
  <1>3. /\ e.tx          = [t \in Txids |-> IF t \in gone THEN NoBlock ELSE d.tx[t]]
        /\ e.output      = [o \in Outpoints |-> IF o[1] \in gone THEN "absent" ELSE d.output[o]]
        /\ e.unspent     = {o \in d.unspent : o[1] \notin gone}
        /\ e.heightIndex = d.heightIndex \ {<<Height[d.tx[t]], t>> : t \in gone}
        /\ e.hashIndex   = d.hashIndex \ ({b} \X gone)
        /\ e.timeIndex   = d.timeIndex \ {<<d.time[t], Height[d.tx[t]]>> : t \in gone}
        /\ e.time        = [t \in Txids |-> IF t \in gone THEN 0 ELSE d.time[t]]
        /\ e.blockState  = [d.blockState EXCEPT ![Height[b]] = NoBlock]
        /\ e.opState     = d.opState
    <2> HIDE DEF d, b
    <2> QED
      BY <1>0 DEF RemoveState, DeleteTransactionsByBlockHash, Stores, Gone, d
  <1>4. /\ \A k : k \in DOMAIN ops <=> k = encodeBlockStateKey(Height[b]) \/ goes(k)
        /\ \A k \in DOMAIN ops : ops[k].type = "del"
    BY RemoveOps
  <1>5. \A k : /\ k \in DOMAIN more <=> k \in DOMAIN kv /\ k \notin DOMAIN ops
               /\ k \in DOMAIN more => more[k] = kv[k]
    <2>1. \A k : AppliedAt(kv, ops, k)
      BY ApplyAt
    <2>2. "del" # "put"
      OBVIOUS
    <2> QED
      BY <1>4, <2>1, <2>2 DEF AppliedAt
  <1>6. /\ d.blockState \in [Heights -> Blocks \cup {NoBlock}]
        /\ Height[b] \in Nat /\ Height[b] \in Heights
    BY <1>0, <1>1, LedgerNumbers DEF Stores
  <1>7. \A k : k[1] # 0 => (k \in DOMAIN more <=> k \in DOMAIN kv /\ ~goes(k))
    BY <1>4, <1>5, <1>6, KindOfKey
  <1>g. \A t \in gone :
           /\ \A u \in Txids : GoneKey(TxKey(u), t, b) <=> u = t
           /\ \A o \in Outpoints : OutKey(o) \in DOMAIN kv => (GoneKey(OutKey(o), t, b) <=> o[1] = t)
           /\ \A o \in Outpoints : UnspentKey(o) \in DOMAIN kv => (GoneKey(UnspentKey(o), t, b) <=> o[1] = t)
           /\ \A h \in Heights, u \in Txids :
                 GoneKey(HeightKey(h, u), t, b) <=> h = Height[d.tx[t]] /\ u = t
           /\ \A c \in Blocks, u \in Txids : GoneKey(HashKey(c, u), t, b) <=> c = b /\ u = t
           /\ \A x \in Nat, h \in Heights :
                 GoneKey(encodeTimeIndexKey(x, h), t, b) <=> x = Time[d.tx[t]] /\ h = Height[d.tx[t]]
           /\ \A k : k[1] \in {0, 10} => ~GoneKey(k, t, b)
    BY <1>1, GoneKeys
  <1>t. \A t \in gone : t \in Txids /\ d.time[t] = Time[d.tx[t]]
    <2>1. Timed(d)
      BY <1>0 DEF Reads
    <2> QED
      BY <2>1 DEF Timed, Gone
  <1>12. Timed(e)
    <2>1. Timed(d)
      BY <1>0 DEF Reads
    <2> HIDE DEF d, b, e, gone
    <2> QED
      BY <1>3, <2>1 DEF Timed
  <1>8. ReadsTx(e, more)
    <2> SUFFICES ASSUME NEW t \in Txids
                 PROVE  /\ TxKey(t) \in DOMAIN more <=> e.tx[t] # NoBlock
                        /\ TxKey(t) \in DOMAIN more => more[TxKey(t)] = SavedTx(e.tx[t])
      BY DEF ReadsTx
    <2>1. goes(TxKey(t)) <=> t \in gone
      BY <1>g
    <2>2. TxKey(t)[1] # 0
      BY KindOfKey
    <2>3. /\ TxKey(t) \in DOMAIN kv <=> d.tx[t] # NoBlock
          /\ TxKey(t) \in DOMAIN kv => kv[TxKey(t)] = SavedTx(d.tx[t])
      BY <1>0 DEF Reads, ReadsTx
    <2>4. e.tx[t] = IF t \in gone THEN NoBlock ELSE d.tx[t]
      BY <1>3
    <2>5. TxKey(t) \in DOMAIN more <=> TxKey(t) \in DOMAIN kv /\ t \notin gone
      BY <1>7, <2>1, <2>2
    <2>6. TxKey(t) \in DOMAIN more => more[TxKey(t)] = kv[TxKey(t)]
      BY <1>5
    <2> HIDE DEF d, b, e, ops, more, gone, goes
    <2> QED
      BY <2>3, <2>4, <2>5, <2>6
  <1>9. ReadsOutput(e, more)
    <2> SUFFICES ASSUME NEW o \in Outpoints
                 PROVE  /\ OutKey(o) \in DOMAIN more <=> e.output[o] # "absent"
                        /\ OutKey(o) \in DOMAIN more => (more[OutKey(o)].isSpent <=> e.output[o] = "spent")
      BY DEF ReadsOutput
    <2>1. OutKey(o) \in DOMAIN kv => (goes(OutKey(o)) <=> o[1] \in gone)
      BY <1>g
    <2>2. OutKey(o)[1] # 0
      BY KindOfKey, LedgerNumbers
    <2>3. /\ OutKey(o) \in DOMAIN kv <=> d.output[o] # "absent"
          /\ OutKey(o) \in DOMAIN kv => (kv[OutKey(o)].isSpent <=> d.output[o] = "spent")
      BY <1>0 DEF Reads, ReadsOutput
    <2>4. e.output[o] = IF o[1] \in gone THEN "absent" ELSE d.output[o]
      BY <1>3
    <2>5. OutKey(o) \in DOMAIN more <=> OutKey(o) \in DOMAIN kv /\ o[1] \notin gone
      BY <1>7, <2>1, <2>2
    <2>6. ASSUME OutKey(o) \in DOMAIN more
          PROVE  more[OutKey(o)].isSpent <=> e.output[o] = "spent"
      <3>1. more[OutKey(o)] = kv[OutKey(o)]
        BY <1>5, <2>6
      <3>2. e.output[o] = d.output[o]
        BY <2>4, <2>5, <2>6
      <3>3. kv[OutKey(o)].isSpent <=> d.output[o] = "spent"
        BY <2>3, <2>5, <2>6
      <3> HIDE DEF d, b, e, ops, more, gone, goes
      <3> QED
        BY <3>1, <3>2, <3>3, Zenon
    <2>7. OutKey(o) \in DOMAIN more <=> e.output[o] # "absent"
      <3> HIDE DEF d, b, e, ops, more, gone, goes
      <3> QED
        BY <2>3, <2>4, <2>5
    <2> HIDE DEF d, b, e, ops, more, gone, goes
    <2> QED
      BY <2>6, <2>7, Zenon
  <1>10. ReadsIndexes(e, more)
    <2>1. \A o \in Outpoints : UnspentKey(o) \in DOMAIN more <=> o \in e.unspent
      <3> SUFFICES ASSUME NEW o \in Outpoints
                   PROVE  UnspentKey(o) \in DOMAIN more <=> o \in e.unspent
        OBVIOUS
      <3>1. UnspentKey(o) \in DOMAIN kv => (goes(UnspentKey(o)) <=> o[1] \in gone)
        BY <1>g
      <3>2. UnspentKey(o)[1] # 0
        BY KindOfKey, LedgerNumbers
      <3>3. UnspentKey(o) \in DOMAIN kv <=> o \in d.unspent
        BY <1>0 DEF Reads, ReadsIndexes
      <3>4. UnspentKey(o) \in DOMAIN more <=> UnspentKey(o) \in DOMAIN kv /\ o[1] \notin gone
        BY <1>7, <3>1, <3>2
      <3>5. o \in e.unspent <=> o \in d.unspent /\ o[1] \notin gone
        BY <1>3
      <3> QED
        BY <3>3, <3>4, <3>5
    <2>2. \A h \in Heights, t \in Txids : HeightKey(h, t) \in DOMAIN more <=> <<h, t>> \in e.heightIndex
      <3> SUFFICES ASSUME NEW h \in Heights, NEW t \in Txids
                   PROVE  HeightKey(h, t) \in DOMAIN more <=> <<h, t>> \in e.heightIndex
        OBVIOUS
      <3>1. goes(HeightKey(h, t)) <=> \E u \in gone : <<h, t>> = <<Height[d.tx[u]], u>>
        BY <1>g
      <3>2. HeightKey(h, t)[1] # 0
        BY KindOfKey, LedgerNumbers
      <3>3. HeightKey(h, t) \in DOMAIN kv <=> <<h, t>> \in d.heightIndex
        BY <1>0 DEF Reads, ReadsIndexes
      <3>4. HeightKey(h, t) \in DOMAIN more <=> HeightKey(h, t) \in DOMAIN kv /\ ~goes(HeightKey(h, t))
        BY <1>7, <3>2
      <3>5. <<h, t>> \in e.heightIndex <=>
               <<h, t>> \in d.heightIndex /\ ~\E u \in gone : <<h, t>> = <<Height[d.tx[u]], u>>
        <4> HIDE DEF d, b, e, gone
        <4> QED
          BY <1>3
      <3> QED
        BY <3>1, <3>3, <3>4, <3>5
    <2>3. \A c \in Blocks, t \in Txids : HashKey(c, t) \in DOMAIN more <=> <<c, t>> \in e.hashIndex
      <3> SUFFICES ASSUME NEW c \in Blocks, NEW t \in Txids
                   PROVE  HashKey(c, t) \in DOMAIN more <=> <<c, t>> \in e.hashIndex
        OBVIOUS
      <3>1. goes(HashKey(c, t)) <=> c = b /\ t \in gone
        BY <1>g
      <3>2. HashKey(c, t)[1] # 0
        BY KindOfKey
      <3>3. HashKey(c, t) \in DOMAIN kv <=> <<c, t>> \in d.hashIndex
        BY <1>0 DEF Reads, ReadsIndexes
      <3>4. HashKey(c, t) \in DOMAIN more <=> HashKey(c, t) \in DOMAIN kv /\ ~goes(HashKey(c, t))
        BY <1>7, <3>2
      <3>5. <<c, t>> \in e.hashIndex <=> <<c, t>> \in d.hashIndex /\ ~(c = b /\ t \in gone)
        <4> HIDE DEF d, b, e, gone
        <4> QED
          BY <1>3
      <3> QED
        BY <3>1, <3>3, <3>4, <3>5
    <2>4. \A x \in Nat, h \in Heights :
             encodeTimeIndexKey(x, h) \in DOMAIN more <=> <<x, h>> \in e.timeIndex
      <3> SUFFICES ASSUME NEW x \in Nat, NEW h \in Heights
                   PROVE  encodeTimeIndexKey(x, h) \in DOMAIN more <=> <<x, h>> \in e.timeIndex
        OBVIOUS
      <3> DEFINE k == encodeTimeIndexKey(x, h)
      <3>1. goes(k) <=> \E u \in gone : <<x, h>> = <<Time[d.tx[u]], Height[d.tx[u]]>>
        BY <1>g
      <3>2. k[1] # 0
        BY KindOfKey, LedgerNumbers
      <3>3. k \in DOMAIN kv <=> <<x, h>> \in d.timeIndex
        BY <1>0 DEF Reads, ReadsIndexes
      <3>4. k \in DOMAIN more <=> k \in DOMAIN kv /\ ~goes(k)
        BY <1>7, <3>2
      <3>5. <<x, h>> \in e.timeIndex <=>
               <<x, h>> \in d.timeIndex /\ ~\E u \in gone : <<x, h>> = <<Time[d.tx[u]], Height[d.tx[u]]>>
        <4> HIDE DEF d, b, e, gone
        <4> QED
          BY <1>3, <1>t
      <3> QED
        BY <3>1, <3>3, <3>4, <3>5
    <2> QED
      BY <2>1, <2>2, <2>3, <2>4 DEF ReadsIndexes
  <1>11. ReadsStates(e, more)
    <2>1. \A k : k[1] \in {0, 10} => ~goes(k)
      BY <1>g
    <2>2. ASSUME NEW h \in Heights
          PROVE  /\ encodeBlockStateKey(h) \in DOMAIN more <=> e.blockState[h] # NoBlock
                 /\ encodeBlockStateKey(h) \in DOMAIN more =>
                       more[encodeBlockStateKey(h)] = Hash[e.blockState[h]] /\ Height[e.blockState[h]] = h
      <3>1. /\ encodeBlockStateKey(h) \in DOMAIN kv <=> d.blockState[h] # NoBlock
            /\ encodeBlockStateKey(h) \in DOMAIN kv =>
                  kv[encodeBlockStateKey(h)] = Hash[d.blockState[h]] /\ Height[d.blockState[h]] = h
        BY <1>0 DEF Reads, ReadsStates
      <3>2. encodeBlockStateKey(h) \in DOMAIN ops <=> h = Height[b]
        <4>1. ~goes(encodeBlockStateKey(h)) /\ h \in Nat
          BY <2>1, KindOfKey, LedgerNumbers
        <4>2. encodeBlockStateKey(h) = encodeBlockStateKey(Height[b]) <=> h = Height[b]
          BY <1>6, <4>1, KeysAreUnique
        <4> QED
          BY <1>4, <4>1, <4>2
      <3>3. e.blockState[h] = IF h = Height[b] THEN NoBlock ELSE d.blockState[h]
        <4> HIDE DEF d, b, e
        <4> QED
          BY <1>3, <1>6
      <3>4. /\ encodeBlockStateKey(h) \in DOMAIN more <=> encodeBlockStateKey(h) \in DOMAIN kv /\ h # Height[b]
            /\ encodeBlockStateKey(h) \in DOMAIN more => more[encodeBlockStateKey(h)] = kv[encodeBlockStateKey(h)]
        BY <1>5, <3>2
      <3> HIDE DEF d, b, e, ops, more, gone, goes
      <3> QED
        BY <3>1, <3>3, <3>4
    <2>3. /\ encodeOpStateKey \in DOMAIN more <=> encodeOpStateKey \in DOMAIN kv
          /\ encodeOpStateKey \in DOMAIN more => more[encodeOpStateKey] = kv[encodeOpStateKey]
      <3>1. encodeOpStateKey \notin DOMAIN ops
        <4>1. encodeOpStateKey[1] = 10 /\ encodeBlockStateKey(Height[b])[1] = 0
          BY <1>6, KindOfKey
        <4>2. ~goes(encodeOpStateKey)
          BY <2>1, <4>1
        <4> QED
          BY <1>4, <4>1, <4>2
      <3> QED
        BY <1>5, <3>1
    <2> HIDE DEF d, b, e, ops, more, gone, goes
    <2> QED
      BY <1>0, <1>3, <2>2, <2>3 DEF Reads, ReadsStates
  <1> QED
    BY <1>2, <1>8, <1>9, <1>10, <1>11, <1>12 DEF Reads

-----------------------------------------------------------------------------
(* The inductive invariant *)

\* What of the invariant the store itself says.
BaseKept(d) ==
    IF d.opState # NoState THEN d.blockState[BaseHeight] = BaseBlock ELSE IndexedHeights(d) = {}

Bounded(d) == \E h \in Heights : \A i \in IndexedHeights(d) : i <= h

InvRead ==
    /\ Has(encodeOpStateKey) <=> Decoded.opState # NoState
    /\ BaseStateKept <=> BaseKept(Decoded)
    /\ StatesBounded <=> Bounded(Decoded)

LEMMA InvReads == Pairs(kv) => InvRead
  <1> SUFFICES ASSUME Pairs(kv)
               PROVE  InvRead
    OBVIOUS
  <1>0. BaseHeight \in Heights /\ Height[BaseBlock] = BaseHeight /\ BaseBlock \in Blocks
    BY LedgerTypes DEF BaseHeight, Heights
  <1>1. Has(encodeOpStateKey) <=> Decoded.opState # NoState
    BY DecodedStates DEF ReadsStates, Has
  <1>2. IndexedHeights(Decoded) = {} <=> KeysUnder(BLOCK_STATE) = {}
    BY StateKeysRead
  <1>3. (Has(encodeBlockStateKey(BaseHeight)) /\ kv[encodeBlockStateKey(BaseHeight)] = Hash[BaseBlock])
           <=> Decoded.blockState[BaseHeight] = BaseBlock
    <2>1. /\ encodeBlockStateKey(BaseHeight) \in DOMAIN kv <=> Decoded.blockState[BaseHeight] # NoBlock
          /\ encodeBlockStateKey(BaseHeight) \in DOMAIN kv =>
                kv[encodeBlockStateKey(BaseHeight)] = Hash[Decoded.blockState[BaseHeight]]
      BY <1>0, DecodedStates DEF ReadsStates
    <2>2. Decoded.blockState[BaseHeight] \in Blocks \cup {NoBlock}
      BY <1>0, DecodedStates
    <2> QED
      BY <1>0, <2>1, <2>2, LedgerTypes, DigestsAreUnique DEF Has
  <1>4. StatesBounded <=> Bounded(Decoded)
    <2>1. \A k : k \in KeysUnder(BLOCK_STATE) <=> \E i \in IndexedHeights(Decoded) : k = encodeBlockStateKey(i)
      BY StateKeysRead
    <2>2. \A i \in IndexedHeights(Decoded) : decodeBlockStateKey(encodeBlockStateKey(i)) = i
      BY DecodeKey, LedgerNumbers DEF IndexedHeights
    <2> QED
      BY <2>1, <2>2 DEF StatesBounded, Bounded
  <1> QED
    BY <1>1, <1>2, <1>3, <1>4 DEF InvRead, BaseStateKept, BaseKept

\* The current block, once there is one.
LEMMA CurrentIsTop ==
    ASSUME Pairs(kv), BaseStateKept, StatesBounded, Has(encodeOpStateKey)
    PROVE  /\ Current \in Blocks /\ Current = GetCurrentBlockState(Decoded) /\ IsTop(Decoded, Current)
           /\ IndexedHeights(Decoded) # {}
  <1>1. Decoded.opState # NoState /\ BaseKept(Decoded)
    BY InvReads DEF InvRead
  <1>2. IndexedHeights(Decoded) # {}
    BY <1>1, LedgerTypes DEF BaseKept, IndexedHeights, Heights, BaseHeight
  <1> QED
    BY <1>2, TopStateRead DEF IsTop

\* The block that follows: the base block, or one above it.
LEMMA FollowsHeight ==
    ASSUME Pairs(kv), BaseStateKept, StatesBounded, NEW b \in Blocks, Follows(b)
    PROVE  IF Has(encodeOpStateKey)
           THEN Height[b] # BaseHeight /\ \A h \in IndexedHeights(Decoded) : h <= Height[b]
           ELSE b = BaseBlock /\ IndexedHeights(Decoded) = {}
  <1>1. CASE Has(encodeOpStateKey)
    <2>1. Current \in Blocks /\ IsTop(Decoded, Current) /\ Height[b] = Height[Current] + 1
      BY <1>1, CurrentIsTop DEF Follows
    <2>2. Height[Current] \in Nat /\ BaseHeight <= Height[Current] /\ BaseHeight \in Nat
      BY <2>1, HeightType
    <2>3. \A h \in IndexedHeights(Decoded) : h \in Nat /\ h <= Height[Current]
      BY <2>1, LedgerNumbers DEF IsTop, IndexedHeights
    <2> QED
      BY <1>1, <2>1, <2>2, <2>3
  <1>2. CASE ~Has(encodeOpStateKey)
    BY <1>2, InvReads DEF Follows, InvRead, BaseKept
  <1> QED
    BY <1>1, <1>2

\* While the pairs do not change, nothing read of them does.
LEMMA PairsUnchanged ==
    ASSUME kv' = kv
    PROVE  /\ Pairs(kv)' = Pairs(kv) /\ BaseStateKept' = BaseStateKept /\ StatesBounded' = StatesBounded
           /\ Has(encodeOpStateKey)' = Has(encodeOpStateKey)
           /\ Current' = Current
           /\ \A b : Follows(b)' = Follows(b)
           /\ \A o, p : markOutputsSpent(o, p)' = markOutputsSpent(o, p)
           /\ removeState' = removeState
  <1>1. Pairs(kv)' = Pairs(kv)
    BY DEF Pairs
  <1>2. BaseStateKept' = BaseStateKept
    BY DEF BaseStateKept, Has, KeysUnder
  <1>3. StatesBounded' = StatesBounded
    BY DEF StatesBounded, KeysUnder
  <1>4. Has(encodeOpStateKey)' = Has(encodeOpStateKey)
    BY DEF Has
  <1>5. Current' = Current
    BY Zenon DEF Current, getCurrentBlockState, LastIn
  <1>6. \A b : Follows(b)' = Follows(b)
    BY <1>4, <1>5, Zenon DEF Follows
  <1>7. \A o, p : markOutputsSpent(o, p)' = markOutputsSpent(o, p)
    BY Zenon DEF markOutputsSpent, Has
  <1>8. removeState' = removeState
    BY SMT DEF removeState, deleteTransactionsByBlockHash, getCurrentBlockState, LastIn, KeysIn, Has
  <1> QED
    BY <1>1, <1>2, <1>3, <1>4, <1>5, <1>6, <1>7, <1>8

\* The transactions of a block, and the outputs and outpoints of any.
LEMMA TransactionTypes ==
    /\ \A b \in Blocks : BlockTxs[b] \in Seq(Txids) /\ TxsOf(b) \in SUBSET Txids
    /\ \A T \in SUBSET Txids :
          /\ Eligible(T) \in SUBSET Txids /\ OutpointsOf(T) \in SUBSET Outpoints
          /\ SpentBy(T) \in SUBSET AnyOutpoint
    /\ \A t \in Txids : Spends[t] \in SUBSET AnyOutpoint
  <1>1. \A b \in Blocks : BlockTxs[b] \in Seq(Txids)
    BY LedgerTypes
  <1>2. \A b \in Blocks : TxsOf(b) \in SUBSET Txids
    BY <1>1 DEF TxsOf, Range
  <1>3. \A t \in Txids : Spends[t] \in SUBSET AnyOutpoint
    BY LedgerTypes DEF AnyOutpoint
  <1> QED
    BY <1>1, <1>2, <1>3 DEF Eligible, OutpointsOf, SpentBy

\* The ops queued for a block are those of pairs.
OpsTyped(ops) == \A k \in DOMAIN ops : ops[k].type = "put" => IsPair(k, ops[k].value)

LEMMA OpsThen ==
    ASSUME NEW ops, NEW more, OpsTyped(ops), OpsTyped(more)
    PROVE  OpsTyped(Then(ops, more))
  BY DEF OpsTyped, Then

TypeShape ==
    /\ Pairs(kv)
    /\ OpsTyped(batch)
    /\ job.stage \in {"none", "index", "states", "commit"}
    /\ job.block \in IF job.stage = "none" THEN {NoBlock} ELSE Blocks
    /\ job.left \in Seq(Txids)
    /\ job.outpoints \subseteq AnyOutpoint
    /\ job.pending \subseteq Outpoints

LEMMA TypeOKIs == TypeOK <=> TypeShape
  BY DEF TypeOK, TypeShape, Pairs, OpsTyped, AnyOutpoint

LEMMA SavesTyped ==
    ASSUME NEW b \in Blocks, NEW T \in SUBSET Txids
    PROVE  OpsTyped(Saves(b, T))
  BY SavesPairs DEF OpsTyped

LEMMA MarksTyped ==
    ASSUME Pairs(kv), NEW outpoints \in SUBSET AnyOutpoint, NEW pending \in SUBSET Outpoints
    PROVE  OpsTyped(markOutputsSpent(outpoints, pending))
  <1>1. Marked(outpoints, pending) \in SUBSET Outpoints
    BY DEF Marked
  <1>2. MarksOps(markOutputsSpent(outpoints, pending), Marked(outpoints, pending))
    BY MarkOps
  <1> HIDE DEF Marked
  <1> QED
    BY <1>1, <1>2, MarkPairs DEF OpsTyped

LEMMA SetStateTyped ==
    ASSUME NEW b \in Blocks
    PROVE  OpsTyped(setState(b))
  <1>1. /\ DOMAIN setState(b) = {encodeOpStateKey, encodeBlockStateKey(Height[b])}
        /\ setState(b)[encodeOpStateKey] = [type |-> "put", value |-> [indexedBlockHeight |-> Height[b]]]
        /\ setState(b)[encodeBlockStateKey(Height[b])] = [type |-> "put", value |-> Hash[b]]
    BY SetStateOps
  <1>2. IsPair(encodeOpStateKey, setState(b)[encodeOpStateKey].value)
    BY <1>1, LedgerNumbers DEF IsPair
  <1>3. IsPair(encodeBlockStateKey(Height[b]), setState(b)[encodeBlockStateKey(Height[b])].value)
    BY <1>1 DEF IsPair
  <1> QED
    BY <1>1, <1>2, <1>3 DEF OpsTyped

LEMMA NoJobTyped ==
    /\ OpsTyped(NoOps)
    /\ NoJob.stage = "none" /\ NoJob.block = NoBlock /\ NoJob.left \in Seq(Txids)
    /\ NoJob.outpoints = {} /\ NoJob.pending = {}
  BY DEF OpsTyped, NoOps, NoJob

\* A block is taken only when nothing is queued.
LEMMA NothingQueued ==
    ASSUME BatchExact, job = NoJob
    PROVE  batch = NoOps
  BY NoJobTyped DEF BatchExact

LEMMA CreateBatchInv ==
    ASSUME IndInv, NEW b \in Blocks, CreateBatch(b)
    PROVE  IndInv'
  <1>0. /\ kv' = kv /\ batch' = batch /\ job = NoJob /\ batch = NoOps /\ Follows(b)
        /\ job'.stage = "index" /\ job'.block = b /\ job'.outpoints = {} /\ job'.pending = {}
        /\ job'.left = IF Has(encodeOpStateKey) THEN BlockTxs[b] ELSE << >>
    BY NothingQueued DEF CreateBatch, NoJob, IndInv
  <1>1. TypeOK'
    <2>1. job'.left \in Seq(Txids)
      BY <1>0, TransactionTypes
    <2>2. Pairs(kv)' /\ OpsTyped(batch)'
      BY <1>0, TypeOKIs, PairsUnchanged, NoJobTyped DEF IndInv, TypeShape
    <2>3. TypeOK' <=> TypeShape'
      BY TypeOKIs, PTL
    <2> QED
      BY <1>0, <2>1, <2>2, <2>3 DEF TypeShape
  <1>2. BaseStateKept' /\ StatesBounded'
    BY <1>0, PairsUnchanged DEF IndInv
  <1>3. BatchExact'
    <2>1. JobTxs' = {} \cup Range(job'.left)
      <3>1. JobTxs' = IF Has(encodeOpStateKey) THEN TxsOf(b) ELSE {}
        BY <1>0, PairsUnchanged DEF JobTxs
      <3>2. Range(<< >>) = {}
        BY DEF Range
      <3> QED
        BY <1>0, <3>1, <3>2 DEF TxsOf
    <2>2. batch' = Saves(b, Eligible({}))
      BY <1>0 DEF Saves, Eligible, NoOps
    <2>3. SpentBy({}) = {} /\ OutpointsOf(Eligible({})) = {}
      BY DEF SpentBy, OutpointsOf, Eligible
    <2>4. Follows(job.block)' <=> Follows(b)'
      BY <1>0, PairsUnchanged DEF Follows
    <2>5. \E done \in SUBSET Txids :
             /\ JobTxs' = done \cup Range(job'.left)
             /\ batch' = Saves(job'.block, Eligible(done))
             /\ job'.outpoints = SpentBy(done)
             /\ job'.pending = OutpointsOf(Eligible(done))
      BY <1>0, <2>1, <2>2, <2>3
    <2> QED
      BY <1>0, <2>5, <2>4, PairsUnchanged DEF BatchExact
  <1> QED
    BY <1>1, <1>2, <1>3 DEF IndInv

LEMMA OutputsOfOne ==
    ASSUME NEW t \in Txids
    PROVE  \A o : o \in {t} \X Outputs[t] <=> o \in Outpoints /\ o[1] = t
  <1>1. \A o : o \in Outpoints <=> \E u \in Txids : \E v \in Outputs[u] : o = <<u, v>>
    BY DEF Outpoints
  <1> QED
    BY <1>1

\* The transactions, outpoints and outputs of one more transaction.
LEMMA OneMore ==
    ASSUME NEW T \in SUBSET Txids, NEW t \in Txids
    PROVE  /\ Eligible(T \cup {t}) = IF Outputs[t] = {} THEN Eligible(T) ELSE Eligible(T) \cup {t}
           /\ SpentBy(T \cup {t}) = SpentBy(T) \cup Spends[t]
           /\ OutpointsOf(Eligible(T \cup {t})) = OutpointsOf(Eligible(T)) \cup ({t} \X Outputs[t])
  <1>1. Eligible(T \cup {t}) = IF Outputs[t] = {} THEN Eligible(T) ELSE Eligible(T) \cup {t}
    BY DEF Eligible
  <1>2. SpentBy(T \cup {t}) = SpentBy(T) \cup Spends[t]
    BY DEF SpentBy
  <1>3. OutpointsOf(Eligible(T \cup {t})) = OutpointsOf(Eligible(T)) \cup ({t} \X Outputs[t])
    <2>1. \A o : o \in {t} \X Outputs[t] <=> o \in Outpoints /\ o[1] = t
      BY OutputsOfOne
    <2>2. \A o \in Outpoints : o[1] = t => Outputs[t] # {}
      BY DEF Outpoints
    <2> QED
      BY <1>1, <2>1, <2>2 DEF OutpointsOf
  <1> QED
    BY <1>1, <1>2, <1>3

LEMMA HeadAndTail ==
    ASSUME NEW S, NEW s \in Seq(S), s # << >>
    PROVE  Head(s) \in S /\ Tail(s) \in Seq(S) /\ Range(s) = {Head(s)} \cup Range(Tail(s))
  <1>1. Len(s) \in Nat /\ Len(s) > 0 /\ Len(Tail(s)) = Len(s) - 1
    BY HeadTailProperties
  <1>2. Head(s) = s[1] /\ Tail(s) \in Seq(S) /\ \A i \in 1..Len(Tail(s)) : Tail(s)[i] = s[i + 1]
    BY HeadTailProperties
  <1>3. Range(s) = {s[i] : i \in 1..Len(s)} /\ Range(Tail(s)) = {Tail(s)[i] : i \in 1..Len(Tail(s))}
    <2>1. DOMAIN s = 1..Len(s) /\ DOMAIN Tail(s) = 1..Len(Tail(s))
      BY <1>2, LenProperties
    <2> QED
      BY <2>1, Zenon DEF Range
  <1>4. \A x \in Range(s) : x \in {Head(s)} \cup Range(Tail(s))
    <2> SUFFICES ASSUME NEW i \in 1..Len(s), i # 1 PROVE s[i] \in Range(Tail(s))
      BY <1>2, <1>3
    <2>1. i - 1 \in 1..Len(Tail(s)) /\ (i - 1) + 1 = i
      BY <1>1
    <2> QED
      BY <2>1, <1>2, <1>3
  <1>5. \A x \in Range(Tail(s)) : x \in Range(s)
    BY <1>1, <1>2, <1>3
  <1> QED
    BY <1>1, <1>2, <1>3, <1>4, <1>5

LEMMA IndexTransactionInv ==
    ASSUME IndInv, IndexTransaction
    PROVE  IndInv'
  <1> DEFINE t == Head(job.left)
  <1> DEFINE b == job.block
  <1>0. /\ kv' = kv /\ job.stage = "index" /\ job.left # << >>
        /\ batch' = IF Outputs[t] = {} THEN batch ELSE Then(batch, saveTransaction(t, b))
    BY DEF IndexTransaction
  <1>a. TypeShape
    BY TypeOKIs DEF IndInv
  <1>b. /\ job'.stage = "index" /\ job'.block = b /\ job'.left = Tail(job.left)
        /\ job'.outpoints = job.outpoints \cup Spends[t]
        /\ job'.pending = job.pending \cup ({t} \X Outputs[t])
    BY DEF IndexTransaction, IndInv, BatchExact, TypeOK, NoJob
  <1>c. b \in Blocks
    BY <1>0, <1>a DEF TypeShape
  <1>d. t \in Txids /\ Tail(job.left) \in Seq(Txids) /\ Range(job.left) = {t} \cup Range(Tail(job.left))
    BY <1>0, <1>a, HeadAndTail DEF TypeShape
  <1>e. /\ Follows(b)
        /\ \E done \in SUBSET Txids :
              /\ JobTxs = done \cup Range(job.left)
              /\ batch = Saves(b, Eligible(done))
              /\ job.outpoints = SpentBy(done)
              /\ job.pending = OutpointsOf(Eligible(done))
    BY <1>0, NoJobTyped DEF IndInv, BatchExact
  <1> PICK done \in SUBSET Txids :
              /\ JobTxs = done \cup Range(job.left)
              /\ batch = Saves(b, Eligible(done))
              /\ job.outpoints = SpentBy(done)
              /\ job.pending = OutpointsOf(Eligible(done))
    BY <1>e
  <1> HIDE DEF t, b
  <1>f. /\ Eligible(done \cup {t}) = IF Outputs[t] = {} THEN Eligible(done) ELSE Eligible(done) \cup {t}
        /\ SpentBy(done \cup {t}) = SpentBy(done) \cup Spends[t]
        /\ OutpointsOf(Eligible(done \cup {t})) = OutpointsOf(Eligible(done)) \cup ({t} \X Outputs[t])
    BY <1>d, OneMore
  <1>g. Eligible(done) \in SUBSET Txids /\ Spends[t] \in SUBSET AnyOutpoint /\ {t} \X Outputs[t] \in SUBSET Outpoints
    <2>1. {t} \X Outputs[t] \in SUBSET Outpoints
      BY <1>d, OutputsOfOne
    <2> QED
      BY <1>d, <2>1, TransactionTypes
  <1>h. batch' = Saves(b, Eligible(done \cup {t}))
    <2>1. CASE Outputs[t] = {}
      BY <1>0, <1>f, <2>1 DEF b
    <2>2. CASE Outputs[t] # {}
      <3>1. batch' = Then(Saves(b, Eligible(done)), saveTransaction(t, b))
        BY <1>0, <2>2
      <3>2. Then(Saves(b, Eligible(done)), saveTransaction(t, b)) = Saves(b, Eligible(done) \cup {t})
        BY <1>c, <1>d, <1>g, SavesThen
      <3> QED
        BY <1>f, <2>2, <3>1, <3>2
    <2> QED
      BY <2>1, <2>2
  <1>1. TypeOK'
    <2>1. OpsTyped(batch)'
      BY <1>c, <1>d, <1>h, SavesTyped, TransactionTypes
    <2>2. TypeOK' <=> TypeShape'
      BY TypeOKIs, PTL
    <2>3. job'.outpoints \subseteq AnyOutpoint /\ job'.pending \subseteq Outpoints
      BY <1>a, <1>b, <1>g DEF TypeShape
    <2>4. Pairs(kv)'
      BY <1>0, <1>a, PairsUnchanged DEF TypeShape
    <2> QED
      BY <1>b, <1>c, <1>d, <2>1, <2>2, <2>3, <2>4 DEF TypeShape
  <1>2. BaseStateKept' /\ StatesBounded'
    BY <1>0, PairsUnchanged DEF IndInv
  <1>3. BatchExact'
    <2>1. JobTxs' = JobTxs /\ (Follows(job.block)' <=> Follows(b))
      BY <1>0, <1>b, PairsUnchanged DEF JobTxs, Follows, b
    <2>2. JobTxs = (done \cup {t}) \cup Range(job'.left)
      BY <1>b, <1>d
    <2>3. done \cup {t} \in SUBSET Txids
      BY <1>d
    <2>4. /\ JobTxs' = (done \cup {t}) \cup Range(job'.left)
          /\ batch' = Saves(job'.block, Eligible(done \cup {t}))
          /\ job'.outpoints = SpentBy(done \cup {t})
          /\ job'.pending = OutpointsOf(Eligible(done \cup {t}))
      BY <1>b, <1>f, <1>h, <2>1, <2>2
    <2>5. \E more \in SUBSET Txids :
             /\ JobTxs' = more \cup Range(job'.left)
             /\ batch' = Saves(job'.block, Eligible(more))
             /\ job'.outpoints = SpentBy(more)
             /\ job'.pending = OutpointsOf(Eligible(more))
      BY <2>3, <2>4
    <2> QED
      BY <1>b, <1>e, <2>1, <2>5 DEF BatchExact
  <1> QED
    BY <1>1, <1>2, <1>3 DEF IndInv

LEMMA MarkSpentInv ==
    ASSUME IndInv, MarkSpent
    PROVE  IndInv'
  <1> DEFINE b == job.block
  <1>0. /\ kv' = kv /\ job.stage = "index" /\ job.left = << >>
        /\ batch' = Then(batch, markOutputsSpent(job.outpoints, job.pending))
    BY DEF MarkSpent
  <1>a. TypeShape
    BY TypeOKIs DEF IndInv
  <1>b. /\ job'.stage = "states" /\ job'.block = b /\ job'.left = job.left
        /\ job'.outpoints = job.outpoints /\ job'.pending = job.pending
    BY DEF MarkSpent, IndInv, BatchExact, TypeOK, NoJob
  <1>c. b \in Blocks
    BY <1>0, <1>a DEF TypeShape
  <1>e. /\ Follows(b)
        /\ \E done \in SUBSET Txids :
              /\ JobTxs = done \cup Range(job.left)
              /\ batch = Saves(b, Eligible(done))
              /\ job.outpoints = SpentBy(done)
              /\ job.pending = OutpointsOf(Eligible(done))
    BY <1>0, NoJobTyped DEF IndInv, BatchExact
  <1>f. /\ batch = Saves(b, Eligible(JobTxs))
        /\ job.outpoints = SpentBy(JobTxs)
        /\ job.pending = OutpointsOf(Eligible(JobTxs))
    <2>1. Range(<< >>) = {}
      BY DEF Range
    <2> QED
      BY <1>0, <1>e, <2>1
  <1>1. TypeOK'
    <2>1. OpsTyped(batch)'
      BY <1>0, <1>a, OpsThen, MarksTyped DEF TypeShape
    <2>2. TypeOK' <=> TypeShape'
      BY TypeOKIs, PTL
    <2>3. Pairs(kv)'
      BY <1>0, <1>a, PairsUnchanged DEF TypeShape
    <2> QED
      BY <1>a, <1>b, <1>c, <2>1, <2>2, <2>3 DEF TypeShape
  <1>2. BaseStateKept' /\ StatesBounded'
    BY <1>0, PairsUnchanged DEF IndInv
  <1>3. BatchExact'
    <2>1. JobTxs' = JobTxs /\ (Follows(job.block)' <=> Follows(b))
      BY <1>0, <1>b, PairsUnchanged DEF JobTxs, Follows
    <2>2. markOutputsSpent(SpentBy(JobTxs), OutpointsOf(Eligible(JobTxs)))' =
             markOutputsSpent(SpentBy(JobTxs), OutpointsOf(Eligible(JobTxs)))
      BY <1>0, <2>1, PairsUnchanged
    <2>3. batch' = Then(Saves(b, Eligible(JobTxs)),
                        markOutputsSpent(SpentBy(JobTxs), OutpointsOf(Eligible(JobTxs))))
      BY <1>0, <1>f
    <2> QED
      BY <1>b, <1>e, <2>1, <2>2, <2>3 DEF BatchExact
  <1> QED
    BY <1>1, <1>2, <1>3 DEF IndInv

LEMMA SaveStatesInv ==
    ASSUME IndInv, SaveStates
    PROVE  IndInv'
  <1> DEFINE b == job.block
  <1> DEFINE marked == Then(Saves(b, Eligible(JobTxs)),
                            markOutputsSpent(SpentBy(JobTxs), OutpointsOf(Eligible(JobTxs))))
  <1>0. kv' = kv /\ job.stage = "states" /\ batch' = Then(batch, setState(b))
    BY DEF SaveStates
  <1>a. TypeShape
    BY TypeOKIs DEF IndInv
  <1>b. /\ job'.stage = "commit" /\ job'.block = b /\ job'.left = job.left
        /\ job'.outpoints = job.outpoints /\ job'.pending = job.pending
    BY DEF SaveStates, IndInv, BatchExact, TypeOK, NoJob
  <1>c. b \in Blocks
    BY <1>0, <1>a DEF TypeShape
  <1>e. Follows(b) /\ batch = marked
    BY <1>0, NoJobTyped DEF IndInv, BatchExact
  <1>1. TypeOK'
    <2>1. OpsTyped(batch)'
      BY <1>0, <1>a, <1>c, OpsThen, SetStateTyped DEF TypeShape
    <2>2. TypeOK' <=> TypeShape'
      BY TypeOKIs, PTL
    <2>3. Pairs(kv)'
      BY <1>0, <1>a, PairsUnchanged DEF TypeShape
    <2> QED
      BY <1>a, <1>b, <1>c, <2>1, <2>2, <2>3 DEF TypeShape
  <1>2. BaseStateKept' /\ StatesBounded'
    BY <1>0, PairsUnchanged DEF IndInv
  <1>3. BatchExact'
    <2>1. JobTxs' = JobTxs /\ (Follows(job.block)' <=> Follows(b))
      BY <1>0, <1>b, PairsUnchanged DEF JobTxs, Follows
    <2>2. markOutputsSpent(SpentBy(JobTxs), OutpointsOf(Eligible(JobTxs)))' =
             markOutputsSpent(SpentBy(JobTxs), OutpointsOf(Eligible(JobTxs)))
      BY <1>0, <2>1, PairsUnchanged
    <2>3. batch' = Then(marked, setState(b))
      BY <1>0, <1>e
    <2> QED
      BY <1>b, <1>e, <2>1, <2>2, <2>3 DEF BatchExact
  <1> QED
    BY <1>1, <1>2, <1>3 DEF IndInv

LEMMA DelsTyped == OpsTyped(removeState)
  BY DEF OpsTyped, removeState, deleteBlockState, deleteTransactionsByBlockHash, Then, del

LEMMA RemoveCurrentStateInv ==
    ASSUME IndInv, RemoveCurrentState
    PROVE  IndInv'
  <1>0. /\ kv' = kv /\ job = NoJob /\ batch' = removeState
        /\ Has(encodeOpStateKey) /\ Current # BaseBlock
        /\ job'.stage = "commit" /\ job'.block = Current /\ job'.left = << >>
        /\ job'.outpoints = {} /\ job'.pending = {}
    BY DEF RemoveCurrentState, NoJob
  <1>a. TypeShape
    BY TypeOKIs DEF IndInv
  <1>c. Current \in Blocks
    BY <1>0, <1>a, CurrentIsTop DEF IndInv, TypeShape
  <1>1. TypeOK'
    <2>1. OpsTyped(batch)'
      BY <1>0, DelsTyped
    <2>2. TypeOK' <=> TypeShape'
      BY TypeOKIs, PTL
    <2>3. Pairs(kv)'
      BY <1>0, <1>a, PairsUnchanged DEF TypeShape
    <2> QED
      BY <1>0, <1>c, <2>1, <2>2, <2>3 DEF TypeShape
  <1>2. BaseStateKept' /\ StatesBounded'
    BY <1>0, PairsUnchanged DEF IndInv
  <1>3. BatchExact'
    <2>1. Has(encodeOpStateKey)' /\ Current' = Current /\ batch' = removeState'
      BY <1>0, PairsUnchanged
    <2> QED
      BY <1>0, <2>1 DEF BatchExact
  <1> QED
    BY <1>1, <1>2, <1>3 DEF IndInv

LEMMA DiscardInv ==
    ASSUME IndInv, Discard
    PROVE  IndInv'
  <1>0. kv' = kv /\ job' = NoJob /\ batch' = NoOps
    BY DEF Discard
  <1>a. TypeShape
    BY TypeOKIs DEF IndInv
  <1>1. TypeOK'
    <2>1. TypeOK' <=> TypeShape'
      BY TypeOKIs, PTL
    <2>2. Pairs(kv)'
      BY <1>0, <1>a, PairsUnchanged DEF TypeShape
    <2> QED
      BY <1>0, <2>1, <2>2, NoJobTyped DEF TypeShape
  <1>2. BaseStateKept' /\ StatesBounded'
    BY <1>0, PairsUnchanged DEF IndInv
  <1>3. BatchExact'
    BY <1>0 DEF BatchExact
  <1> QED
    BY <1>1, <1>2, <1>3 DEF IndInv

LEMMA StutterInv ==
    ASSUME IndInv, UNCHANGED vars
    PROVE  IndInv'
  <1>0. kv' = kv /\ batch' = batch /\ job' = job
    BY DEF vars
  <1>1. TypeOK'
    BY <1>0 DEF IndInv, TypeOK
  <1>2. BaseStateKept' /\ StatesBounded'
    BY <1>0, PairsUnchanged DEF IndInv
  <1>3. BatchExact'
    <2>1. JobTxs' = JobTxs /\ (Follows(job.block)' <=> Follows(job.block))
      BY <1>0, PairsUnchanged DEF JobTxs, Follows
    <2>2. /\ Has(encodeOpStateKey)' = Has(encodeOpStateKey) /\ Current' = Current
          /\ removeState' = removeState
          /\ markOutputsSpent(SpentBy(JobTxs), OutpointsOf(Eligible(JobTxs)))' =
                markOutputsSpent(SpentBy(JobTxs), OutpointsOf(Eligible(JobTxs)))
      BY <1>0, <2>1, PairsUnchanged
    <2> QED
      BY <1>0, <2>1, <2>2 DEF BatchExact, IndInv
  <1> QED
    BY <1>1, <1>2, <1>3 DEF IndInv

\* What commit() makes of a batch that is complete.
Indexed(d, b, txs) == SetState(IndexTransactions(d, b, txs, BlockTime(b)), [indexedBlockHeight |-> Height[b]], b)

\* The batch of a block, applied: what IndexTransactions and SetState say.
LEMMA ReadsIndexed ==
    ASSUME Pairs(kv), NEW b \in Blocks, NEW txs \in SUBSET Txids, NEW marks,
           marks = markOutputsSpent(SpentBy(txs), OutpointsOf(Eligible(txs)))
    PROVE  Reads(Indexed(Decoded, b, txs), Apply(kv, Then(Then(Saves(b, Eligible(txs)), marks), setState(b))))
  <1> DEFINE outpoints == SpentBy(txs)
             pending   == OutpointsOf(Eligible(txs))
             S         == Marked(outpoints, pending)
             saves     == Saves(b, Eligible(txs))
             d         == SaveTransactions(Decoded, b, txs, BlockTime(b))
             e         == IndexTransactions(Decoded, b, txs, BlockTime(b))
  <1>1. outpoints \in SUBSET AnyOutpoint /\ pending \in SUBSET Outpoints
    BY TransactionTypes
  <1>2. Reads(Decoded, kv)
    BY DecodedReads
  <1>9. \A t \in txs : BlockTime(b)[t] \in Nat
    BY LedgerTypes DEF BlockTime
  <1>3. Reads(d, Apply(kv, saves))
    BY <1>2, ReadsSaves
  <1>4. MarksOps(marks, S) /\ S \in SUBSET Outpoints
    <2> HIDE DEF outpoints, pending
    <2>1. MarksOps(markOutputsSpent(outpoints, pending), S)
      BY <1>1, MarkOps
    <2>2. marks = markOutputsSpent(outpoints, pending)
      BY DEF outpoints, pending
    <2> QED
      BY <2>1, <2>2 DEF Marked
  <1>5. e \in Stores(OperationStates)
    BY <1>2, <1>9, IndexTransactionsType DEF Reads
  <1>6. e = [d EXCEPT !.output  = [o \in Outpoints |-> IF o \in S THEN "spent" ELSE @[o]],
                      !.unspent = @ \ S]
    BY Zenon DEF IndexTransactions, MarkOutputsSpent, Marked
  <1>7. Reads(e, Apply(Apply(kv, saves), marks))
    <2> HIDE DEF d, e, S, saves
    <2> QED
      BY <1>3, <1>4, <1>5, <1>6, ReadsMark
  <1>8. Reads(Indexed(Decoded, b, txs), Apply(Apply(Apply(kv, saves), marks), setState(b)))
    <2> HIDE DEF saves
    <2>1. Indexed(Decoded, b, txs) = SetState(e, [indexedBlockHeight |-> Height[b]], b)
      BY DEF Indexed
    <2> HIDE DEF e
    <2> QED
      BY <1>7, <2>1, ReadsSetState
  <1> HIDE DEF saves
  <1> QED
    BY <1>8, ApplyThen DEF saves

\* Committed: the block's batch, or the removal of the current block.
BlockCommitted == \E b \in Blocks : Follows(b) /\ Decoded' = Indexed(Decoded, b, IF Has(encodeOpStateKey) THEN TxsOf(b) ELSE {})

BlockRemoved ==
    /\ Has(encodeOpStateKey) /\ Current # BaseBlock
    /\ Decoded' = RemoveState(Decoded, Current)

LEMMA CommitEffect ==
    ASSUME IndInv, commit
    PROVE  Pairs(kv)' /\ (BlockCommitted \/ BlockRemoved)
  <1>0. kv' = Apply(kv, batch) /\ job.stage = "commit" /\ TypeShape
    BY TypeOKIs DEF commit, IndInv
  <1>1. Pairs(kv')
    BY <1>0, ApplyPairs DEF TypeShape, OpsTyped
  <1>2. Pairs(kv)'
    BY <1>1 DEF Pairs
  <1>3. Reads(Decoded', kv')
    <2>1. Pairs(kv)' => Reads(Decoded, kv)'
      BY DecodedReads, PTL
    <2> QED
      BY <1>2, <2>1 DEF Reads, Timed, ReadsTx, ReadsOutput, ReadsIndexes, ReadsStates
  <1>4. CASE Follows(job.block) /\ batch = Then(Then(Saves(job.block, Eligible(JobTxs)),
                                                     markOutputsSpent(SpentBy(JobTxs), OutpointsOf(Eligible(JobTxs)))),
                                                setState(job.block))
    <2> DEFINE b == job.block
    <2>1. b \in Blocks
      BY <1>0 DEF TypeShape
    <2>2. JobTxs \in SUBSET Txids
      BY <2>1, TransactionTypes DEF JobTxs
    <2>3. Reads(Indexed(Decoded, b, JobTxs), kv')
      BY <1>0, <1>4, <2>1, <2>2, ReadsIndexed DEF TypeShape
    <2>4. Decoded' = Indexed(Decoded, b, JobTxs)
      BY <1>3, <2>3, ReadsUnique
    <2> QED
      BY <1>2, <1>4, <2>1, <2>4 DEF BlockCommitted, JobTxs
  <1>5. CASE Has(encodeOpStateKey) /\ Current # BaseBlock /\ batch = removeState
    <2>1. Current = GetCurrentBlockState(Decoded) /\ IndexedHeights(Decoded) # {}
      BY <1>0, <1>5, CurrentIsTop DEF IndInv, TypeShape
    <2>2. Reads(RemoveState(Decoded, Current), kv')
      BY <1>0, <1>5, <2>1, ReadsRemove DEF IndInv, TypeShape
    <2>3. Decoded' = RemoveState(Decoded, Current)
      BY <1>3, <2>2, ReadsUnique
    <2> QED
      BY <1>2, <1>5, <2>3 DEF BlockRemoved
  <1> QED
    BY <1>0, <1>4, <1>5, NoJobTyped DEF IndInv, BatchExact

LEMMA IndexedStates ==
    ASSUME NEW d \in Stores(OperationStates), NEW b \in Blocks, NEW txs
    PROVE  /\ Indexed(d, b, txs).blockState = [d.blockState EXCEPT ![Height[b]] = b]
           /\ Indexed(d, b, txs).opState # NoState
  <1> DEFINE e == IndexTransactions(d, b, txs, BlockTime(b))
  <1>1. e.blockState = d.blockState /\ e.opState = d.opState
    BY IndexTransactionsStates
  <1>2. /\ SetState(e, [indexedBlockHeight |-> Height[b]], b).blockState = [e.blockState EXCEPT ![Height[b]] = b]
        /\ SetState(e, [indexedBlockHeight |-> Height[b]], b).opState = [indexedBlockHeight |-> Height[b]]
    <2>1. e = [e EXCEPT !.unspent = e.unspent] /\ {"opState", "blockState"} \subseteq DOMAIN e
      BY DEF IndexTransactions, MarkOutputsSpent, SaveTransactions, Stores
    <2> HIDE DEF e
    <2> QED
      BY <2>1 DEF SetState
  <1>3. [indexedBlockHeight |-> Height[b]] # NoState
    BY NoStateIsNone, HeightType
  <1> HIDE DEF e
  <1> QED
    BY <1>1, <1>2, <1>3 DEF Indexed, e

LEMMA CommitInv ==
    ASSUME IndInv, commit
    PROVE  IndInv'
  <1>0. batch' = NoOps /\ job' = NoJob
    BY DEF commit
  <1>1. Pairs(kv)' /\ (BlockCommitted \/ BlockRemoved)
    BY CommitEffect
  <1>2. Pairs(kv) /\ BaseStateKept /\ StatesBounded
    BY TypeOKIs DEF IndInv, TypeShape
  <1>3. InvRead /\ InvRead'
    <2>1. Pairs(kv)' => InvRead'
      BY InvReads, PTL
    <2> QED
      BY <1>1, <1>2, <2>1, InvReads
  <1>4. Decoded \in Stores(OperationStates)
    BY <1>2, DecodedReads DEF Reads
  <1>5. BaseKept(Decoded) /\ Bounded(Decoded)
    BY <1>2, <1>3 DEF InvRead
  <1>6. BaseKept(Decoded') /\ Bounded(Decoded')
    <2> DEFINE d == Decoded
               e == Decoded'
    <2>1. CASE BlockCommitted
      <3> PICK b \in Blocks : Follows(b) /\ e = Indexed(d, b, IF Has(encodeOpStateKey) THEN TxsOf(b) ELSE {})
        BY <2>1 DEF BlockCommitted
      <3>1. /\ e.blockState = [d.blockState EXCEPT ![Height[b]] = b] /\ e.opState # NoState
            /\ Height[b] \in Heights /\ d.blockState \in [Heights -> Blocks \cup {NoBlock}]
        <4> DEFINE txs == IF Has(encodeOpStateKey) THEN TxsOf(b) ELSE {}
        <4>1. d \in Stores(OperationStates) /\ e = Indexed(d, b, txs)
          BY <1>4
        <4> HIDE DEF d, e, txs
        <4>2. /\ Indexed(d, b, txs).blockState = [d.blockState EXCEPT ![Height[b]] = b]
              /\ Indexed(d, b, txs).opState # NoState
          BY <4>1, IndexedStates
        <4>3. Height[b] \in Heights /\ d.blockState \in [Heights -> Blocks \cup {NoBlock}]
          BY <4>1, HeightType DEF Stores
        <4> QED
          BY <4>1, <4>2, <4>3
      <3>2. IF d.opState # NoState
            THEN Height[b] # BaseHeight /\ \A h \in IndexedHeights(d) : h <= Height[b]
            ELSE b = BaseBlock /\ IndexedHeights(d) = {}
        BY <1>2, <1>3, FollowsHeight DEF InvRead
      <3>3. BaseHeight \in Heights /\ BaseHeight = Height[BaseBlock] /\ Height[b] \in Nat
        BY HeightType, LedgerTypes DEF BaseHeight, Heights
      <3> HIDE DEF d, e
      <3>4. e.blockState[BaseHeight] = BaseBlock
        BY <1>5, <3>1, <3>2, <3>3 DEF BaseKept, d
      <3>5. \A h \in IndexedHeights(e) : h <= Height[b]
        BY <3>1, <3>2, <3>3 DEF IndexedHeights
      <3> QED
        BY <3>1, <3>4, <3>5 DEF BaseKept, Bounded, e
    <2>2. CASE BlockRemoved
      <3>1. Has(encodeOpStateKey) /\ Current # BaseBlock /\ e = RemoveState(d, Current)
        BY <2>2 DEF BlockRemoved
      <3>2. Current \in Blocks
        BY <1>2, <3>1, CurrentIsTop
      <3>3. e.blockState = [d.blockState EXCEPT ![Height[Current]] = NoBlock] /\ e.opState = d.opState
        BY <1>4, <3>1, <3>2, RemoveStateStates
      <3>4. Height[Current] # BaseHeight /\ Height[Current] \in Heights
        BY <3>1, <3>2, BaseIsOnly, HeightType
      <3>5. d.opState # NoState /\ d.blockState \in [Heights -> Blocks \cup {NoBlock}]
        BY <1>3, <1>4, <3>1 DEF InvRead, Stores
      <3> HIDE DEF d, e
      <3>6. e.blockState[BaseHeight] = d.blockState[BaseHeight]
        <4>1. BaseHeight \in Heights
          BY HeightType, LedgerTypes DEF BaseHeight, Heights
        <4> QED
          BY <3>3, <3>4, <3>5, <4>1
      <3>7. IndexedHeights(e) \subseteq IndexedHeights(d)
        BY <3>3, <3>4, <3>5 DEF IndexedHeights
      <3> QED
        BY <1>5, <3>3, <3>5, <3>6, <3>7 DEF BaseKept, Bounded, d, e
    <2> QED
      BY <1>1, <2>1, <2>2
  <1>7. BaseStateKept' /\ StatesBounded'
    BY <1>3, <1>6 DEF InvRead, BaseKept, Bounded, IndexedHeights
  <1>8. TypeOK'
    <2>1. TypeOK' <=> TypeShape'
      BY TypeOKIs, PTL
    <2> QED
      BY <1>0, <1>1, <2>1, NoJobTyped DEF TypeShape
  <1>9. BatchExact'
    BY <1>0 DEF BatchExact
  <1> QED
    BY <1>7, <1>8, <1>9 DEF IndInv

LEMMA InitInv ==
    ASSUME Init
    PROVE  IndInv
  <1>1. DOMAIN kv = {} /\ batch = NoOps /\ job = NoJob
    BY DEF Init
  <1>2. TypeOK
    BY <1>1, TypeOKIs, NoJobTyped DEF TypeShape, Pairs
  <1>3. BaseStateKept /\ StatesBounded
    BY <1>1, HeightType, LedgerTypes DEF BaseStateKept, StatesBounded, KeysUnder, Has
  <1> QED
    BY <1>1, <1>2, <1>3 DEF IndInv, BatchExact

\* Whatever is queued, dropped or committed, the pairs are those of whole batches
\* and the batch in progress is what its calls have queued so far.
THEOREM Invariance == Spec => []IndInv
  <1>1. IndInv /\ [Next]_vars => IndInv'
    BY CreateBatchInv, IndexTransactionInv, MarkSpentInv, SaveStatesInv, RemoveCurrentStateInv,
       CommitInv, DiscardInv, StutterInv DEF Next
  <1> QED
    BY <1>1, InitInv, PTL DEF Spec

\* Every pair, stored or queued, has a key some encoder writes and the value that
\* goes with it.
THEOREM TypeCorrectness == Spec => []TypeOK
  BY Invariance, PTL DEF IndInv

\* A scan of a span of heights finds the transactions of these heights and no others.
THEOREM HeightScanExactness == Spec => []HeightScansExact
  <1>1. IndInv => HeightScansExact
    BY HeightScans, TypeOKIs DEF IndInv, TypeShape
  <1> QED
    BY <1>1, Invariance, PTL

\* A scan by hash finds the transactions of the blocks whose hash begins with the
\* bytes given, and of each transaction its own outputs.
THEOREM HashScanExactness == Spec => []HashScansExact
  <1>1. IndInv => HashScansExact
    BY HashScans, TypeOKIs DEF IndInv, TypeShape
  <1> QED
    BY <1>1, Invariance, PTL

\* The reverse scan finds the state of the greatest height.
THEOREM CurrentStateReading == Spec => []CurrentStateRead
  <1>1. IndInv => CurrentStateRead
    BY CurrentStateExact, TypeOKIs DEF IndInv, TypeShape
  <1> QED
    BY <1>1, Invariance, PTL

-----------------------------------------------------------------------------
(* The pairs implement BlockStore *)

\* The operators of the store that the pairs implement are those of Storage.
LEMMA SameWrites ==
    /\ Store!EmptyStore = EmptyStore
    /\ \A b : Store!TxsOf(b) = TxsOf(b)
    /\ \A d, state, b : Store!SetState(d, state, b) = SetState(d, state, b)
    /\ \A b : Store!BlockTime(b) = BlockTime(b)
    /\ \A d, b, txs, times :
          Store!IndexTransactions(d, b, txs, times) = IndexTransactions(d, b, txs, times)
    /\ \A d, b : Store!RemoveState(d, b) = RemoveState(d, b)
    /\ \A d : Store!GetCurrentBlockState(d) = GetCurrentBlockState(d)
  <1>0. Heights = Store!Heights /\ Outpoints = Store!Outpoints
    BY DEF Heights, Store!Heights, Outpoints, Store!Outpoints
  <1>1. Store!EmptyStore = EmptyStore
    BY <1>0 DEF Store!EmptyStore, EmptyStore
  <1>2. \A b : Store!TxsOf(b) = TxsOf(b)
    BY DEF Store!TxsOf, TxsOf, Range, Store!Range
  <1>3. \A d, state, b : Store!SetState(d, state, b) = SetState(d, state, b)
    BY Zenon DEF Store!SetState, SetState
  <1>7. \A b : Store!BlockTime(b) = BlockTime(b)
    BY Zenon DEF Store!BlockTime, BlockTime
  <1>4. \A d, b, txs, times :
           Store!IndexTransactions(d, b, txs, times) = IndexTransactions(d, b, txs, times)
    <2>1. \A T : Store!Eligible(T) = Eligible(T) /\ Store!SpentBy(T) = SpentBy(T)
      BY DEF Store!Eligible, Eligible, Store!SpentBy, SpentBy
    <2>2. \A T : Store!OutpointsOf(T) = OutpointsOf(T)
      BY <1>0 DEF Store!OutpointsOf, OutpointsOf
    <2>3. \A d, b, txs, times :
             Store!SaveTransactions(d, b, txs, times) = SaveTransactions(d, b, txs, times)
      <3> TAKE d, b, txs, times
      <3>1. PICK saved, new, outpoints :
               /\ saved = Store!Eligible(txs) /\ saved = Eligible(txs)
               /\ new = Store!OutpointsOf(saved) /\ new = OutpointsOf(saved)
               /\ outpoints = Store!Outpoints /\ outpoints = Outpoints
        BY <1>0, <2>1, <2>2
      <3>2. Store!SaveTransactions(d, b, txs, times) =
               [d EXCEPT
                 !.tx          = [t \in Txids |-> IF t \in saved THEN b ELSE @[t]],
                 !.time        = [t \in Txids |-> IF t \in saved THEN times[t] ELSE @[t]],
                 !.output      = [o \in outpoints |-> IF o \in new THEN "unspent" ELSE @[o]],
                 !.unspent     = @ \cup new,
                 !.heightIndex = @ \cup ({Height[b]} \X saved),
                 !.hashIndex   = @ \cup ({b} \X saved),
                 !.timeIndex   = @ \cup {<<times[t], Height[b]>> : t \in saved}]
        BY <3>1, Zenon DEF Store!SaveTransactions
      <3>3. SaveTransactions(d, b, txs, times) =
               [d EXCEPT
                 !.tx          = [t \in Txids |-> IF t \in saved THEN b ELSE @[t]],
                 !.time        = [t \in Txids |-> IF t \in saved THEN times[t] ELSE @[t]],
                 !.output      = [o \in outpoints |-> IF o \in new THEN "unspent" ELSE @[o]],
                 !.unspent     = @ \cup new,
                 !.heightIndex = @ \cup ({Height[b]} \X saved),
                 !.hashIndex   = @ \cup ({b} \X saved),
                 !.timeIndex   = @ \cup {<<times[t], Height[b]>> : t \in saved}]
        BY <3>1, Zenon DEF SaveTransactions
      <3> QED
        BY <3>2, <3>3
    <2>4. \A c, d, p, o : Store!MarkOutputsSpent(c, d, p, o) = MarkOutputsSpent(c, d, p, o)
      BY <1>0, Zenon DEF Store!MarkOutputsSpent, MarkOutputsSpent
    <2> QED
      BY <2>1, <2>2, <2>3, <2>4, Zenon DEF Store!IndexTransactions, IndexTransactions
  <1>5. \A d, b : Store!RemoveState(d, b) = RemoveState(d, b)
    <2>1. \A d, b : Store!DeleteTransactionsByBlockHash(d, b) = DeleteTransactionsByBlockHash(d, b)
      BY <1>0, Zenon DEF Store!DeleteTransactionsByBlockHash, DeleteTransactionsByBlockHash
    <2> QED
      BY <2>1, Zenon DEF Store!RemoveState, RemoveState
  <1>6. \A d : Store!GetCurrentBlockState(d) = GetCurrentBlockState(d)
    <2>1. \A d : Store!IndexedHeights(d) = IndexedHeights(d)
      BY <1>0 DEF Store!IndexedHeights, IndexedHeights
    <2>2. \A S : Store!Max(S) = Max(S)
      BY DEF Store!Max, Max
    <2> QED
      BY <2>1, <2>2, Zenon DEF Store!GetCurrentBlockState, GetCurrentBlockState
  <1> QED
    BY <1>1, <1>2, <1>3, <1>4, <1>5, <1>6, <1>7

LEMMA EmptyReads ==
    ASSUME Init
    PROVE  Decoded = EmptyStore
  <1>1. DOMAIN kv = {} /\ Pairs(kv)
    BY DEF Init, Pairs
  <1>2. EmptyStore \in Stores(OperationStates)
    BY DEF EmptyStore, Stores, OutputStatus
  <1>3. Reads(EmptyStore, kv)
    <2>1. ReadsTx(EmptyStore, kv) /\ ReadsOutput(EmptyStore, kv)
      BY <1>1 DEF ReadsTx, ReadsOutput, EmptyStore
    <2>2. ReadsIndexes(EmptyStore, kv) /\ ReadsStates(EmptyStore, kv)
      BY <1>1 DEF ReadsIndexes, ReadsStates, EmptyStore
    <2>3. Timed(EmptyStore)
      BY DEF Timed, EmptyStore
    <2> QED
      BY <1>2, <2>1, <2>2, <2>3 DEF Reads
  <1> QED
    BY <1>1, <1>3, DecodedReads, ReadsUnique

\* No transactions, no writes.
LEMMA IndexNone ==
    ASSUME NEW d \in Stores(OperationStates), NEW b
    PROVE  IndexTransactions(d, b, {}, BlockTime(b)) = d
  <1>1. Eligible({}) = {} /\ SpentBy({}) = {} /\ OutpointsOf({}) = {}
    BY DEF Eligible, SpentBy, OutpointsOf
  <1>2. SaveTransactions(d, b, {}, BlockTime(b)) = d
    <2> DEFINE e == SaveTransactions(d, b, {}, BlockTime(b))
    <2>0. PICK i : i = {<<BlockTime(b)[t], Height[b]>> : t \in Eligible({})} /\ i = {}
      BY <1>1
    <2>1. /\ e = [d EXCEPT !.tx = e.tx, !.output = e.output, !.unspent = e.unspent,
                           !.heightIndex = e.heightIndex, !.hashIndex = e.hashIndex,
                           !.timeIndex = e.timeIndex, !.time = e.time]
          /\ e.tx = [t \in Txids |-> d.tx[t]] /\ e.output = [o \in Outpoints |-> d.output[o]]
          /\ e.unspent = d.unspent \cup {}
          /\ e.heightIndex = d.heightIndex \cup ({Height[b]} \X {})
          /\ e.hashIndex = d.hashIndex \cup ({b} \X {})
          /\ e.timeIndex = d.timeIndex \cup i /\ e.time = [t \in Txids |-> d.time[t]]
      BY <1>1, <2>0 DEF SaveTransactions, Stores
    <2> HIDE DEF e
    <2>2. /\ e.tx = d.tx /\ e.output = d.output /\ e.unspent = d.unspent
          /\ e.heightIndex = d.heightIndex /\ e.hashIndex = d.hashIndex
      BY <2>1 DEF Stores
    <2>4. e.timeIndex = d.timeIndex
      BY <2>0, <2>1
    <2>5. e.time = d.time
      <3>1. d.time = [t \in Txids |-> d.time[t]]
        BY DEF Stores
      <3> QED
        BY <2>1, <3>1
    <2>3. e = d
      <3>1. e = [d EXCEPT !.tx = d.tx, !.output = d.output, !.unspent = d.unspent,
                          !.heightIndex = d.heightIndex, !.hashIndex = d.hashIndex,
                          !.timeIndex = d.timeIndex, !.time = d.time]
        <4>1. e = [d EXCEPT !.tx = e.tx, !.output = e.output, !.unspent = e.unspent,
                            !.heightIndex = e.heightIndex, !.hashIndex = e.hashIndex,
                            !.timeIndex = e.timeIndex, !.time = e.time]
          BY <2>1
        <4> QED
          BY <2>2, <2>4, <2>5, <4>1, Zenon
      <3> QED
        BY <3>1 DEF Stores
    <2> QED
      BY <2>3 DEF e
  <1>3. MarkOutputsSpent(d, d, {}, {}) = d
    BY DEF MarkOutputsSpent, Stores
  <1> QED
    BY <1>1, <1>2, <1>3 DEF IndexTransactions

\* The steps of BlockStore, in the store that the pairs stand for.
StoreStep ==
    LET d == Decoded
        e == Decoded'
    IN  \/ e = d
        \/ e.opState # NoState /\ d.opState = NoState /\ e = SetState(d, e.opState, BaseBlock)
        \/ /\ e.opState # NoState
           /\ \E b \in Blocks :
                 /\ GetCurrentBlockState(d) \in Lineage[b]
                 /\ Height[b] = Height[GetCurrentBlockState(d)] + 1
                 /\ e = SetState(IndexTransactions(d, b, TxsOf(b), BlockTime(b)), e.opState, b)
        \/ /\ GetCurrentBlockState(d) \in Blocks \ {BaseBlock}
           /\ e = RemoveState(d, GetCurrentBlockState(d))

LEMMA StepReads ==
    ASSUME IndInv, IndInv', [Next]_vars
    PROVE  StoreStep
  <1>0. Pairs(kv) /\ BaseStateKept /\ StatesBounded /\ Reads(Decoded, kv) /\ InvRead
    BY TypeOKIs, DecodedReads, InvReads DEF IndInv, TypeShape
  <1>1. CASE kv' = kv
    <2>1. Reads(Decoded', kv')
      <3>1. Pairs(kv)' => Reads(Decoded, kv)'
        BY DecodedReads, PTL
      <3> QED
        BY <1>0, <1>1, <3>1, PairsUnchanged DEF Reads, Timed, ReadsTx, ReadsOutput, ReadsIndexes, ReadsStates
    <2> QED
      BY <1>0, <1>1, <2>1, ReadsUnique DEF StoreStep
  <1>2. CASE BlockCommitted
    <2> PICK b \in Blocks : /\ Follows(b)
                            /\ Decoded' = Indexed(Decoded, b, IF Has(encodeOpStateKey) THEN TxsOf(b) ELSE {})
      BY <1>2 DEF BlockCommitted
    <2> DEFINE txs == IF Has(encodeOpStateKey) THEN TxsOf(b) ELSE {}
               s   == [indexedBlockHeight |-> Height[b]]
               i   == IndexTransactions(Decoded, b, txs, BlockTime(b))
               top == GetCurrentBlockState(Decoded)
    <2>1. Decoded' = SetState(i, s, b)
      BY DEF Indexed
    <2>2. Decoded'.opState = s /\ s # NoState
      <3>1. i \in Stores(OperationStates)
        <4>1. txs \in SUBSET Txids /\ Decoded \in Stores(OperationStates)
          BY <1>0, TransactionTypes DEF Reads
        <4> QED
          BY <4>1, BlockTimeType, IndexTransactionsType
      <3> HIDE DEF i
      <3>2. SetState(i, s, b).opState = s
        BY <3>1 DEF SetState, Stores
      <3>3. s # NoState
        BY NoStateIsNone, HeightType
      <3> QED
        BY <2>1, <3>2, <3>3
    <2>3. CASE Has(encodeOpStateKey)
      <3>1. top \in Lineage[b] /\ Height[b] = Height[top] + 1
        BY <1>0, <2>3, CurrentIsTop DEF Follows
      <3>2. Decoded' = SetState(IndexTransactions(Decoded, b, TxsOf(b), BlockTime(b)), Decoded'.opState, b)
        BY <2>1, <2>2, <2>3
      <3> QED
        BY <2>2, <3>1, <3>2 DEF StoreStep
    <2>4. CASE ~Has(encodeOpStateKey)
      <3>1. b = BaseBlock /\ Decoded.opState = NoState
        BY <1>0, <2>4, FollowsHeight DEF InvRead
      <3>2. i = Decoded
        BY <1>0, <2>4, IndexNone DEF Reads
      <3> HIDE DEF i
      <3>3. Decoded' = SetState(Decoded, Decoded'.opState, BaseBlock)
        BY <2>1, <2>2, <3>1, <3>2
      <3> QED
        BY <2>2, <3>1, <3>3 DEF StoreStep
    <2> QED
      BY <2>3, <2>4
  <1>3. CASE BlockRemoved
    <2>1. Current \in Blocks /\ Current = GetCurrentBlockState(Decoded)
      BY <1>0, <1>3, CurrentIsTop DEF BlockRemoved
    <2> QED
      BY <1>3, <2>1 DEF BlockRemoved, StoreStep
  <1> QED
    BY <1>1, <1>2, <1>3, CommitEffect
    DEF Next, CreateBatch, IndexTransaction, MarkSpent, SaveStates, RemoveCurrentState, Discard, vars

\* A batch that is committed is a whole step of BlockStore, whatever was queued and
\* dropped before it; nothing else changes what the pairs stand for.
THEOREM Refinement == Spec => PairsImplementBlockStore
  <1>1. Init => Store!StoreInit
    BY EmptyReads, SameWrites DEF Store!StoreInit
  <1>2. IndInv /\ IndInv' /\ [Next]_vars => [Store!StoreNext(Decoded'.opState)]_Decoded
    <2> SUFFICES ASSUME IndInv, IndInv', [Next]_vars
                 PROVE  [Store!StoreNext(Decoded'.opState)]_Decoded
      OBVIOUS
    <2>1. StoreStep
      BY StepReads
    <2> QED
      BY <2>1, SameWrites, Zenon
      DEF StoreStep, Store!StoreNext, Store!SaveBaseState, Store!IndexBlock, Store!RollBack
  <1> QED
    BY <1>1, <1>2, Invariance, PTL DEF Spec, PairsImplementBlockStore, Store!StoreSpec

-----------------------------------------------------------------------------
(* The block after a timestamp *)

\* The scan of the time index finds the least entry after the timestamp.
LEMMA FirstAfter ==
    ASSUME Pairs(kv), NEW x \in Nat
    PROVE  LET later == {e \in Decoded.timeIndex : e[1] > x}
           IN  IF later = {} THEN getBlockHeightByTimestamp(x) = NoHeight
               ELSE \E e \in later : /\ getBlockHeightByTimestamp(x) = e[2]
                                     /\ \A f \in later : e[1] <= f[1]
  <1> DEFINE later == {e \in Decoded.timeIndex : e[1] > x}
             keys  == KeysIn(timeIndexSeek(x))
             key(e) == encodeTimeIndexKey(e[1], e[2])
  <1>0. Decoded.timeIndex \subseteq Nat \X Heights
    BY DecodedIndexes
  <1>1. \A e \in later : /\ e = <<e[1], e[2]>> /\ e[1] \in Nat /\ e[2] \in Nat /\ e[2] \in Heights
                         /\ x < e[1] /\ e \in Decoded.timeIndex
    BY <1>0, LedgerNumbers
  <1>2. \A t \in Nat, h \in Heights : encodeTimeIndexKey(t, h) \in DOMAIN kv <=> <<t, h>> \in Decoded.timeIndex
    BY DecodedIndexes DEF ReadsIndexes
  <1>3. \A k : k \in keys <=> \E e \in later : k = key(e)
    <2>1. ASSUME NEW k \in keys
          PROVE  \E e \in later : k = key(e)
      <3>1. k \in DOMAIN kv /\ InRange(timeIndexSeek(x), k) /\ IsKey(k)
        BY PairOfKey DEF KeysIn
      <3>2. PICK b \in Blocks : k = encodeTimeIndexKey(Time[b], Height[b]) /\ x < Time[b]
        BY <3>1, TimeRange
      <3>3. <<Time[b], Height[b]>> \in later
        BY <1>2, <3>1, <3>2, LedgerNumbers
      <3> QED
        BY <3>2, <3>3
    <2>2. ASSUME NEW e \in later
          PROVE  key(e) \in keys
      <3>1. key(e) \in DOMAIN kv
        BY <1>1, <1>2
      <3>2. IsKey(key(e)) /\ \E b \in Blocks : e[1] = Time[b] /\ e[2] = Height[b]
        BY <1>1, <3>1, PairOfKey DEF PairOfKind
      <3>3. InRange(timeIndexSeek(x), key(e))
        BY <1>1, <3>2, TimeRange
      <3> QED
        BY <3>1, <3>3 DEF KeysIn
    <2> QED
      BY <2>1, <2>2
  <1>4. \A e, f \in later : Before(key(e), key(f)) <=> e[1] < f[1] \/ (e[1] = f[1] /\ e[2] < f[2])
    BY <1>1, OrderOfKeys
  <1>5. \A e \in later : key(e)[2] = e[1] /\ key(e)[3] = e[2]
    BY <1>1, ShortKeys
  <1>6. CASE later = {}
    <2>1. keys = {}
      BY <1>3, <1>6
    <2> QED
      BY <1>6, <2>1 DEF getBlockHeightByTimestamp
  <1>7. CASE later # {}
    <2>1. PICK t \in {e[1] : e \in later} : \A s \in {e[1] : e \in later} : t <= s
      <3>1. {e[1] : e \in later} \in SUBSET Nat /\ {e[1] : e \in later} # {}
        BY <1>1, <1>7
      <3> QED
        BY <3>1, LeastElement
    <2>2. PICK h \in {e[2] : e \in {f \in later : f[1] = t}} : \A i \in {e[2] : e \in {f \in later : f[1] = t}} : h <= i
      <3>1. /\ {e[2] : e \in {f \in later : f[1] = t}} \in SUBSET Nat
            /\ {e[2] : e \in {f \in later : f[1] = t}} # {}
        BY <1>1, <2>1
      <3> QED
        BY <3>1, LeastElement
    <2>3. PICK first \in later : first[1] = t /\ first[2] = h
      BY <2>2
    <2>4. \A f \in later : f = first \/ Before(key(first), key(f))
      <3> TAKE f \in later
      <3>1. first[1] <= f[1] /\ (f[1] = first[1] => first[2] <= f[2])
        BY <2>1, <2>2, <2>3
      <3>2. f = <<f[1], f[2]>> /\ first = <<first[1], first[2]>> /\ f[1] \in Nat /\ f[2] \in Nat
            /\ first[1] \in Nat /\ first[2] \in Nat
        BY <1>1
      <3> QED
        BY <1>4, <3>1, <3>2
    <2> DEFINE least == FirstIn(timeIndexSeek(x))
    <2>5. least \in keys /\ \A l \in keys : l = least \/ Before(least, l)
      <3>1. key(first) \in keys /\ \A l \in keys : l = key(first) \/ Before(key(first), l)
        BY <1>3, <2>4
      <3> HIDE DEF key
      <3> QED
        BY <3>1 DEF FirstIn
    <2> HIDE DEF least
    <2>6. PICK e \in later : least = key(e)
      BY <1>3, <2>5
    <2>7. \A f \in later : e[1] <= f[1]
      <3> TAKE f \in later
      <3>1. key(f) = key(e) \/ Before(key(e), key(f))
        BY <1>3, <2>5, <2>6
      <3>2. e[1] \in Nat /\ f[1] \in Nat /\ (key(f) = key(e) => f[1] = e[1])
        BY <1>1, <1>5
      <3> QED
        BY <1>4, <3>1, <3>2
    <2>8. keys # {}
      BY <2>5
    <2>9. getBlockHeightByTimestamp(x) = decodeTimeIndexKey(least).blockHeight
      BY <2>8 DEF getBlockHeightByTimestamp, least
    <2>10. getBlockHeightByTimestamp(x) = e[2]
      BY <1>5, <2>6, <2>9 DEF decodeTimeIndexKey
    <2> QED
      BY <1>7, <2>7, <2>10
  <1> QED
    BY <1>6, <1>7

\* The invariant of BlockStore, of the store that the pairs stand for.
SP == INSTANCE BlockStore_proofs WITH db <- Decoded

\* The assumptions on the block tree, in the names of the instance.
LEMMA SameTree ==
    /\ \A b \in Blocks :
        /\ b \in Lineage[b]
        /\ BaseBlock \in Lineage[b]
        /\ \A h \in SP!BaseHeight..Height[b] : \E c \in Lineage[b] : Height[c] = h
        /\ \A c \in Lineage[b] : Height[c] \in SP!BaseHeight..Height[b]
        /\ \A c, d \in Lineage[b] : Height[c] = Height[d] => c = d
        /\ \A c \in Lineage[b] : Lineage[c] = {d \in Lineage[b] : Height[d] <= Height[c]}
    /\ \A b \in Blocks : \A c, d \in Lineage[b] :
        \A t \in SP!TxsOf(c), u \in SP!TxsOf(d) :
            /\ t = u => c = d
            /\ Spends[t] \cap Spends[u] # {} => t = u
            /\ (\E o \in Spends[u] : o[1] = t) => Height[c] <= Height[d]
  <1>1. BaseHeight = SP!BaseHeight
    BY DEF BaseHeight, SP!BaseHeight
  <1>2. \A b : TxsOf(b) = SP!TxsOf(b)
    BY DEF TxsOf, SP!TxsOf, Range, SP!Range
  <1> QED
    BY <1>1, <1>2, LineageIsChain, LineageIsValid

LEMMA SameStore ==
    /\ Store!StoreInit => SP!StoreInit
    /\ \A s : Store!StoreNext(s) => SP!StoreNext(s)
    /\ SP!StoreExact => Decoded.timeIndex = {<<Time[b], Height[b]>> :
                                                b \in {c \in Store!IndexedBlocks : Eligible(TxsOf(c)) # {}}}
  <1>1. Store!StoreInit => SP!StoreInit
    BY Zenon DEF Store!StoreInit, SP!StoreInit, Store!EmptyStore, SP!EmptyStore,
       Store!Outpoints, SP!Outpoints, Store!Heights, SP!Heights
  <1>2. \A s : Store!StoreNext(s) => SP!StoreNext(s)
    BY Zenon DEF Store!StoreNext, SP!StoreNext, Store!SaveBaseState, SP!SaveBaseState,
       Store!IndexBlock, SP!IndexBlock, Store!RollBack, SP!RollBack,
       Store!SetState, SP!SetState, Store!RemoveState, SP!RemoveState,
       Store!DeleteTransactionsByBlockHash, SP!DeleteTransactionsByBlockHash,
       Store!IndexTransactions, SP!IndexTransactions, Store!SaveTransactions, SP!SaveTransactions,
       Store!BlockTime, SP!BlockTime,
       Store!MarkOutputsSpent, SP!MarkOutputsSpent, Store!GetCurrentBlockState, SP!GetCurrentBlockState,
       Store!IndexedHeights, SP!IndexedHeights, Store!Max, SP!Max, Store!TxsOf, SP!TxsOf,
       Store!Range, SP!Range, Store!Eligible, SP!Eligible, Store!SpentBy, SP!SpentBy,
       Store!OutpointsOf, SP!OutpointsOf, Store!Outpoints, SP!Outpoints, Store!Heights, SP!Heights
  <1>3. SP!IndexedBlocks = Store!IndexedBlocks
    BY Zenon DEF SP!IndexedBlocks, Store!IndexedBlocks, SP!IndexedHeights, Store!IndexedHeights,
       SP!Heights, Store!Heights
  <1>4. \A b : SP!Eligible(SP!TxsOf(b)) = Eligible(TxsOf(b))
    BY Zenon DEF SP!Eligible, Eligible, SP!TxsOf, TxsOf, SP!Range, Range
  <1>5. SP!StoreExact => Decoded.timeIndex = {<<Time[b], Height[b]>> :
                            b \in {c \in SP!IndexedBlocks : SP!Eligible(SP!TxsOf(c)) # {}}}
    BY Zenon DEF SP!StoreExact
  <1>6. {c \in SP!IndexedBlocks : SP!Eligible(SP!TxsOf(c)) # {}} =
           {c \in Store!IndexedBlocks : Eligible(TxsOf(c)) # {}}
    BY <1>3, <1>4
  <1> QED
    BY <1>1, <1>2, <1>5, <1>6

LEMMA PairsExact == Spec => []SP!StoreInv
  <1>1. Store!StoreInit => SP!StoreInv
    BY SameTree, SameStore, LedgerTypes, BlockIsOrdered, SP!StoreInitInv, Zenon
  <1>2. SP!StoreInv /\ [Store!StoreNext(Decoded'.opState)]_Decoded => SP!StoreInv'
    <2> SUFFICES ASSUME SP!StoreInv, [Store!StoreNext(Decoded'.opState)]_Decoded
                 PROVE  SP!StoreInv'
      OBVIOUS
    <2>1. [SP!StoreNext(Decoded'.opState)]_Decoded
      BY SameStore, Zenon
    <2> QED
      BY <2>1, SameTree, LedgerTypes, BlockIsOrdered, SP!StoreStepExact, Zenon
  <1> QED
    BY <1>1, <1>2, Refinement, PTL DEF PairsImplementBlockStore, Store!StoreSpec

\* The answer to a timestamp is the height of the first indexed block after it,
\* whatever the order of the timestamps along the branch.
THEOREM FirstBlockFound == Spec => []FirstBlockAfter
  <1>1. IndInv /\ SP!StoreInv => FirstBlockAfter
    <2> SUFFICES ASSUME IndInv, SP!StoreInv, NEW x \in UInt32
                 PROVE  LET later == {b \in Store!IndexedBlocks : Eligible(TxsOf(b)) # {} /\ Time[b] > x}
                            h     == getBlockHeightByTimestamp(x)
                        IN  IF later = {} THEN h = NoHeight
                            ELSE \E b \in later : h = Height[b] /\ \A c \in later : Time[b] <= Time[c]
      BY DEF FirstBlockAfter
    <2> DEFINE later == {b \in Store!IndexedBlocks : Eligible(TxsOf(b)) # {} /\ Time[b] > x}
               after == {e \in Decoded.timeIndex : e[1] > x}
    <2>1. x \in Nat /\ Pairs(kv)
      BY DigestsAreUnique, TypeOKIs DEF UInt32, IndInv, TypeShape
    <2>2. SP!StoreExact
      BY Zenon DEF SP!StoreInv
    <2>3. Decoded.timeIndex = {<<Time[b], Height[b]>> :
                                 b \in {c \in Store!IndexedBlocks : Eligible(TxsOf(c)) # {}}}
      BY <2>2, SameStore
    <2>4. \A e : e \in after <=> \E b \in later : e = <<Time[b], Height[b]>>
      BY <2>3
    <2>5. IF after = {} THEN getBlockHeightByTimestamp(x) = NoHeight
          ELSE \E e \in after : /\ getBlockHeightByTimestamp(x) = e[2]
                                /\ \A f \in after : e[1] <= f[1]
      BY <2>1, FirstAfter
    <2> HIDE DEF later, after
    <2>6. CASE later = {}
      <3>1. after = {}
        BY <2>4, <2>6
      <3> QED
        BY <2>5, <2>6, <3>1 DEF later
    <2>7. CASE later # {}
      <3>1. after # {}
        BY <2>4, <2>7
      <3>2. PICK e \in after : getBlockHeightByTimestamp(x) = e[2] /\ \A f \in after : e[1] <= f[1]
        BY <2>5, <3>1
      <3>3. PICK b \in later : e = <<Time[b], Height[b]>>
        BY <2>4
      <3>4. \A c \in later : Time[b] <= Time[c]
        <4> TAKE c \in later
        <4>1. <<Time[c], Height[c]>> \in after
          BY <2>4
        <4>2. e[1] <= <<Time[c], Height[c]>>[1]
          BY <3>2, <4>1
        <4> QED
          BY <3>3, <4>2
      <3>5. getBlockHeightByTimestamp(x) = Height[b]
        BY <3>2, <3>3
      <3> QED
        BY <2>7, <3>4, <3>5 DEF later
    <2> QED
      BY <2>6, <2>7
  <1> QED
    BY <1>1, Invariance, PairsExact, PTL

=============================================================================
