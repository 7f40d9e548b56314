-------------------------- MODULE Eligibility_proofs --------------------------
(***************************************************************************)
(* A transaction is indexed exactly if it may be a silent payment, with    *)
(* the tweak its sender used: for every number and mixture of inputs and   *)
(* every order of the group.                                               *)
(***************************************************************************)
EXTENDS Eligibility, SequenceTheorems, WellFoundedInduction, TLAPS

-----------------------------------------------------------------------------
(* Loops as recursive functions *)

\* A set with 0 and the successor of each of its members has every number to n: a
\* number left out would have a least one.
LEMMA Upwards ==
    ASSUME NEW n \in Nat, NEW S, 0 \in S, \A k \in 0..(n - 1) : k \in S => k + 1 \in S
    PROVE  0..n \subseteq S
  <1> DEFINE T == (0..n) \ S
             R == {ss \in Nat \X Nat : ss[1] < ss[2]}
  <1> SUFFICES ASSUME T # {} PROVE FALSE
    OBVIOUS
  <1>1. IsWellFoundedOn(R, Nat)
    BY NatLessThanWellFounded DEF OpToRel
  <1>2. T \in SUBSET Nat
    OBVIOUS
  <1>3. PICK m \in T : \A k \in T : <<k, m>> \notin R
    <2> HIDE DEF R, T
    <2> QED
      BY <1>1, <1>2, WFMin
  <1>4. m # 0 /\ m - 1 \in 0..(n - 1) /\ <<m - 1, m>> \in R /\ m - 1 + 1 = m
    OBVIOUS
  <1>5. m - 1 \in S
    BY <1>3, <1>4
  <1> QED
    BY <1>3, <1>4, <1>5

\* What a loop over N items holds after each, if step says what an item does to it.
Loops(N, V, start, step) ==
    {f \in [0..N -> V] : f = [n \in 0..N |-> IF n = 0 THEN start ELSE step[n][f[n - 1]]]}

\* A loop over N items has one value after each.
LEMMA LoopExists ==
    ASSUME NEW N \in Nat, NEW V, NEW start \in V, NEW step \in [1..N -> [V -> V]]
    PROVE  Loops(N, V, start, step) # {}
  <1> DEFINE Upto(k) == {g \in [0..k -> V] :
                            \A n \in 0..k : g[n] = IF n = 0 THEN start ELSE step[n][g[n - 1]]}
             Reached == {k \in 0..N : Upto(k) # {}}
  <1>1. 0 \in Reached
    <2>1. [n \in 0..0 |-> start] \in Upto(0)
      OBVIOUS
    <2> HIDE DEF Upto
    <2> QED
      BY <2>1
  <1>2. ASSUME NEW k \in 0..(N - 1), k \in Reached PROVE k + 1 \in Reached
    <2>1. PICK g : g \in Upto(k)
      BY <1>2
    <2> DEFINE e == step[k + 1][g[k]]
               h == [n \in 0..(k + 1) |-> IF n = k + 1 THEN e ELSE g[n]]
    <2>2. e \in V
      <3>1. g[k] \in V /\ k + 1 \in 1..N
        BY <2>1
      <3> QED
        BY <3>1
    <2>3. h \in [0..(k + 1) -> V]
      <3>1. \A n \in 0..(k + 1) : n = k + 1 \/ n \in 0..k
        OBVIOUS
      <3> HIDE DEF e
      <3> QED
        BY <2>1, <2>2, <3>1
    <2>4. ASSUME NEW n \in 0..(k + 1)
          PROVE  h[n] = IF n = 0 THEN start ELSE step[n][h[n - 1]]
      <3>1. CASE n = k + 1
        <4>1. h[k] = g[k] /\ n # 0 /\ h[n] = e /\ n - 1 = k
          BY <3>1
        <4> QED
          BY <3>1, <4>1
      <3>2. CASE n # k + 1
        <4>1. n \in 0..k /\ h[n] = g[n]
          BY <3>2
        <4>2. n # 0 => h[n - 1] = g[n - 1]
          BY <3>2
        <4> HIDE DEF h
        <4> QED
          BY <2>1, <4>1, <4>2
      <3> QED
        BY <3>1, <3>2
    <2>5. h \in Upto(k + 1)
      <3> HIDE DEF h
      <3> QED
        BY <2>3, <2>4
    <2>6. k + 1 \in 0..N
      OBVIOUS
    <2> HIDE DEF Upto
    <2> QED
      BY <2>5, <2>6
  <1>3. N \in Reached
    <2> HIDE DEF Reached
    <2>1. 0..N \subseteq Reached
      BY <1>1, <1>2, Upwards
    <2> QED
      BY <2>1
  <1>4. PICK f : f \in Upto(N)
    BY <1>3
  <1> QED
    BY <1>4 DEF Loops

-----------------------------------------------------------------------------
(* Sums of keys *)

LEMMA OrderType == Order \in Nat /\ Order > 2 /\ Radix \in Nat /\ Radix > 1
  BY EligibilityAssumption

\* A quotient and a remainder.
LEMMA Division ==
    \A n \in Int, b \in Int : n > 0 => \E q \in Int, r \in 0..(n - 1) : n * q + r = b /\ b % n = r
  OBVIOUS

\* The remainders of a and b agree if they are a multiple of n apart.
LEMMA SameRemainder ==
    ASSUME NEW n \in Int, n > 0, NEW a \in Int, NEW b \in Int, NEW k \in Int, a = n * k + b
    PROVE  a % n = b % n
  <1>1. PICK p \in Int, r \in 0..(n - 1) : n * p + r = a /\ a % n = r
    BY Division
  <1>2. PICK q \in Int, s \in 0..(n - 1) : n * q + s = b /\ b % n = s
    BY Division
  <1>3. n * p + r = n * (k + q) + s /\ k + q \in Int
    <2>1. n * (k + q) = n * k + n * q
      OBVIOUS
    <2> QED
      BY <1>1, <1>2, <2>1
  <1>4. \A x \in Int, y \in Int, t \in 0..(n - 1), u \in 0..(n - 1) : n * x + t = n * y + u => t = u
    OBVIOUS
  <1> QED
    BY <1>1, <1>2, <1>3, <1>4

\* The remainder of a sum is that of the sum of the remainders.
LEMMA RemainderOfSum ==
    ASSUME NEW a \in Nat, NEW b \in Nat
    PROVE  ((a % Order) + b) % Order = (a + b) % Order
  <1>1. Order \in Int /\ Order > 0 /\ a \in Int
    BY OrderType
  <1>2. PICK k \in Int, r \in 0..(Order - 1) : Order * k + r = a /\ a % Order = r
    BY <1>1, Division, Zenon
  <1>3. a + b = Order * k + (r + b) /\ a + b \in Int /\ r + b \in Int
    BY <1>1, <1>2
  <1>4. (a + b) % Order = (r + b) % Order
    BY <1>1, <1>3, SameRemainder
  <1> QED
    BY <1>2, <1>4

\* The sum of points is the last of the partial sums.
LEMMA SumIsLoop ==
    ASSUME NEW points \in Seq(Nat)
    PROVE  \E f : /\ \A n \in 0..Len(points) : f[n] \in Nat
                  /\ \A n \in 0..Len(points) :
                        f[n] = IF n = 0 THEN 0 ELSE (f[n - 1] + points[n]) % Order
                  /\ SumOf(points) = f[Len(points)]
  <1> DEFINE N == Len(points)
             F(f) == [n \in 0..N |-> IF n = 0 THEN 0 ELSE (f[n - 1] + points[n]) % Order]
             step == [n \in 1..N |-> [v \in Nat |-> (v + points[n]) % Order]]
             sum == CHOOSE f : f = F(f)
  <1>1. N \in Nat /\ 0 \in Nat /\ \A n \in 1..N : points[n] \in Nat
    OBVIOUS
  <1>2. step \in [1..N -> [Nat -> Nat]]
    <2>1. \A n \in 1..N, v \in Nat : (v + points[n]) % Order \in Nat
      BY <1>1, OrderType
    <2> HIDE DEF N
    <2> QED
      BY <2>1, Zenon
  <1>3. \A n \in 1..N : \A v \in Nat : step[n][v] = (v + points[n]) % Order
    OBVIOUS
  <1> HIDE DEF N, step
  <1>4. PICK f \in [0..N -> Nat] : f = [n \in 0..N |-> IF n = 0 THEN 0 ELSE step[n][f[n - 1]]]
    <2>1. Loops(N, Nat, 0, step) # {}
      BY <1>1, <1>2, LoopExists
    <2> HIDE DEF F, sum
    <2> QED
      BY <2>1 DEF Loops
  <1>5. f = F(f)
    <2>1. \A n \in 0..N : (IF n = 0 THEN 0 ELSE step[n][f[n - 1]])
                            = IF n = 0 THEN 0 ELSE (f[n - 1] + points[n]) % Order
      <3> SUFFICES ASSUME NEW n \in 0..N, n # 0
                   PROVE  step[n][f[n - 1]] = (f[n - 1] + points[n]) % Order
        OBVIOUS
      <3>1. n \in 1..N /\ f[n - 1] \in Nat
        BY <1>1
      <3> QED
        BY <1>3, <3>1
    <2> QED
      BY <1>4, <2>1, Zenon
  <1>6. sum = F(sum)
    <2> HIDE DEF F
    <2> QED
      BY <1>5
  <1>7. \A n \in 0..N : sum[n] = IF n = 0 THEN 0 ELSE (sum[n - 1] + points[n]) % Order
    <2> HIDE DEF sum
    <2> QED
      BY <1>6
  <1>8. \A n \in 0..N : sum[n] \in Nat
    <2> HIDE DEF sum
    <2> DEFINE Typed == {n \in 0..N : sum[n] \in Nat}
    <2>1. 0 \in Typed
      BY <1>1, <1>7
    <2>2. ASSUME NEW k \in 0..(N - 1), k \in Typed PROVE k + 1 \in Typed
      <3>1. k + 1 \in 1..N /\ k + 1 \in 0..N /\ k + 1 # 0 /\ k + 1 - 1 = k /\ sum[k] \in Nat
        BY <1>1, <2>2
      <3>2. sum[k + 1] = (sum[k] + points[k + 1]) % Order
        BY <1>7, <3>1
      <3> QED
        BY <1>1, <3>1, <3>2, OrderType
    <2>3. 0..N \subseteq Typed
      <3> HIDE DEF Typed
      <3> QED
        BY <1>1, <2>1, <2>2, Upwards
    <2> QED
      BY <2>3
  <1>9. SumOf(points) = sum[N]
    BY DEF SumOf, N
  <1> QED
    BY <1>7, <1>8, <1>9, Zenon DEF N

\* Nothing adds up to the point at infinity.
LEMMA SumOfNone == SumOf(<< >>) = 0
  <1>1. << >> \in Seq(Nat) /\ Len(<< >>) = 0
    OBVIOUS
  <1>2. PICK f : /\ \A n \in 0..0 : f[n] = IF n = 0 THEN 0 ELSE (f[n - 1] + << >>[n]) % Order
                 /\ SumOf(<< >>) = f[0]
    BY <1>1, SumIsLoop
  <1> QED
    BY <1>2

\* One more point is added to the sum of those before it.
LEMMA SumOfAppend ==
    ASSUME NEW points \in Seq(Nat), NEW x \in Nat
    PROVE  /\ SumOf(points) \in Nat
           /\ SumOf(Append(points, x)) = (SumOf(points) + x) % Order
  <1> DEFINE N == Len(points)
             longer == Append(points, x)
  <1>1. /\ N \in Nat /\ longer \in Seq(Nat) /\ Len(longer) = N + 1
        /\ longer[N + 1] = x /\ \A n \in 1..N : longer[n] = points[n]
    OBVIOUS
  <1>2. PICK f : /\ \A n \in 0..N : f[n] \in Nat
                 /\ \A n \in 0..N : f[n] = IF n = 0 THEN 0 ELSE (f[n - 1] + points[n]) % Order
                 /\ SumOf(points) = f[N]
    BY SumIsLoop
  <1> HIDE DEF N, longer
  <1>3. PICK g : /\ \A n \in 0..(N + 1) : g[n] \in Nat
                 /\ \A n \in 0..(N + 1) : g[n] = IF n = 0 THEN 0 ELSE (g[n - 1] + longer[n]) % Order
                 /\ SumOf(longer) = g[N + 1]
    BY <1>1, SumIsLoop
  <1> DEFINE Agree == {n \in 0..N : g[n] = f[n]}
  <1>4. 0 \in Agree
    BY <1>1, <1>2, <1>3
  <1>5. ASSUME NEW k \in 0..(N - 1), k \in Agree PROVE k + 1 \in Agree
    <2>1. /\ k + 1 \in 1..N /\ k + 1 \in 0..N /\ k + 1 \in 0..(N + 1) /\ k + 1 # 0
          /\ k + 1 - 1 = k /\ g[k] = f[k]
      BY <1>1, <1>5
    <2>2. f[k + 1] = (f[k] + points[k + 1]) % Order
      BY <1>2, <2>1
    <2>3. g[k + 1] = (g[k] + longer[k + 1]) % Order
      BY <1>3, <2>1
    <2> QED
      BY <1>1, <2>1, <2>2, <2>3
  <1>6. 0..N \subseteq Agree
    <2> HIDE DEF Agree
    <2> QED
      BY <1>1, <1>4, <1>5, Upwards
  <1>7. g[N] = f[N] /\ N \in 0..N
    BY <1>1, <1>6
  <1>8. g[N + 1] = (g[N] + x) % Order
    BY <1>1, <1>3
  <1> QED
    BY <1>2, <1>3, <1>7, <1>8 DEF longer

-----------------------------------------------------------------------------
(* What a sender's inputs reveal *)

\* A contributing input has a secret key that is not zero.
LEMMA SecretType ==
    ASSUME NEW s \in Spends, Contributes(s)
    PROVE  SecretOf(s) \in 1..(Order - 1)
  <1>1. s.secret \in 1..(Order - 1)
    BY SpendsAssumption DEF Contributes
  <1>2. Negated(s.secret) \in 1..(Order - 1)
    BY <1>1, OrderType DEF Negated
  <1> QED
    BY <1>1, <1>2 DEF SecretOf

\* The partial sums: one more secret key after each input.
LEMMA SecretSumsAre ==
    ASSUME spends \in Seq(Spends)
    PROVE  /\ SecretSums[0] = 0
           /\ \A n \in 0..Len(spends) : SecretSums[n] \in Nat
           /\ \A n \in 1..Len(spends) :
                 SecretSums[n] = SecretSums[n - 1]
                    + IF Contributes(spends[n]) THEN SecretOf(spends[n]) ELSE 0
  <1> DEFINE N == Len(spends)
             share(n) == IF Contributes(spends[n]) THEN SecretOf(spends[n]) ELSE 0
             F(f) == [n \in 0..N |-> IF n = 0 THEN 0 ELSE f[n - 1] + share(n)]
             step == [n \in 1..N |-> [v \in Nat |-> v + share(n)]]
             sum == CHOOSE f : f = F(f)
  <1>1. N \in Nat /\ 0 \in Nat
    OBVIOUS
  <1>2. \A n \in 1..N : share(n) \in Nat
    <2> SUFFICES ASSUME NEW n \in 1..N, Contributes(spends[n]) PROVE SecretOf(spends[n]) \in Nat
      OBVIOUS
    <2>1. spends[n] \in Spends
      OBVIOUS
    <2> QED
      BY <2>1, SecretType, OrderType
  <1> HIDE DEF N, share
  <1>3. step \in [1..N -> [Nat -> Nat]]
    <2>1. \A n \in 1..N, v \in Nat : v + share(n) \in Nat
      BY <1>2
    <2> QED
      BY <2>1, Zenon
  <1>4. \A n \in 1..N : \A v \in Nat : step[n][v] = v + share(n)
    OBVIOUS
  <1> HIDE DEF step
  <1>5. PICK f \in [0..N -> Nat] : f = [n \in 0..N |-> IF n = 0 THEN 0 ELSE step[n][f[n - 1]]]
    <2>1. Loops(N, Nat, 0, step) # {}
      BY <1>1, <1>3, LoopExists
    <2> HIDE DEF F, sum
    <2> QED
      BY <2>1 DEF Loops
  <1>6. f = F(f)
    <2>1. \A n \in 0..N : (IF n = 0 THEN 0 ELSE step[n][f[n - 1]])
                            = IF n = 0 THEN 0 ELSE f[n - 1] + share(n)
      <3> SUFFICES ASSUME NEW n \in 0..N, n # 0
                   PROVE  step[n][f[n - 1]] = f[n - 1] + share(n)
        OBVIOUS
      <3>1. n \in 1..N /\ f[n - 1] \in Nat
        BY <1>1
      <3> QED
        BY <1>4, <3>1
    <2> QED
      BY <1>5, <2>1, Zenon
  <1>7. sum = F(sum)
    <2> HIDE DEF F
    <2> QED
      BY <1>6
  <1>8. \A n \in 0..N : sum[n] = IF n = 0 THEN 0 ELSE sum[n - 1] + share(n)
    <2> HIDE DEF sum
    <2> QED
      BY <1>7
  <1>9. SecretSums = sum
    BY DEF SecretSums, N, share
  <1> HIDE DEF sum
  <1> DEFINE Typed == {n \in 0..N : sum[n] \in Nat}
  <1>10. 0 \in Typed
    BY <1>1, <1>8
  <1>11. ASSUME NEW k \in 0..(N - 1), k \in Typed PROVE k + 1 \in Typed
    <2>1. k + 1 \in 1..N /\ k + 1 \in 0..N /\ k + 1 # 0 /\ k + 1 - 1 = k /\ sum[k] \in Nat
      BY <1>1, <1>11
    <2>2. sum[k + 1] = sum[k] + share(k + 1)
      BY <1>8, <2>1
    <2> QED
      BY <1>2, <2>1, <2>2
  <1>12. 0..N \subseteq Typed
    <2> HIDE DEF Typed
    <2> QED
      BY <1>1, <1>10, <1>11, Upwards
  <1>13. \A n \in 0..N : sum[n] \in Nat
    BY <1>12
  <1>14. sum[0] = 0 /\ \A n \in 1..N : sum[n] = sum[n - 1] + share(n)
    BY <1>1, <1>8
  <1> QED
    BY <1>9, <1>13, <1>14, Zenon DEF N, share

\* An input consumes its outpoint.
LEMMA OutpointOf == ASSUME NEW s \in Spends, NEW o PROVE InputOf(s, o).outpoint = o
  BY SpendsAssumption DEF InputOf

\* The first opcode of the script is one of OP_2 to OP_16 only if the script is of an
\* unknown SegWit version or a multisig of two signatures or more.
LEMMA OpcodeOf ==
    ASSUME NEW s \in Spends, NEW o
    PROVE  InputOf(s, o).prevOutScript.opcode \in 82..96
               <=> s.type = "segwit" \/ (s.type = "bare" /\ s.opcode > 81)
  BY SpendsAssumption DEF InputOf, Script, P2wpkh, OP_0, OP_1

\* A P2PKH input reveals a compressed key, whatever else was pushed.
LEMMA KeyOfP2pkhInput ==
    ASSUME NEW s \in Spends, NEW o, s.type = "p2pkh"
    PROVE  ExtractPubKey(InputOf(s, o)) = IF s.size = 33 THEN s.secret ELSE NoKey
  <1> DEFINE input == InputOf(s, o)
             key == PubKey(s.secret, s.size)
  <1>1. /\ input.prevOutScript = Script("p2pkh", 118, key)
        /\ input.scriptSig = IF s.malleated THEN <<Signature, KeyItem(key), Signature>>
                             ELSE <<Signature, KeyItem(key)>>
    BY DEF InputOf
  <1>2. ExtractPubKey(input) = KeyOfP2pkh(input)
    BY <1>1 DEF ExtractPubKey, Script
  <1> DEFINE found == {j \in DOMAIN input.scriptSig :
                         /\ Compressed(input.scriptSig[j])
                         /\ input.scriptSig[j].of = input.prevOutScript.of}
  <1>3. /\ input.scriptSig[2] = KeyItem(key) /\ 2 \in DOMAIN input.scriptSig
        /\ \A j \in DOMAIN input.scriptSig : j # 2 => input.scriptSig[j] = Signature
    BY <1>1
  <1>4. \A j \in DOMAIN input.scriptSig : Compressed(input.scriptSig[j]) <=> j = 2 /\ s.size = 33
    BY <1>3 DEF Compressed, Signature, KeyItem, Item, PubKey
  <1>5. input.scriptSig[2].of = key /\ input.prevOutScript.of = key /\ key.point = s.secret
    BY <1>1, <1>3 DEF KeyItem, Item, Script, PubKey
  <1> HIDE DEF input, key
  <1>6. found = IF s.size = 33 THEN {2} ELSE {}
    BY <1>3, <1>4, <1>5
  <1>7. Max({2}) = 2
    BY DEF Max
  <1>8. KeyOfP2pkh(input) = IF found = {} THEN NoKey ELSE input.scriptSig[Max(found)].of.point
    BY DEF KeyOfP2pkh
  <1> QED
    BY <1>2, <1>5, <1>6, <1>7, <1>8 DEF input

\* So does a P2WPKH input, bare or in P2SH.
LEMMA KeyOfP2wpkhInput ==
    ASSUME NEW s \in Spends, NEW o, s.type = "p2wpkh" \/ s.type = "p2sh-p2wpkh"
    PROVE  ExtractPubKey(InputOf(s, o)) = IF s.size = 33 THEN s.secret ELSE NoKey
  <1> DEFINE input == InputOf(s, o)
             key == PubKey(s.secret, s.size)
  <1>1. KeyInWitness(<<Signature, KeyItem(key)>>) = IF s.size = 33 THEN s.secret ELSE NoKey
    BY DEF KeyInWitness, Compressed, KeyItem, Item, PubKey
  <1>2. input.witness = <<Signature, KeyItem(key)>>
    BY DEF InputOf
  <1>3. CASE s.type = "p2wpkh"
    <2>1. input.prevOutScript.form = "p2wpkh"
      BY <1>3 DEF InputOf, P2wpkh, Script
    <2> QED
      BY <1>1, <1>2, <2>1 DEF ExtractPubKey
  <1>4. CASE s.type = "p2sh-p2wpkh"
    <2>1. input.prevOutScript.form = "p2sh" /\ input.scriptSig = <<Item("script", P2wpkh(key))>>
      BY <1>4 DEF InputOf, Script
    <2>2. KeyOfP2sh(input) = KeyInWitness(input.witness)
      BY <2>1 DEF KeyOfP2sh, Item, P2wpkh, Script
    <2> QED
      BY <1>1, <1>2, <2>1, <2>2 DEF ExtractPubKey
  <1> QED
    BY <1>3, <1>4

\* The last item of a stack, and those before it.
LEMMA FrontOfConcat ==
    ASSUME NEW S, NEW w \in Seq(S), NEW x \in S
    PROVE  Len(w \o <<x>>) = Len(w) + 1 /\ Last(w \o <<x>>) = x /\ Front(w \o <<x>>) = w
  <1>1. /\ w \o <<x>> \in Seq(S) /\ Len(w) \in Nat /\ Len(w \o <<x>>) = Len(w) + 1
        /\ (w \o <<x>>)[Len(w) + 1] = x /\ \A n \in 1..Len(w) : (w \o <<x>>)[n] = w[n]
    OBVIOUS
  <1> DEFINE longer == w \o <<x>>
             front == SubSeq(longer, 1, Len(longer) - 1)
  <1> HIDE DEF longer
  <1>2. front \in Seq(S) /\ Len(front) = Len(w) /\ \A n \in 1..Len(w) : front[n] = longer[n]
    BY <1>1 DEF longer
  <1>3. front = w
    <2>1. \A n \in 1..Len(w) : front[n] = w[n]
      BY <1>1, <1>2 DEF longer
    <2> HIDE DEF front
    <2> QED
      BY <1>2, <2>1
  <1> QED
    BY <1>1, <1>3 DEF Last, Front, longer

\* An annex is taken off, a stack without one stays.
LEMMA AnnexTakenOff ==
    ASSUME NEW S, NEW w \in Seq(S), Len(w) > 0, Annex \in S, Last(w).kind # "annex"
    PROVE  WithoutAnnex(w \o << >>) = w /\ WithoutAnnex(w \o <<Annex>>) = w
  <1>1. w \o << >> = w
    BY ConcatEmptySeq
  <1>2. Len(w \o <<Annex>>) = Len(w) + 1 /\ Last(w \o <<Annex>>) = Annex /\ Front(w \o <<Annex>>) = w
    BY FrontOfConcat
  <1>3. Annex.kind = "annex"
    BY DEF Annex, Item
  <1>4. Len(w) + 1 > 1
    OBVIOUS
  <1>5. WithoutAnnex(w) = w
    BY Zenon DEF WithoutAnnex
  <1>6. \A longer : Len(longer) > 1 /\ Last(longer).kind = "annex" => WithoutAnnex(longer) = Front(longer)
    BY Zenon DEF WithoutAnnex
  <1> QED
    BY <1>1, <1>2, <1>3, <1>4, <1>5, <1>6, Zenon

\* A stack of one item.
LEMMA StackOfOne == ASSUME NEW a, NEW c
                    PROVE  <<a>> \in Seq({a, c}) /\ Len(<<a>>) = 1 /\ Last(<<a>>) = a
  BY DEF Last

\* A stack of two items.
LEMMA StackOfTwo == ASSUME NEW a, NEW b, NEW c
                    PROVE  <<a, b>> \in Seq({a, b, c}) /\ Len(<<a, b>>) = 2 /\ Last(<<a, b>>) = b
  BY DEF Last

\* The key of a taproot input whose witness is w, with or without an annex.
LEMMA KeyOfP2trWitness ==
    ASSUME NEW S, NEW w \in Seq(S), Len(w) > 0, Annex \in S, Last(w).kind # "annex",
           NEW input, NEW x, input.prevOutScript = Script("p2tr", OP_1, x),
           input.witness = w \o << >> \/ input.witness = w \o <<Annex>>
    PROVE  ExtractPubKey(input) =
              IF Len(w) > 1 /\ Last(w) = Item("control", "NUMS_H") THEN NoKey ELSE x
  <1>1. WithoutAnnex(input.witness) = w
    BY AnnexTakenOff, Zenon
  <1>2. input.prevOutScript.form = "p2tr" /\ input.prevOutScript.of = x
    BY DEF Script
  <1>3. ExtractPubKey(input) = KeyOfP2tr(input)
    BY <1>2 DEF ExtractPubKey
  <1>4. w # << >>
    OBVIOUS
  <1> QED
    BY <1>1, <1>2, <1>3, <1>4, Zenon DEF KeyOfP2tr, EvenPoint

\* An input spent by key reveals the output's key, as the point of even y.
LEMMA KeyOfKeyPath ==
    ASSUME NEW s \in Spends, NEW o, s.type = "p2tr-key"
    PROVE  ExtractPubKey(InputOf(s, o)) = XOf(s.secret)
  <1> DEFINE input == InputOf(s, o)
             w == <<Signature>>
             S == {Signature, Annex}
  <1>1. input.prevOutScript = Script("p2tr", OP_1, XOf(s.secret))
    BY DEF InputOf
  <1>2. input.witness = w \o (IF s.annex THEN <<Annex>> ELSE << >>)
    BY DEF InputOf
  <1>3. w \in Seq(S) /\ Len(w) = 1 /\ Last(w) = Signature
    BY StackOfOne, Zenon
  <1>4. Signature.kind # "annex"
    BY DEF Signature, Item
  <1> HIDE DEF input, w
  <1>5. Annex \in S /\ Last(w).kind # "annex" /\ Len(w) > 0 /\ ~(Len(w) > 1)
    BY <1>3, <1>4
  <1>6. input.witness = w \o << >> \/ input.witness = w \o <<Annex>>
    BY <1>2, Zenon
  <1> HIDE DEF S
  <1>7. ExtractPubKey(input) =
            IF Len(w) > 1 /\ Last(w) = Item("control", "NUMS_H") THEN NoKey ELSE XOf(s.secret)
    BY <1>1, <1>3, <1>5, <1>6, KeyOfP2trWitness, Zenon
  <1> QED
    BY <1>5, <1>7, Zenon DEF input

\* An input spent by a script reveals it too, unless nobody can sign for its internal key.
LEMMA KeyOfScriptPath ==
    ASSUME NEW s \in Spends, NEW o, s.type = "p2tr-script"
    PROVE  ExtractPubKey(InputOf(s, o)) = IF s.internal = "NUMS_H" THEN NoKey ELSE XOf(s.secret)
  <1> DEFINE input == InputOf(s, o)
             script == Item("script", Nothing)
             control == Item("control", s.internal)
             w == <<script, control>>
             S == {script, control, Annex}
  <1>1. input.prevOutScript = Script("p2tr", OP_1, XOf(s.secret))
    BY DEF InputOf
  <1>2. input.witness = w \o (IF s.annex THEN <<Annex>> ELSE << >>)
    BY DEF InputOf
  <1>3. control.kind # "annex" /\ (control = Item("control", "NUMS_H") <=> s.internal = "NUMS_H")
    BY DEF Item
  <1> HIDE DEF input, script, control
  <1>4. w \in Seq(S) /\ Len(w) = 2 /\ Last(w) = control
    BY StackOfTwo, Zenon
  <1> HIDE DEF w
  <1>5. Annex \in S /\ Last(w).kind # "annex" /\ Len(w) > 0 /\ Len(w) > 1
    BY <1>3, <1>4
  <1>6. input.witness = w \o << >> \/ input.witness = w \o <<Annex>>
    BY <1>2, Zenon
  <1> HIDE DEF S
  <1>7. ExtractPubKey(input) =
            IF Len(w) > 1 /\ Last(w) = Item("control", "NUMS_H") THEN NoKey ELSE XOf(s.secret)
    BY <1>1, <1>4, <1>5, <1>6, KeyOfP2trWitness, Zenon
  <1> QED
    BY <1>3, <1>4, <1>5, <1>7, Zenon DEF input

\* The key found in an input is the secret key its sender counts in, if any.
LEMMA KeyFound ==
    ASSUME NEW s \in Spends, NEW o
    PROVE  ExtractPubKey(InputOf(s, o)) = IF Contributes(s) THEN SecretOf(s) ELSE NoKey
  <1>1. CASE s.type = "p2pkh"
    BY <1>1, KeyOfP2pkhInput DEF Contributes, SecretOf
  <1>2. CASE s.type = "p2wpkh" \/ s.type = "p2sh-p2wpkh"
    BY <1>2, KeyOfP2wpkhInput DEF Contributes, SecretOf
  <1>3. CASE s.type = "p2tr-key"
    BY <1>3, KeyOfKeyPath DEF Contributes, SecretOf, XOf
  <1>6. CASE s.type = "p2tr-script"
    BY <1>6, KeyOfScriptPath DEF Contributes, SecretOf, XOf
  <1>4. CASE s.type = "bare" \/ s.type = "segwit"
    BY <1>4 DEF ExtractPubKey, InputOf, Script, Contributes
  <1>5. CASE s.type = "p2sh"
    <2>1. InputOf(s, o).prevOutScript.form = "p2sh" /\ Len(InputOf(s, o).scriptSig) = 3
      BY <1>5 DEF InputOf, Script
    <2> QED
      BY <1>5, <2>1 DEF ExtractPubKey, KeyOfP2sh, Contributes
  <1> QED
    BY <1>1, <1>2, <1>3, <1>4, <1>5, <1>6, SpendsAssumption

-----------------------------------------------------------------------------
(* The least outpoint *)

Triples == Nat \X Nat \X Nat

\* A serialized outpoint is three numbers.
LEMMA SerializedType == ASSUME NEW o \in Outpoints PROVE Serialized(o) \in Triples
  <1>1. o[1] \in Nat /\ o[2] \in Nat
    BY OutpointsAssumption
  <1>2. o[2] % Radix \in Nat /\ o[2] \div Radix \in Nat
    BY <1>1, OrderType
  <1> QED
    BY <1>1, <1>2 DEF Serialized, Triples

\* The order of the bytes, one by one.
LEMMA BytesBeforeIs ==
    ASSUME NEW a \in Triples, NEW b \in Triples
    PROVE  BytesBefore(a, b) <=> \/ a[1] < b[1]
                                 \/ a[1] = b[1] /\ a[2] < b[2]
                                 \/ a[1] = b[1] /\ a[2] = b[2] /\ a[3] < b[3]
  <1>1. DOMAIN a = {1, 2, 3}
    BY DEF Triples
  <1>2. /\ 1..(1 - 1) = {}
        /\ 1..(2 - 1) = {1}
        /\ 1..(3 - 1) = {1, 2}
    OBVIOUS
  <1> QED
    BY <1>1, <1>2 DEF BytesBefore

\* It is a strict order of the serialized outpoints, and any two are in it.
LEMMA BytesOrdered ==
    ASSUME NEW a \in Triples, NEW b \in Triples
    PROVE  /\ a = b \/ BytesBefore(a, b) \/ BytesBefore(b, a)
           /\ ~(BytesBefore(a, b) /\ BytesBefore(b, a))
           /\ \A c \in Triples : BytesBefore(a, b) /\ BytesBefore(b, c) => BytesBefore(a, c)
  <1>1. /\ a[1] \in Nat /\ a[2] \in Nat /\ a[3] \in Nat
        /\ b[1] \in Nat /\ b[2] \in Nat /\ b[3] \in Nat
        /\ a[1] = b[1] /\ a[2] = b[2] /\ a[3] = b[3] => a = b
    BY DEF Triples
  <1>2. a = b \/ BytesBefore(a, b) \/ BytesBefore(b, a)
    BY <1>1, BytesBeforeIs
  <1>3. ~(BytesBefore(a, b) /\ BytesBefore(b, a))
    BY <1>1, BytesBeforeIs
  <1>4. ASSUME NEW c \in Triples, BytesBefore(a, b), BytesBefore(b, c) PROVE BytesBefore(a, c)
    <2>1. c[1] \in Nat /\ c[2] \in Nat /\ c[3] \in Nat
      BY DEF Triples
    <2>2. \/ a[1] < b[1]
          \/ a[1] = b[1] /\ a[2] < b[2]
          \/ a[1] = b[1] /\ a[2] = b[2] /\ a[3] < b[3]
      BY <1>4, BytesBeforeIs
    <2>3. \/ b[1] < c[1]
          \/ b[1] = c[1] /\ b[2] < c[2]
          \/ b[1] = c[1] /\ b[2] = c[2] /\ b[3] < c[3]
      BY <1>4, BytesBeforeIs
    <2>4. \/ a[1] < c[1]
          \/ a[1] = c[1] /\ a[2] < c[2]
          \/ a[1] = c[1] /\ a[2] = c[2] /\ a[3] < c[3]
      BY <1>1, <2>1, <2>2, <2>3
    <2> QED
      BY <2>4, BytesBeforeIs
  <1> QED
    BY <1>2, <1>3, <1>4

\* The one kept by the loop is one of the outpoints and none comes before it.
LEMMA SmallestIsLeast ==
    ASSUME NEW N \in Nat \ {0}, NEW inputs, Len(inputs) = N,
           \A n \in 1..N : Serialized(inputs[n].outpoint) \in Triples
    PROVE  /\ \E n \in 1..N : SmallestOutpoint(inputs) = Serialized(inputs[n].outpoint)
           /\ \A n \in 1..N : \/ Serialized(inputs[n].outpoint) = SmallestOutpoint(inputs)
                              \/ BytesBefore(SmallestOutpoint(inputs), Serialized(inputs[n].outpoint))
  <1> DEFINE outpoint(n) == Serialized(inputs[n].outpoint)
             F(f) == [n \in 0..N |->
                        IF n = 0 THEN outpoint(1)
                        ELSE IF BytesBefore(outpoint(n), f[n - 1]) THEN outpoint(n) ELSE f[n - 1]]
             step == [n \in 1..N |->
                        [v \in Triples |-> IF BytesBefore(outpoint(n), v) THEN outpoint(n) ELSE v]]
             smallest == CHOOSE f : f = F(f)
  <1>1. SmallestOutpoint(inputs) = smallest[N]
    BY DEF SmallestOutpoint
  <1>2. N \in Nat /\ 1 \in 1..N /\ \A n \in 1..N : outpoint(n) \in Triples
    OBVIOUS
  <1> SUFFICES /\ \E n \in 1..N : smallest[N] = outpoint(n)
               /\ \A n \in 1..N : outpoint(n) = smallest[N] \/ BytesBefore(smallest[N], outpoint(n))
    BY <1>1, Zenon
  <1> HIDE DEF outpoint
  <1>3. step \in [1..N -> [Triples -> Triples]]
    <2>1. \A n \in 1..N, v \in Triples :
             (IF BytesBefore(outpoint(n), v) THEN outpoint(n) ELSE v) \in Triples
      BY <1>2, Zenon
    <2> QED
      BY <2>1, Zenon
  <1>4. \A n \in 1..N : \A v \in Triples :
           step[n][v] = IF BytesBefore(outpoint(n), v) THEN outpoint(n) ELSE v
    BY Zenon
  <1> HIDE DEF step
  <1>5. PICK f \in [0..N -> Triples] :
               f = [n \in 0..N |-> IF n = 0 THEN outpoint(1) ELSE step[n][f[n - 1]]]
    <2>1. Loops(N, Triples, outpoint(1), step) # {}
      BY <1>2, <1>3, LoopExists, Zenon
    <2> HIDE DEF F, smallest
    <2> QED
      BY <2>1 DEF Loops
  <1>6. f = F(f)
    <2>1. \A n \in 0..N : (IF n = 0 THEN outpoint(1) ELSE step[n][f[n - 1]])
             = IF n = 0 THEN outpoint(1)
               ELSE IF BytesBefore(outpoint(n), f[n - 1]) THEN outpoint(n) ELSE f[n - 1]
      <3> SUFFICES ASSUME NEW n \in 0..N, n # 0
                   PROVE  step[n][f[n - 1]] = IF BytesBefore(outpoint(n), f[n - 1])
                                              THEN outpoint(n) ELSE f[n - 1]
        BY Zenon
      <3>1. n \in 1..N /\ n - 1 \in 0..N
        BY <1>2
      <3>2. f[n - 1] \in Triples
        BY <3>1, Zenon
      <3> QED
        BY <1>4, <3>1, <3>2, Zenon
    <2> QED
      BY <1>5, <2>1, Zenon
  <1>7. smallest = F(smallest)
    <2> HIDE DEF F
    <2> QED
      BY <1>6
  <1>8. \A n \in 0..N : smallest[n] = IF n = 0 THEN outpoint(1)
           ELSE IF BytesBefore(outpoint(n), smallest[n - 1]) THEN outpoint(n) ELSE smallest[n - 1]
    <2> HIDE DEF smallest
    <2> QED
      BY <1>7, Zenon
  <1> HIDE DEF smallest
  <1> DEFINE Kept(n) == /\ smallest[n] \in Triples
                        /\ \E m \in 1..N : smallest[n] = outpoint(m)
                        /\ \A m \in 1..n : \/ outpoint(m) = smallest[n]
                                           \/ BytesBefore(smallest[n], outpoint(m))
             Minimal == {n \in 0..N : Kept(n)}
  <1>9. 0 \in Minimal
    <2>1. smallest[0] = outpoint(1) /\ 0 \in 0..N /\ 1..0 = {}
      BY <1>2, <1>8
    <2> QED
      BY <1>2, <2>1, Zenon
  <1>10. ASSUME NEW k \in 0..(N - 1), k \in Minimal PROVE k + 1 \in Minimal
    <2>1. /\ k + 1 \in 1..N /\ k + 1 \in 0..N /\ k + 1 # 0 /\ k + 1 - 1 = k
          /\ \A m \in 1..(k + 1) : m \in 1..k \/ m = k + 1
      BY <1>2
    <2>2. Kept(k) /\ outpoint(k + 1) \in Triples
      BY <1>2, <1>10, <2>1, Zenon
    <2>3. smallest[k + 1] = IF BytesBefore(outpoint(k + 1), smallest[k])
                            THEN outpoint(k + 1) ELSE smallest[k]
      BY <1>8, <2>1
    <2>4. CASE BytesBefore(outpoint(k + 1), smallest[k])
      <3>1. smallest[k + 1] = outpoint(k + 1)
        BY <2>3, <2>4, Zenon
      <3>2. ASSUME NEW m \in 1..k PROVE BytesBefore(smallest[k + 1], outpoint(m))
        <4>1. m \in 1..N
          BY <1>2
        <4>2. outpoint(m) \in Triples
          BY <1>2, <4>1, Zenon
        <4> QED
          BY <2>2, <2>4, <3>1, <4>2, BytesOrdered, Zenon
      <3> QED
        BY <2>1, <2>2, <3>1, <3>2, Zenon
    <2>5. CASE ~BytesBefore(outpoint(k + 1), smallest[k])
      <3>1. smallest[k + 1] = smallest[k]
        BY <2>3, <2>5, Zenon
      <3>2. outpoint(k + 1) = smallest[k] \/ BytesBefore(smallest[k], outpoint(k + 1))
        BY <2>2, <2>5, BytesOrdered, Zenon
      <3> QED
        BY <2>1, <2>2, <3>1, <3>2, Zenon
    <2> QED
      BY <2>4, <2>5
  <1>11. N \in Minimal
    <2> HIDE DEF Minimal
    <2>1. 0..N \subseteq Minimal
      BY <1>2, <1>9, <1>10, Upwards
    <2> QED
      BY <1>2, <2>1
  <1> QED
    BY <1>11, Zenon

-----------------------------------------------------------------------------
(* What the inductive invariant says of the inputs *)

\* Every input is that of a spend.
LEMMA InputFacts ==
    ASSUME InputsOfSpends
    PROVE  /\ Len(vin) \in Nat \ {0} /\ Len(spends) = Len(vin)
           /\ DOMAIN vin = 1..Len(vin) /\ DOMAIN spends = 1..Len(vin)
           /\ \A j \in 1..Len(vin) : /\ spends[j] \in Spends
                                     /\ \E o \in Outpoints : vin[j] = InputOf(spends[j], o)
  <1>1. PICK outpoints \in [DOMAIN spends -> Outpoints] :
                vin = [j \in DOMAIN spends |-> InputOf(spends[j], outpoints[j])]
    BY DEF InputsOfSpends
  <1>2. /\ Len(spends) \in Nat \ {0} /\ DOMAIN spends = 1..Len(spends)
        /\ \A j \in 1..Len(spends) : spends[j] \in Spends
    <2>1. spends \in Seq(Spends) /\ spends # << >>
      BY DEF InputsOfSpends
    <2> QED
      BY <2>1, EmptySeq, LenProperties, ElementOfSeq
  <1>3. \A j \in 1..Len(spends) : outpoints[j] \in Outpoints /\ vin[j] = InputOf(spends[j], outpoints[j])
    BY <1>1, <1>2, Zenon
  <1>4. Len(vin) = Len(spends)
    <2> DEFINE N == Len(spends)
               input(j) == InputOf(spends[j], outpoints[j])
    <2>1. N \in Nat /\ vin = [j \in 1..N |-> input(j)]
      BY <1>1, <1>2, Zenon
    <2> HIDE DEF N, input
    <2>2. Len(vin) = N
      BY <2>1
    <2> QED
      BY <2>2 DEF N
  <1>5. DOMAIN vin = DOMAIN spends
    BY <1>1
  <1> QED
    BY <1>2, <1>3, <1>4, <1>5, Zenon

\* The smallest outpoint is the least one.
LEMMA SmallestOfInputs == ASSUME InputsOfSpends PROVE SmallestOutpoint(vin) = Least
  <1> DEFINE N == Len(vin)
             outpoint(j) == Serialized(vin[j].outpoint)
             least == SmallestOutpoint(vin)
             IsLeast(a) == \A j \in DOMAIN vin : outpoint(j) = a \/ BytesBefore(a, outpoint(j))
  <1>1. N \in Nat \ {0} /\ DOMAIN vin = 1..N
    BY InputFacts, Zenon
  <1>2. \A j \in 1..N : outpoint(j) \in Triples
    <2> SUFFICES ASSUME NEW j \in 1..N PROVE outpoint(j) \in Triples
      BY Zenon
    <2>1. PICK o \in Outpoints : vin[j] = InputOf(spends[j], o)
      BY InputFacts, Zenon
    <2>2. vin[j].outpoint = o
      BY <2>1, InputFacts, OutpointOf, Zenon
    <2> QED
      BY <2>2, SerializedType, Zenon
  <1>3. /\ \E j \in 1..N : least = outpoint(j)
        /\ \A j \in 1..N : outpoint(j) = least \/ BytesBefore(least, outpoint(j))
    BY <1>1, <1>2, SmallestIsLeast, Zenon
  <1>4. Least = CHOOSE a \in {outpoint(j) : j \in DOMAIN vin} : IsLeast(a)
    BY DEF Least
  <1> HIDE DEF N, outpoint, least
  <1>5. least \in {outpoint(j) : j \in DOMAIN vin} /\ IsLeast(least)
    BY <1>1, <1>3, Zenon
  <1>6. ASSUME NEW a \in {outpoint(j) : j \in DOMAIN vin}, IsLeast(a) PROVE a = least
    <2>1. PICK j \in 1..N : a = outpoint(j)
      BY <1>1
    <2>2. PICK n \in 1..N : least = outpoint(n)
      BY <1>3
    <2>3. least = a \/ BytesBefore(a, least)
      BY <1>1, <1>6, <2>2, Zenon
    <2>4. a = least \/ BytesBefore(least, a)
      BY <1>3, <2>1, Zenon
    <2> QED
      BY <1>2, <2>1, <2>2, <2>3, <2>4, BytesOrdered, Zenon
  <1> HIDE DEF IsLeast
  <1>7. (CHOOSE a \in {outpoint(j) : j \in DOMAIN vin} : IsLeast(a)) = least
    BY <1>5, <1>6
  <1> QED
    BY <1>4, <1>7, Zenon DEF least

\* The vouts of the P2TR outputs, said in two ways.
LEMMA EligibleVoutsAre ==
    ASSUME InputsOfSpends
    PROVE  /\ EligibleVouts(vout) = {n \in 0..(Len(vout) - 1) : vout[n + 1] = "p2tr"}
           /\ EligibleVouts(vout) # {} <=> \E j \in DOMAIN vout : vout[j] = "p2tr"
  <1>1. vout \in Seq(OutputForms)
    BY DEF InputsOfSpends
  <1>2. Len(vout) \in Nat /\ DOMAIN vout = 1..Len(vout)
    BY <1>1
  <1>3. ASSUME NEW n \in EligibleVouts(vout) PROVE n \in 0..(Len(vout) - 1) /\ vout[n + 1] = "p2tr"
    <2>1. PICK j \in 1..Len(vout) : n = j - 1 /\ vout[j] = "p2tr"
      BY <1>2 DEF EligibleVouts
    <2>2. n + 1 = j /\ n \in 0..(Len(vout) - 1)
      BY <1>2, <2>1
    <2> QED
      BY <2>1, <2>2
  <1>4. ASSUME NEW n \in 0..(Len(vout) - 1), vout[n + 1] = "p2tr" PROVE n \in EligibleVouts(vout)
    <2>1. n + 1 \in DOMAIN vout /\ n = (n + 1) - 1
      BY <1>2
    <2> QED
      BY <1>4, <2>1, Zenon DEF EligibleVouts
  <1>5. EligibleVouts(vout) # {} <=> \E j \in DOMAIN vout : vout[j] = "p2tr"
    BY Zenon DEF EligibleVouts
  <1> QED
    BY <1>3, <1>4, <1>5

-----------------------------------------------------------------------------
(* The inductive invariant *)

\* What is said of the inputs alone stays true: no step changes them.
LEMMA InputsStay ==
    ASSUME UNCHANGED <<spends, vin, vout>>
    PROVE  /\ InputsOfSpends => InputsOfSpends'
           /\ SecretSums' = SecretSums
           /\ Least' = Least
           /\ SilentPayment' <=> SilentPayment
           /\ BareMultisig' <=> BareMultisig
  <1>1. InputsOfSpends => InputsOfSpends'
    BY DEF InputsOfSpends
  <1>2. SecretSums' = SecretSums
    BY DEF SecretSums
  <1>3. Least' = Least
    BY DEF Least
  <1>4. SilentPayment' <=> SilentPayment
    BY <1>2 DEF SilentPayment, SecretSum
  <1>5. BareMultisig' <=> BareMultisig
    BY DEF BareMultisig
  <1> QED
    BY <1>1, <1>2, <1>3, <1>4, <1>5

\* A step that returns nothing keeps the invariant if the transaction is no silent
\* payment, or one that spends a bare multisig output.
LEMMA NullReturned ==
    ASSUME InputsOfSpends, i \in 0..Len(vin), pubKeys \in Seq(1..(Order - 1)),
           UNCHANGED <<spends, vin, vout, pubKeys>>, i' \in 0..Len(vin), Return(Null),
           ~SilentPayment \/ BareMultisig
    PROVE  IndInv'
  <1>1. phase' = "done" /\ result' = Null
    BY DEF Return
  <1>2. InputsOfSpends' /\ (SilentPayment' <=> SilentPayment) /\ (BareMultisig' <=> BareMultisig)
    BY InputsStay
  <1>3. LoopsExact'
    BY <1>1 DEF LoopsExact
  <1>4. MatchesSender'
    BY <1>1, <1>2 DEF MatchesSender
  <1>5. VoutsExact'
    BY <1>1 DEF VoutsExact
  <1> QED
    BY <1>2, <1>3, <1>4, <1>5 DEF IndInv

\* One that goes on keeps it if it keeps what is said of the loops.
LEMMA LoopGoesOn ==
    ASSUME InputsOfSpends, UNCHANGED <<spends, vin, vout>>, result = Null, result' = result,
           phase' # "done", LoopsExact'
    PROVE  IndInv'
  <1>1. InputsOfSpends'
    BY InputsStay
  <1>2. MatchesSender' /\ VoutsExact'
    BY DEF MatchesSender, VoutsExact
  <1> QED
    BY <1>1, <1>2 DEF IndInv

\* The invariant holds at the start.
LEMMA InitEstablishes == ASSUME Init PROVE IndInv
  <1>1. InputsOfSpends
    <2>1. ASSUME NEW S, NEW n \in Nat, NEW s \in BoundedSeq(S, n) PROVE s \in Seq(S)
      <3>1. PICK m \in 0..n : s \in [1..m -> S]
        BY DEF BoundedSeq, SeqOf
      <3> QED
        BY <3>1
    <2>2. MaxInputs \in Nat /\ MaxOutputs \in Nat
      BY EligibilityAssumption
    <2>3. spends \in Seq(Spends) /\ spends # << >> /\ vout \in Seq(OutputForms)
      BY <2>1, <2>2 DEF Init
    <2>4. \E outpoints \in [DOMAIN spends -> Outpoints] :
             vin = [j \in DOMAIN spends |-> InputOf(spends[j], outpoints[j])]
      BY Zenon DEF Init
    <2> QED
      BY <2>3, <2>4 DEF InputsOfSpends
  <1>2. i = 0 /\ pubKeys = << >> /\ phase = "outputs" /\ result = Null
    BY DEF Init
  <1>3. LoopsExact
    <2>1. Len(vin) \in Nat
      BY <1>1, InputFacts
    <2> QED
      BY <1>2, <2>1 DEF LoopsExact
  <1>4. MatchesSender /\ VoutsExact
    BY <1>2 DEF MatchesSender, VoutsExact
  <1> QED
    BY <1>1, <1>3, <1>4 DEF IndInv

\* Without a P2TR output a transaction is no silent payment.
LEMMA FindOutputsKeeps == ASSUME IndInv, FindOutputs PROVE IndInv'
  <1>1. InputsOfSpends /\ LoopsExact
    BY DEF IndInv
  <1>2. /\ phase = "outputs" /\ result = Null /\ i = 0 /\ pubKeys = << >>
        /\ UNCHANGED <<spends, vin, vout, i, pubKeys>>
    BY <1>1 DEF FindOutputs, LoopsExact
  <1>3. Len(vin) \in Nat /\ i \in 0..Len(vin) /\ pubKeys \in Seq(1..(Order - 1))
    BY <1>1, InputFacts DEF LoopsExact
  <1>4. CASE EligibleVouts(vout) = {}
    <2>1. ~SilentPayment
      BY <1>1, <1>4, EligibleVoutsAre DEF SilentPayment
    <2>2. Return(Null)
      BY <1>4 DEF FindOutputs
    <2> QED
      BY <1>1, <1>2, <1>3, <2>1, <2>2, NullReturned
  <1>5. CASE EligibleVouts(vout) # {}
    <2>1. phase' = "versions" /\ result' = result
      BY <1>5 DEF FindOutputs, Continue
    <2>2. EligibleVouts(vout') # {}
      BY <1>2, <1>5
    <2>3. LoopsExact'
      BY <1>2, <1>3, <2>1, <2>2 DEF LoopsExact
    <2> QED
      BY <1>1, <1>2, <2>1, <2>3, LoopGoesOn
  <1> QED
    BY <1>4, <1>5

\* The opcode that ends the loop is that of an unknown SegWit version or a bare multisig.
LEMMA CheckVersionKeeps == ASSUME IndInv, CheckVersion PROVE IndInv'
  <1>1. InputsOfSpends /\ LoopsExact
    BY DEF IndInv
  <1>2. /\ phase = "versions" /\ result = Null /\ i < Len(vin) /\ i' = i + 1 /\ pubKeys = << >>
        /\ \A j \in 1..i : vin[j].prevOutScript.opcode \notin 82..96
        /\ EligibleVouts(vout) # {}
        /\ UNCHANGED <<spends, vin, vout, pubKeys>>
    BY <1>1 DEF CheckVersion, LoopsExact
  <1>3. /\ Len(vin) \in Nat /\ i \in 0..Len(vin) /\ pubKeys \in Seq(1..(Order - 1))
        /\ i + 1 \in 1..Len(vin) /\ i' \in 0..Len(vin)
    BY <1>1, <1>2, InputFacts DEF LoopsExact
  <1>4. CASE vin[i'].prevOutScript.opcode \in 82..96
    <2>1. i' \in 1..Len(vin) /\ i' \in DOMAIN spends /\ spends[i'] \in Spends
      BY <1>1, <1>2, <1>3, InputFacts
    <2>2. PICK o \in Outpoints : vin[i'] = InputOf(spends[i'], o)
      BY <1>1, <2>1, InputFacts, Zenon
    <2>3. spends[i'].type = "segwit" \/ (spends[i'].type = "bare" /\ spends[i'].opcode > 81)
      BY <1>4, <2>1, <2>2, OpcodeOf, Zenon
    <2>4. ~SilentPayment \/ BareMultisig
      BY <2>1, <2>3, Zenon DEF SilentPayment, BareMultisig
    <2>5. Return(Null)
      BY <1>4 DEF CheckVersion
    <2> QED
      BY <1>1, <1>2, <1>3, <2>4, <2>5, NullReturned
  <1>5. CASE vin[i'].prevOutScript.opcode \notin 82..96
    <2>1. phase' = "versions" /\ result' = result
      BY <1>5 DEF CheckVersion, Continue
    <2>2. \A j \in 1..i' : vin'[j].prevOutScript.opcode \notin 82..96
      <3>1. \A j \in 1..(i + 1) : j \in 1..i \/ j = i + 1
        BY <1>3
      <3> QED
        BY <1>2, <1>5, <3>1
    <2>3. LoopsExact'
      BY <1>2, <1>3, <2>1, <2>2 DEF LoopsExact
    <2> QED
      BY <1>1, <1>2, <2>1, <2>3, LoopGoesOn
  <1> QED
    BY <1>4, <1>5

\* No key is found yet and none is counted in.
LEMMA VersionsCheckedKeeps == ASSUME IndInv, VersionsChecked PROVE IndInv'
  <1>1. InputsOfSpends /\ LoopsExact
    BY DEF IndInv
  <1>2. /\ phase = "versions" /\ result = Null /\ i = Len(vin) /\ i' = 0 /\ pubKeys = << >>
        /\ \A j \in 1..i : vin[j].prevOutScript.opcode \notin 82..96
        /\ EligibleVouts(vout) # {} /\ phase' = "keys" /\ result' = result
        /\ UNCHANGED <<spends, vin, vout, pubKeys>>
    BY <1>1 DEF VersionsChecked, LoopsExact, Continue
  <1>3. Len(vin) \in Nat /\ DOMAIN vin = 1..Len(vin) /\ pubKeys \in Seq(1..(Order - 1))
    BY <1>1, InputFacts DEF LoopsExact
  <1>4. SumOf(pubKeys') = SecretSums'[i'] % Order
    <2>1. SecretSums' = SecretSums /\ SecretSums[0] = 0
      BY <1>1, <1>2, InputsStay, SecretSumsAre DEF InputsOfSpends
    <2>2. 0 % Order = 0
      BY OrderType
    <2> QED
      BY <1>2, <2>1, <2>2, SumOfNone
  <1>5. EligibleVouts(vout') # {} /\ \A j \in DOMAIN vin' : vin'[j].prevOutScript.opcode \notin 82..96
    BY <1>2, <1>3
  <1>6. LoopsExact'
    BY <1>2, <1>3, <1>4, <1>5 DEF LoopsExact
  <1> QED
    BY <1>1, <1>2, <1>6, LoopGoesOn

\* A key found is the secret its sender counts in, and no key is found where none is.
LEMMA ExtractKeyKeeps == ASSUME IndInv, ExtractKey PROVE IndInv'
  <1> DEFINE key == ExtractPubKey(vin[i + 1])
             share == IF Contributes(spends[i + 1]) THEN SecretOf(spends[i + 1]) ELSE 0
  <1>1. InputsOfSpends /\ LoopsExact
    BY DEF IndInv
  <1>2. /\ phase = "keys" /\ result = Null /\ i < Len(vin) /\ i' = i + 1
        /\ \A j \in DOMAIN vin : vin[j].prevOutScript.opcode \notin 82..96
        /\ SumOf(pubKeys) = SecretSums[i] % Order
        /\ EligibleVouts(vout) # {} /\ phase' = "keys" /\ result' = result
        /\ pubKeys' = IF key = NoKey THEN pubKeys ELSE Append(pubKeys, key)
        /\ UNCHANGED <<spends, vin, vout>>
    BY <1>1 DEF ExtractKey, LoopsExact, Continue
  <1>3. /\ Len(vin) \in Nat /\ i \in 0..Len(vin) /\ pubKeys \in Seq(1..(Order - 1))
        /\ i + 1 \in 1..Len(vin) /\ i' \in 0..Len(vin) /\ i + 1 - 1 = i
    BY <1>1, <1>2, InputFacts DEF LoopsExact
  <1>4. key = share /\ share \in 0..(Order - 1) /\ (share # 0 => share \in 1..(Order - 1))
    <2>1. spends[i + 1] \in Spends
      BY <1>1, <1>3, InputFacts
    <2>2. PICK o \in Outpoints : vin[i + 1] = InputOf(spends[i + 1], o)
      BY <1>1, <1>3, InputFacts, Zenon
    <2>3. key = share
      BY <2>1, <2>2, KeyFound, Zenon DEF NoKey
    <2>4. Contributes(spends[i + 1]) => SecretOf(spends[i + 1]) \in 1..(Order - 1)
      BY <2>1, SecretType
    <2>5. 0 \in 0..(Order - 1) /\ 1..(Order - 1) \subseteq 0..(Order - 1)
      BY OrderType
    <2> QED
      BY <2>3, <2>4, <2>5
  <1>5. /\ SecretSums[i] \in Nat /\ SecretSums[i + 1] = SecretSums[i] + share
        /\ SecretSums' = SecretSums
    <2>1. spends \in Seq(Spends) /\ Len(spends) = Len(vin)
      BY <1>1, InputFacts DEF InputsOfSpends
    <2> QED
      BY <1>2, <1>3, <2>1, SecretSumsAre, InputsStay
  <1> HIDE DEF key, share
  <1>6. pubKeys' \in Seq(1..(Order - 1)) /\ SumOf(pubKeys') = SecretSums[i + 1] % Order
    <2>1. CASE key = 0
      <3>1. pubKeys' = pubKeys /\ SecretSums[i + 1] = SecretSums[i]
        BY <1>2, <1>4, <1>5, <2>1 DEF NoKey
      <3> QED
        BY <1>2, <1>3, <3>1
    <2>2. CASE key # 0
      <3>1. pubKeys' = Append(pubKeys, share) /\ share \in 1..(Order - 1) /\ share \in Nat
        BY <1>2, <1>4, <2>2, OrderType DEF NoKey
      <3>2. pubKeys \in Seq(Nat)
        BY <1>3, OrderType
      <3>3. SumOf(Append(pubKeys, share)) = (SumOf(pubKeys) + share) % Order
        BY <3>1, <3>2, SumOfAppend
      <3>4. ((SecretSums[i] % Order) + share) % Order = (SecretSums[i] + share) % Order
        BY <1>5, <3>1, RemainderOfSum
      <3>5. Append(pubKeys, share) \in Seq(1..(Order - 1))
        BY <1>3, <3>1
      <3> QED
        BY <1>2, <1>5, <3>1, <3>3, <3>4, <3>5
    <2> QED
      BY <2>1, <2>2
  <1>7. EligibleVouts(vout') # {} /\ \A j \in DOMAIN vin' : vin'[j].prevOutScript.opcode \notin 82..96
    BY <1>2
  <1>8. SumOf(pubKeys') = SecretSums'[i'] % Order
    BY <1>2, <1>5, <1>6
  <1>9. i' \in 0..Len(vin')
    BY <1>2, <1>3
  <1>10. LoopsExact'
    BY <1>2, <1>6, <1>7, <1>8, <1>9 DEF LoopsExact
  <1> QED
    BY <1>1, <1>2, <1>10, LoopGoesOn

\* After the last input the sum of the keys is the sender's.
LEMMA SumOfAll ==
    ASSUME InputsOfSpends, SumOf(pubKeys) = SecretSums[i] % Order, i = Len(vin)
    PROVE  SumOf(pubKeys) = SecretSum
  BY InputFacts DEF SecretSum

\* Without a key there is no secret to share.
LEMMA KeysExtractedKeeps == ASSUME IndInv, KeysExtracted PROVE IndInv'
  <1>1. InputsOfSpends /\ LoopsExact
    BY DEF IndInv
  <1>2. /\ phase = "keys" /\ result = Null /\ i = Len(vin)
        /\ \A j \in DOMAIN vin : vin[j].prevOutScript.opcode \notin 82..96
        /\ SumOf(pubKeys) = SecretSums[i] % Order
        /\ EligibleVouts(vout) # {}
        /\ UNCHANGED <<spends, vin, vout, i, pubKeys>>
    BY <1>1 DEF KeysExtracted, LoopsExact
  <1>3. Len(vin) \in Nat /\ i \in 0..Len(vin) /\ i' \in 0..Len(vin) /\ pubKeys \in Seq(1..(Order - 1))
    BY <1>1, <1>2, InputFacts DEF LoopsExact
  <1>4. CASE pubKeys = << >>
    <2>1. ~SilentPayment
      BY <1>1, <1>2, <1>4, SumOfAll, SumOfNone DEF SilentPayment
    <2>2. Return(Null)
      BY <1>4 DEF KeysExtracted
    <2> QED
      BY <1>1, <1>2, <1>3, <2>1, <2>2, NullReturned
  <1>5. CASE pubKeys # << >>
    <2>1. phase' = "sum" /\ result' = result
      BY <1>5 DEF KeysExtracted, Continue
    <2>2. EligibleVouts(vout') # {} /\ \A j \in DOMAIN vin' : vin'[j].prevOutScript.opcode \notin 82..96
      BY <1>2
    <2>3. SumOf(pubKeys') = SecretSums'[i'] % Order
      BY <1>2, InputsStay
    <2>4. i' = Len(vin') /\ i' \in 0..Len(vin') /\ pubKeys' \in Seq(1..(Order - 1))
      BY <1>2, <1>3
    <2>5. LoopsExact'
      BY <1>2, <2>1, <2>2, <2>3, <2>4 DEF LoopsExact
    <2> QED
      BY <1>1, <1>2, <2>1, <2>5, LoopGoesOn
  <1> QED
    BY <1>4, <1>5

\* What is returned is the sender's tweak, with the P2TR outputs, or nothing if the keys
\* cancel out.
LEMMA CombineKeeps == ASSUME IndInv, Combine PROVE IndInv'
  <1>1. InputsOfSpends /\ LoopsExact
    BY DEF IndInv
  <1>2. /\ phase = "sum" /\ result = Null /\ i = Len(vin)
        /\ \A j \in DOMAIN vin : vin[j].prevOutScript.opcode \notin 82..96
        /\ SumOf(pubKeys) = SecretSums[i] % Order
        /\ EligibleVouts(vout) # {}
        /\ UNCHANGED <<spends, vin, vout, i, pubKeys>>
    BY <1>1 DEF Combine, LoopsExact
  <1>3. Len(vin) \in Nat /\ i \in 0..Len(vin) /\ i' \in 0..Len(vin) /\ pubKeys \in Seq(1..(Order - 1))
    BY <1>1, <1>2, InputFacts DEF LoopsExact
  <1>4. SumOf(pubKeys) = SecretSum
    BY <1>1, <1>2, SumOfAll
  <1>5. CASE SumOf(pubKeys) = 0
    <2>1. ~SilentPayment
      BY <1>4, <1>5 DEF SilentPayment
    <2>2. Return(Null)
      BY <1>5 DEF Combine
    <2> QED
      BY <1>1, <1>2, <1>3, <2>1, <2>2, NullReturned
  <1>6. CASE SumOf(pubKeys) # 0
    <2> DEFINE value == [outputs |-> EligibleVouts(vout),
                         scanTweak |-> <<SmallestOutpoint(vin), SumOf(pubKeys)>>]
    <2>1. phase' = "done" /\ result' = value
      BY <1>6 DEF Combine, Return
    <2>2. SilentPayment
      <3>1. \E j \in DOMAIN vout : vout[j] = "p2tr"
        BY <1>1, <1>2, EligibleVoutsAre
      <3>2. ASSUME NEW j \in DOMAIN spends PROVE spends[j].type # "segwit"
        <4>1. j \in 1..Len(vin) /\ j \in DOMAIN vin /\ spends[j] \in Spends
          BY <1>1, InputFacts
        <4>2. PICK o \in Outpoints : vin[j] = InputOf(spends[j], o)
          BY <1>1, <4>1, InputFacts, Zenon
        <4> QED
          BY <1>2, <4>1, <4>2, OpcodeOf, Zenon
      <3> QED
        BY <1>4, <1>6, <3>1, <3>2, Zenon DEF SilentPayment
    <2>3. /\ InputsOfSpends' /\ SilentPayment' /\ Least' = Least
          /\ SecretSum' = SecretSum
      <3>1. /\ InputsOfSpends' /\ (SilentPayment' <=> SilentPayment) /\ Least' = Least
            /\ SecretSums' = SecretSums
        BY <1>1, <1>2, InputsStay
      <3> QED
        BY <1>2, <2>2, <3>1 DEF SecretSum
    <2>4. result'.scanTweak = <<Least, SecretSum>> /\ result'.outputs = EligibleVouts(vout)
      BY <1>1, <1>4, <2>1, SmallestOfInputs
    <2>5. MatchesSender'
      BY <2>3, <2>4, Zenon DEF MatchesSender
    <2>6. VoutsExact'
      BY <1>1, <1>2, <2>4, EligibleVoutsAre DEF VoutsExact
    <2>7. LoopsExact'
      BY <1>2, <1>3, <2>1 DEF LoopsExact
    <2> QED
      BY <2>3, <2>5, <2>6, <2>7 DEF IndInv
  <1> QED
    BY <1>5, <1>6

\* The keys found so far add up to the secrets of the inputs looked at, and what is
\* returned is what the sender's side says.
THEOREM Invariance == Spec => []IndInv
  <1>1. Init => IndInv
    BY InitEstablishes
  <1>2. IndInv /\ [Next]_vars => IndInv'
    <2> SUFFICES ASSUME IndInv, [Next]_vars PROVE IndInv'
      OBVIOUS
    <2>1. CASE FindOutputs
      BY <2>1, FindOutputsKeeps
    <2>2. CASE CheckVersion
      BY <2>2, CheckVersionKeeps
    <2>3. CASE VersionsChecked
      BY <2>3, VersionsCheckedKeeps
    <2>4. CASE ExtractKey
      BY <2>4, ExtractKeyKeeps
    <2>5. CASE KeysExtracted
      BY <2>5, KeysExtractedKeeps
    <2>6. CASE Combine
      BY <2>6, CombineKeeps
    <2>7. CASE UNCHANGED vars
      <3>1. /\ UNCHANGED <<spends, vin, vout>> /\ i' = i /\ pubKeys' = pubKeys
            /\ phase' = phase /\ result' = result
        BY <2>7 DEF vars
      <3>2. InputsOfSpends' /\ SecretSums' = SecretSums /\ Least' = Least
            /\ (SilentPayment' <=> SilentPayment) /\ (BareMultisig' <=> BareMultisig)
        BY <3>1, InputsStay DEF IndInv
      <3>3. LoopsExact'
        BY <3>1, <3>2 DEF IndInv, LoopsExact
      <3>4. MatchesSender'
        BY <3>1, <3>2 DEF IndInv, MatchesSender, SecretSum
      <3>5. VoutsExact'
        BY <3>1 DEF IndInv, VoutsExact
      <3> QED
        BY <3>2, <3>3, <3>4, <3>5 DEF IndInv
    <2> QED
      BY <2>1, <2>2, <2>3, <2>4, <2>5, <2>6, <2>7 DEF Next
  <1> QED
    BY <1>1, <1>2, PTL DEF Spec

\* A transaction is indexed exactly if it may be a silent payment, with the tweak its
\* sender used; one that spends a bare multisig output may be left out.
THEOREM IndexedAsSent == Spec => []MatchesSender
  <1>1. IndInv => MatchesSender
    BY DEF IndInv
  <1> QED
    BY <1>1, Invariance, PTL

\* The outputs indexed are the P2TR ones, under their vouts.
THEOREM VoutsKept == Spec => []VoutsExact
  <1>1. IndInv => VoutsExact
    BY DEF IndInv
  <1> QED
    BY <1>1, Invariance, PTL

===============================================================================
