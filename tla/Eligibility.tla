----------------------------- MODULE Eligibility -----------------------------
(***************************************************************************)
(* Which transactions are indexed, with which outputs and scan tweak       *)
(* (IndexerService.deriveOutputsAndComputeScanTweak), and the public key   *)
(* that an input reveals (extractPubKeyFromScript).  An input is built     *)
(* from what its sender did, a spend; the indexer sees only the script it  *)
(* spends, its scriptSig and its witness.  The curve's group is that of    *)
(* the integers modulo Order, a point stands for its secret key: points    *)
(* k and Order - k have one x coordinate, the lesser one the even y.       *)
(***************************************************************************)
EXTENDS Integers, Sequences, FiniteSetsExt, SequencesExt

CONSTANTS
    Order,      \* the order of the group
    Radix,      \* values of a byte of a vout
    Spends,     \* what a sender may do in one input
    Outpoints,  \* outpoints an input may consume: <<txid, vout>>, the txid a number
    OutputForms,\* forms of an output's script
    MaxInputs, MaxOutputs

ASSUME EligibilityAssumption ==
    /\ Order \in Nat \ 0..2 /\ Order % 2 = 1
    /\ Radix \in Nat \ 0..1
    /\ {MaxInputs, MaxOutputs} \subseteq Nat \ {0}

\* A secret key is not zero; a bare multisig script begins with OP_1 to OP_16, one of
\* an unknown SegWit version with OP_2 to OP_16.
ASSUME SpendsAssumption ==
    \A s \in Spends :
        /\ s.type \in {"p2pkh", "p2wpkh", "p2sh-p2wpkh", "p2tr-key", "p2tr-script",
                       "p2sh", "bare", "segwit"}
        /\ s.type \notin {"p2sh", "bare", "segwit"} => s.secret \in 1..(Order - 1)
        /\ s.type = "bare" => s.opcode \in 81..96
        /\ s.type = "segwit" => s.opcode \in 82..96

ASSUME OutpointsAssumption == Outpoints \subseteq Nat \X Nat

VARIABLES
    spends,   \* spends[i]: what the sender did in input i; the handler does not see it
    vin, vout,
    i,        \* inputs looked at by the loop that runs
    pubKeys,  \* the keys found
    phase,    \* "outputs", "versions", "keys", "sum", "done"
    result

vars == <<spends, vin, vout, i, pubKeys, phase, result>>

Null == [outputs |-> {}, scanTweak |-> << >>]

-----------------------------------------------------------------------------
(* Points *)

Negated(k) == Order - k
HasEvenY(k) == k <= Order \div 2
XOf(k) == IF HasEvenY(k) THEN k ELSE Negated(k)

\* The point whose compressed form is 0x02 and the x coordinate.
EvenPoint(x) == x

\* The point at infinity is 0.
SumOf(points) ==
    LET sum[n \in 0..Len(points)] == IF n = 0 THEN 0 ELSE (sum[n - 1] + points[n]) % Order
    IN  sum[Len(points)]

\* A serialized public key: compressed if its size is 33.
PubKey(k, size) == [point |-> k, size |-> size]

-----------------------------------------------------------------------------
(* Inputs *)

\* A script: its form, its first opcode, and the key, hash or program in it.  A
\* hash is the thing hashed.
Script(form, opcode, of) == [form |-> form, opcode |-> opcode, of |-> of]

OP_0 == 0
OP_1 == 81

Item(kind, of) == [kind |-> kind, of |-> of]

Nothing == "nothing"
Signature == Item("signature", Nothing)
Annex     == Item("annex", Nothing)

KeyItem(key) == Item("key", key)

P2wpkh(key) == Script("p2wpkh", OP_0, key)

\* What a spend of a sender looks like.  The sender of a P2PKH input, or anyone
\* else on its way to a block, may push more than signature and key.
InputOf(s, outpoint) ==
    LET key == PubKey(s.secret, s.size)
        Input(script, sig, witness) ==
            [outpoint |-> outpoint, prevOutScript |-> script, scriptSig |-> sig, witness |-> witness]
        annex == IF s.annex THEN <<Annex>> ELSE << >>
    IN  CASE s.type = "p2pkh" ->
               Input(Script("p2pkh", 118, key),
                     IF s.malleated THEN <<Signature, KeyItem(key), Signature>>
                                    ELSE <<Signature, KeyItem(key)>>, << >>)
          [] s.type = "p2wpkh" ->
               Input(P2wpkh(key), << >>, <<Signature, KeyItem(key)>>)
          [] s.type = "p2sh-p2wpkh" ->
               Input(Script("p2sh", 169, P2wpkh(key)), <<Item("script", P2wpkh(key))>>,
                     <<Signature, KeyItem(key)>>)
          [] s.type = "p2sh" ->
               Input(Script("p2sh", 169, Nothing),
                     <<Signature, Signature, Item("script", Script("multisig", s.opcode, Nothing))>>, << >>)
          [] s.type = "p2tr-key" ->
               Input(Script("p2tr", OP_1, XOf(s.secret)), << >>, <<Signature>> \o annex)
          [] s.type = "p2tr-script" ->
               Input(Script("p2tr", OP_1, XOf(s.secret)), << >>,
                     <<Item("script", Nothing), Item("control", s.internal)>> \o annex)
          [] s.type = "bare" ->
               Input(Script("multisig", s.opcode, Nothing), <<Signature, Signature>>, << >>)
          [] s.type = "segwit" ->
               Input(Script("segwit", s.opcode, Nothing), << >>, <<Signature>>)

-----------------------------------------------------------------------------
(* extractPubKeyFromScript *)

NoKey == 0

Compressed(item) == item.kind = "key" /\ item.of.size = 33

\* Every run of 33 bytes of the scriptSig is tried, from the end.
KeyOfP2pkh(input) ==
    LET found == {j \in DOMAIN input.scriptSig :
                    Compressed(input.scriptSig[j]) /\ input.scriptSig[j].of = input.prevOutScript.of}
    IN  IF found = {} THEN NoKey ELSE input.scriptSig[Max(found)].of.point

KeyInWitness(witness) == IF Compressed(witness[2]) THEN witness[2].of.point ELSE NoKey

\* The scriptSig is one push, of a P2WPKH program.
KeyOfP2sh(input) ==
    IF /\ Len(input.scriptSig) = 1
       /\ input.scriptSig[1].kind = "script" /\ input.scriptSig[1].of.form = "p2wpkh"
    THEN KeyInWitness(input.witness) ELSE NoKey

\* Fault: an annex is taken for the last item of the stack.
WithAnnex(witness) == witness

WithoutAnnex(witness) ==
    IF Len(witness) > 1 /\ Last(witness).kind = "annex" THEN Front(witness) ELSE witness

\* A script path under the internal key that nobody can sign for reveals no key.
KeyOfP2tr(input) ==
    LET witness == WithoutAnnex(input.witness)
    IN  IF witness = << >> \/ (Len(witness) > 1 /\ Last(witness) = Item("control", "NUMS_H"))
        THEN NoKey ELSE EvenPoint(input.prevOutScript.of)

ExtractPubKey(input) ==
    CASE input.prevOutScript.form = "p2pkh"  -> KeyOfP2pkh(input)
      [] input.prevOutScript.form = "p2wpkh" -> KeyInWitness(input.witness)
      [] input.prevOutScript.form = "p2sh"   -> KeyOfP2sh(input)
      [] input.prevOutScript.form = "p2tr"   -> KeyOfP2tr(input)
      [] OTHER                               -> NoKey

-----------------------------------------------------------------------------
(* Outpoints *)

\* The txid's bytes, then the vout's, the least significant first.
Serialized(outpoint) == <<outpoint[1], outpoint[2] % Radix, outpoint[2] \div Radix>>

BytesBefore(a, b) ==
    \E n \in DOMAIN a : a[n] < b[n] /\ \A j \in 1..(n - 1) : a[j] = b[j]

\* One after the other, the least so far is kept.
SmallestOutpoint(inputs) ==
    LET outpoint(n) == Serialized(inputs[n].outpoint)
        smallest[n \in 0..Len(inputs)] ==
            IF n = 0 THEN outpoint(1)
            ELSE IF BytesBefore(outpoint(n), smallest[n - 1]) THEN outpoint(n) ELSE smallest[n - 1]
    IN  smallest[Len(inputs)]

-----------------------------------------------------------------------------
(* deriveOutputsAndComputeScanTweak *)

Init ==
    /\ spends \in BoundedSeq(Spends, MaxInputs) \ {<< >>}
    /\ \E outpoints \in [DOMAIN spends -> Outpoints] :
          /\ \A j, k \in DOMAIN spends : outpoints[j] = outpoints[k] => j = k
          /\ vin = [j \in DOMAIN spends |-> InputOf(spends[j], outpoints[j])]
    /\ vout \in BoundedSeq(OutputForms, MaxOutputs) \ {<< >>}
    /\ i = 0
    /\ pubKeys = << >>
    /\ phase = "outputs"
    /\ result = Null

Return(value) ==
    /\ phase' = "done"
    /\ result' = value

Continue(next) ==
    /\ phase' = next
    /\ UNCHANGED result

\* Fault: outputs that are not P2TR are not counted.
CountedVouts(outputs) == 0..(Cardinality({j \in DOMAIN outputs : outputs[j] = "p2tr"}) - 1)

\* The vouts of the P2TR outputs.
EligibleVouts(outputs) == {j - 1 : j \in {k \in DOMAIN outputs : outputs[k] = "p2tr"}}

FindOutputs ==
    /\ phase = "outputs"
    /\ IF EligibleVouts(vout) = {} THEN Return(Null) ELSE Continue("versions")
    /\ UNCHANGED <<spends, vin, vout, i, pubKeys>>

\* The first opcode alone is looked at: OP_2 to OP_16.
CheckVersion ==
    /\ phase = "versions" /\ i < Len(vin)
    /\ i' = i + 1
    /\ IF vin[i'].prevOutScript.opcode \in 82..96 THEN Return(Null) ELSE Continue("versions")
    /\ UNCHANGED <<spends, vin, vout, pubKeys>>

VersionsChecked ==
    /\ phase = "versions" /\ i = Len(vin)
    /\ i' = 0
    /\ Continue("keys")
    /\ UNCHANGED <<spends, vin, vout, pubKeys>>

ExtractKey ==
    /\ phase = "keys" /\ i < Len(vin)
    /\ i' = i + 1
    /\ LET key == ExtractPubKey(vin[i'])
       IN  pubKeys' = IF key = NoKey THEN pubKeys ELSE Append(pubKeys, key)
    /\ Continue("keys")
    /\ UNCHANGED <<spends, vin, vout>>

KeysExtracted ==
    /\ phase = "keys" /\ i = Len(vin)
    /\ IF pubKeys = << >> THEN Return(Null) ELSE Continue("sum")
    /\ UNCHANGED <<spends, vin, vout, i, pubKeys>>

\* publicKeyCombine throws on the point at infinity.  The scan tweak is the sum
\* times the hash of smallest outpoint and sum: the pair stands for it.
Combine ==
    /\ phase = "sum"
    /\ IF SumOf(pubKeys) = 0 THEN Return(Null)
       ELSE Return([outputs |-> EligibleVouts(vout),
                    scanTweak |-> <<SmallestOutpoint(vin), SumOf(pubKeys)>>])
    /\ UNCHANGED <<spends, vin, vout, i, pubKeys>>

Next ==
    \/ FindOutputs
    \/ CheckVersion
    \/ VersionsChecked
    \/ ExtractKey
    \/ KeysExtracted
    \/ Combine

Spec == Init /\ [][Next]_vars

-----------------------------------------------------------------------------
(* What BIP 352 says of the sender's side *)

\* The secret keys that enter the sender's shared secret: those of compressed
\* keys and, negated if the point's y is odd, of taproot outputs that can be
\* spent by key.
Contributes(s) ==
    \/ s.type \in {"p2pkh", "p2wpkh", "p2sh-p2wpkh"} /\ s.size = 33
    \/ s.type = "p2tr-key"
    \/ s.type = "p2tr-script" /\ s.internal # "NUMS_H"

SecretOf(s) ==
    IF s.type \in {"p2tr-key", "p2tr-script"} /\ ~HasEvenY(s.secret)
    THEN Negated(s.secret) ELSE s.secret

\* The sums of those of the first n inputs, for every n.
SecretSums ==
    LET sum[n \in 0..Len(spends)] ==
            IF n = 0 THEN 0
            ELSE sum[n - 1] + IF Contributes(spends[n]) THEN SecretOf(spends[n]) ELSE 0
    IN  sum

SecretSum == SecretSums[Len(spends)] % Order

Least == CHOOSE a \in {Serialized(vin[j].outpoint) : j \in DOMAIN vin} :
            \A j \in DOMAIN vin : Serialized(vin[j].outpoint) = a \/ BytesBefore(a, Serialized(vin[j].outpoint))

SilentPayment ==
    /\ \E j \in DOMAIN vout : vout[j] = "p2tr"
    /\ \A j \in DOMAIN spends : spends[j].type # "segwit"
    /\ SecretSum # 0

\* Two signatures or more are asked for.
BareMultisig == \E j \in DOMAIN spends : spends[j].type = "bare" /\ spends[j].opcode > 81

-----------------------------------------------------------------------------
(* Properties *)

\* A transaction is indexed exactly if it may be a silent payment, with the tweak
\* that its sender used, whatever kinds of inputs it mixes, in whichever order,
\* with annexes, malleated scriptSigs or keys that cancel out.  One that spends
\* a bare multisig output of two or more signatures is left out: its script
\* begins like that of an unknown SegWit version.
MatchesSender ==
    phase = "done" =>
        \/ SilentPayment /\ result.scanTweak = <<Least, SecretSum>>
        \/ ~SilentPayment /\ result = Null
        \/ BareMultisig /\ result = Null

\* The outputs indexed are the P2TR ones, under the vouts the network knows them
\* by, at which a later input or a wallet looks for them.
VoutsExact ==
    result # Null => result.outputs = {n \in 0..(Len(vout) - 1) : vout[n + 1] = "p2tr"}

-----------------------------------------------------------------------------
(* The inductive invariant *)

\* The inputs are those of the spends, and stay so.
InputsOfSpends ==
    /\ spends \in Seq(Spends) \ {<< >>}
    /\ \E outpoints \in [DOMAIN spends -> Outpoints] :
          vin = [j \in DOMAIN spends |-> InputOf(spends[j], outpoints[j])]
    /\ vout \in Seq(OutputForms)

\* The inputs looked at have no opcode that ends the loop, and the keys found in them
\* add up to the secret keys of their senders.
LoopsExact ==
    /\ i \in 0..Len(vin)
    /\ pubKeys \in Seq(1..(Order - 1))
    /\ phase \in {"outputs", "versions", "keys", "sum"} => result = Null
    /\ phase \in {"outputs", "versions"} => pubKeys = << >>
    /\ phase = "outputs" => i = 0
    /\ phase \in {"versions", "keys", "sum"} => EligibleVouts(vout) # {}
    /\ phase = "versions" => \A j \in 1..i : vin[j].prevOutScript.opcode \notin 82..96
    /\ phase \in {"keys", "sum"} =>
          /\ \A j \in DOMAIN vin : vin[j].prevOutScript.opcode \notin 82..96
          /\ SumOf(pubKeys) = SecretSums[i] % Order
    /\ phase = "sum" => i = Len(vin)

IndInv == InputsOfSpends /\ LoopsExact /\ MatchesSender /\ VoutsExact

=============================================================================
