----------------------- MODULE SilentBlockCodec_proofs -----------------------
(***************************************************************************)
(* The length of a silent block is the length of the bytes written, for    *)
(* every block and every size of the fields, and a client reads back the   *)
(* blocks whose counts take one byte.                                      *)
(***************************************************************************)
EXTENDS SilentBlockCodec, SequenceTheorems, WellFoundedInduction, TLAPS

-----------------------------------------------------------------------------
(* Induction, by the least counterexample *)

\* A set of natural numbers that is not empty has a least element.
LEMMA LeastElement ==
    ASSUME NEW S \in SUBSET Nat, S # {}
    PROVE  \E n \in S : \A m \in S : n <= m
  <1> DEFINE R == {ss \in Nat \X Nat : ss[1] < ss[2]}
  <1>1. IsWellFoundedOn(R, Nat)
    BY NatLessThanWellFounded DEF OpToRel
  <1>2. \A m, n \in Nat : <<m, n>> \notin R => n <= m
    OBVIOUS
  <1> HIDE DEF R
  <1>3. \E n \in S : \A m \in S : <<m, n>> \notin R
    BY <1>1, WFMin
  <1> QED
    BY <1>2, <1>3

\* A set with 0 and the successor of each of its members has every number to n.
LEMMA Upwards ==
    ASSUME NEW n \in Nat, NEW S, 0 \in S, \A k \in 0..(n - 1) : k \in S => k + 1 \in S
    PROVE  0..n \subseteq S
  <1> SUFFICES ASSUME (0..n) \ S # {} PROVE FALSE
    OBVIOUS
  <1>1. (0..n) \ S \in SUBSET Nat
    OBVIOUS
  <1>2. PICK m \in (0..n) \ S : \A k \in (0..n) \ S : m <= k
    BY <1>1, LeastElement
  <1>3. m # 0 /\ m - 1 \in 0..(n - 1)
    OBVIOUS
  <1>4. m - 1 \in S
    BY <1>2, <1>3
  <1>5. m - 1 + 1 = m
    OBVIOUS
  <1> QED
    BY <1>3, <1>4, <1>5

\* A set with n and the predecessor of each of its members has every number to n.
LEMMA Downwards ==
    ASSUME NEW n \in Nat, NEW S, n \in S, \A k \in 0..(n - 1) : k + 1 \in S => k \in S
    PROVE  0..n \subseteq S
  <1> DEFINE T == {j \in 0..n : n - j \in S}
  <1>1. 0 \in T
    OBVIOUS
  <1>2. ASSUME NEW k \in 0..(n - 1), k \in T PROVE k + 1 \in T
    <2>1. n - (k + 1) \in 0..(n - 1) /\ n - (k + 1) + 1 = n - k
      OBVIOUS
    <2> QED
      BY <1>2, <2>1
  <1>3. 0..n \subseteq T
    <2> HIDE DEF T
    <2> QED
      BY <1>1, <1>2, Upwards
  <1>4. \A k \in 0..n : n - k \in 0..n /\ n - (n - k) = k
    OBVIOUS
  <1> QED
    BY <1>3, <1>4

-----------------------------------------------------------------------------
(* Lengths *)

\* A number of outputs takes one, three, five or nine bytes.
LEMMA VarIntSizeType ==
    ASSUME NEW value
    PROVE  VarIntSize(value) \in {1, 3, 5, 9}
  BY DEF VarIntSize

\* A transaction is longer than its txid.
LEMMA TransactionLengthType ==
    ASSUME NEW outputs \in Nat
    PROVE  TransactionLength(outputs) \in Nat /\ TransactionLength(outputs) > TxidSize
  <1>1. outputs * OutputSize \in Nat
    BY SizesArePositive
  <1> QED
    BY <1>1, VarIntSizeType, SizesArePositive DEF TransactionLength

\* The lengths are what the recursion says: each is the length of a transaction
\* more than the next, back from 0 after the last.
LEMMA LengthsRecursion ==
    ASSUME NEW s \in Seq(Nat)
    PROVE  \A n \in 0..Len(s) :
              /\ Lengths(s)[n] \in Nat
              /\ Lengths(s)[n] = IF n = Len(s) THEN 0
                                 ELSE TransactionLength(s[n + 1]) + Lengths(s)[n + 1]
  <1> DEFINE N == Len(s)
             F(f) == [n \in 0..N |-> IF n = N THEN 0
                                     ELSE TransactionLength(s[n + 1]) + f[n + 1]]
             Ends(k) == {g \in [k..N -> Nat] :
                            \A n \in k..N : g[n] = IF n = N THEN 0
                                                   ELSE TransactionLength(s[n + 1]) + g[n + 1]}
             Started == {k \in 0..N : Ends(k) # {}}
  <1>0. N \in Nat /\ \A n \in 0..(N - 1) : s[n + 1] \in Nat
    OBVIOUS
  <1>1. N \in Started
    <2>1. [n \in N..N |-> 0] \in Ends(N)
      BY <1>0
    <2> HIDE DEF Ends
    <2> QED
      BY <1>0, <2>1
  <1>2. ASSUME NEW k \in 0..(N - 1), k + 1 \in Started PROVE k \in Started
    <2>1. PICK g : g \in Ends(k + 1)
      BY <1>2
    <2> DEFINE e == TransactionLength(s[k + 1]) + g[k + 1]
               h == [n \in k..N |-> IF n = k THEN e ELSE g[n]]
    <2>2. e \in Nat
      <3>1. g[k + 1] \in Nat
        BY <1>0, <2>1
      <3>2. TransactionLength(s[k + 1]) \in Nat
        BY <1>0, TransactionLengthType
      <3> QED
        BY <3>1, <3>2
    <2>3. h \in [k..N -> Nat]
      <3>1. \A n \in k..N : n = k \/ n \in (k + 1)..N
        BY <1>0
      <3> HIDE DEF e
      <3> QED
        BY <2>1, <2>2, <3>1
    <2>4. ASSUME NEW n \in k..N
          PROVE  h[n] = IF n = N THEN 0 ELSE TransactionLength(s[n + 1]) + h[n + 1]
      <3>1. CASE n = k
        <4>1. h[k + 1] = g[k + 1] /\ n # N /\ h[n] = e
          BY <1>0, <3>1
        <4> QED
          BY <3>1, <4>1
      <3>2. CASE n # k
        <4>1. n \in (k + 1)..N /\ h[n] = g[n]
          BY <1>0, <3>2
        <4>2. n # N => h[n + 1] = g[n + 1]
          BY <1>0, <3>2
        <4> HIDE DEF h
        <4> QED
          BY <2>1, <4>1, <4>2
      <3> QED
        BY <3>1, <3>2
    <2>5. h \in Ends(k)
      <3> HIDE DEF h
      <3> QED
        BY <2>3, <2>4
    <2>6. k \in 0..N
      BY <1>0
    <2> HIDE DEF Ends
    <2> QED
      BY <2>5, <2>6
  <1>3. 0 \in Started
    <2> HIDE DEF Started
    <2>1. 0..N \subseteq Started
      BY <1>0, <1>1, <1>2, Downwards
    <2> QED
      BY <1>0, <2>1
  <1>4. PICK g : g \in Ends(0)
    BY <1>3
  <1>5. g = F(g)
    BY <1>4
  <1>6. Lengths(s) = F(Lengths(s))
    <2>1. Lengths(s) = CHOOSE f : f = F(f)
      BY DEF Lengths
    <2> HIDE DEF F
    <2> QED
      BY <1>5, <2>1
  <1>7. \A n \in 0..N : Lengths(s)[n] = IF n = N THEN 0
                                        ELSE TransactionLength(s[n + 1]) + Lengths(s)[n + 1]
    BY <1>6
  <1> DEFINE Typed == {n \in 0..N : Lengths(s)[n] \in Nat}
  <1>8. N \in Typed
    BY <1>0, <1>7
  <1>9. ASSUME NEW k \in 0..(N - 1), k + 1 \in Typed PROVE k \in Typed
    <2>1. Lengths(s)[k] = TransactionLength(s[k + 1]) + Lengths(s)[k + 1]
      BY <1>0, <1>7
    <2>2. TransactionLength(s[k + 1]) \in Nat
      BY <1>0, TransactionLengthType
    <2> QED
      BY <1>0, <1>9, <2>1, <2>2
  <1>10. 0..N \subseteq Typed
    <2> HIDE DEF Typed
    <2> QED
      BY <1>0, <1>8, <1>9, Downwards
  <1> QED
    BY <1>7, <1>10

\* The length of a block and of its rest, in every state.
LEMMA LengthFacts ==
    ASSUME block \in Seq(OutputCounts)
    PROVE  /\ Len(block) \in Nat
           /\ SilentBlockLength \in Nat /\ SilentBlockLength >= 2
           /\ SilentBlockLength = 1 + VarIntSize(Len(block)) + LengthFrom(0)
           /\ LengthFrom(Len(block)) = 0
           /\ \A n \in 0..Len(block) : LengthFrom(n) \in Nat
           /\ \A n \in 0..(Len(block) - 1) :
                 /\ block[n + 1] \in Nat
                 /\ LengthFrom(n) = TransactionLength(block[n + 1]) + LengthFrom(n + 1)
  <1>1. block \in Seq(Nat) /\ Len(block) \in Nat
    <2>1. OutputCounts \subseteq Nat
      BY SizesArePositive
    <2>2. block \in Seq(Nat)
      BY <2>1, SeqMonotonic
    <2> QED
      BY <2>2
  <1>2. /\ LengthFrom(Len(block)) = 0
        /\ \A n \in 0..Len(block) : LengthFrom(n) \in Nat
        /\ \A n \in 0..(Len(block) - 1) :
              LengthFrom(n) = TransactionLength(block[n + 1]) + LengthFrom(n + 1)
    BY <1>1, LengthsRecursion DEF LengthFrom
  <1>3. \A n \in 0..(Len(block) - 1) : block[n + 1] \in Nat
    BY <1>1
  <1>4. LengthFrom(0) \in Nat /\ VarIntSize(Len(block)) \in {1, 3, 5, 9}
    BY <1>1, <1>2, VarIntSizeType
  <1>5. SilentBlockLength = 1 + VarIntSize(Len(block)) + LengthFrom(0)
    BY DEF SilentBlockLength
  <1>6. SilentBlockLength \in Nat /\ SilentBlockLength >= 2
    BY <1>4, <1>5
  <1> QED
    BY <1>1, <1>2, <1>3, <1>5, <1>6

-----------------------------------------------------------------------------
(* The buffer *)

\* A write keeps the length of the buffer and what is before it.
LEMMA PutKeeps ==
    ASSUME NEW buffer, NEW offset \in Nat, NEW values, Len(values) \in Nat
    PROVE  /\ DOMAIN Put(buffer, offset, values) = DOMAIN buffer
           /\ \A o \in DOMAIN buffer \cap Nat :
                 o < offset => Put(buffer, offset, values)[o] = buffer[o]
  BY DEF Put

\* encodeVarInt advances by varIntSize, keeps what is before the offset, and
\* writes an integer of one byte at it.
LEMMA EncodeVarIntWrites ==
    ASSUME NEW value \in Nat, NEW buffer, NEW offset \in Nat
    PROVE  LET counted == EncodeVarInt(value, buffer, offset)
           IN  /\ counted.cursor = offset + VarIntSize(value)
               /\ DOMAIN counted.bytes = DOMAIN buffer
               /\ \A o \in DOMAIN buffer \cap Nat : o < offset => counted.bytes[o] = buffer[o]
               /\ value < Marker /\ offset \in DOMAIN buffer => counted.bytes[offset] = value
  <1>1. CASE value < Marker
    <2>1. EncodeVarInt(value, buffer, offset)
            = [bytes |-> Put(buffer, offset, <<value>>), cursor |-> offset + 1]
      BY <1>1 DEF EncodeVarInt
    <2>2. offset \in DOMAIN buffer => Put(buffer, offset, <<value>>)[offset] = value
      BY DEF Put
    <2>3. VarIntSize(value) = 1
      BY <1>1 DEF VarIntSize
    <2> DEFINE buffer2 == Put(buffer, offset, <<value>>)
    <2>4. DOMAIN buffer2 = DOMAIN buffer
          /\ \A o \in DOMAIN buffer \cap Nat : o < offset => buffer2[o] = buffer[o]
      <3>1. Len(<<value>>) \in Nat
        OBVIOUS
      <3> QED
        BY <3>1, PutKeeps
    <2> HIDE DEF buffer2
    <2> QED
      BY <2>1, <2>2, <2>3, <2>4 DEF buffer2
  <1>2. CASE ~(value < Marker)
    <2>1. PICK width \in {2, 4, 8} :
            \E marker :
               /\ EncodeVarInt(value, buffer, offset)
                    = [bytes  |-> Put(Put(buffer, offset, <<marker>>),
                                      offset + width, LittleEndian(value, width)),
                       cursor |-> offset + 1 + width]
               /\ VarIntSize(value) = 1 + width
      <3> DEFINE second == value < Radix ^ 2
                 third  == value < Radix ^ 4
                 width  == IF second THEN 2 ELSE IF third THEN 4 ELSE 8
                 marker == CASE width = 2 -> Marker [] width = 4 -> Marker + 1
                             [] OTHER -> Marker + 2
      <3>1. EncodeVarInt(value, buffer, offset)
              = [bytes  |-> Put(Put(buffer, offset, <<marker>>),
                                offset + width, LittleEndian(value, width)),
                 cursor |-> offset + 1 + width]
        BY <1>2 DEF EncodeVarInt
      <3>2. VarIntSize(value) = IF second THEN 3 ELSE IF third THEN 5 ELSE 9
        BY <1>2 DEF VarIntSize
      <3> HIDE DEF second, third, marker
      <3>3. width \in {2, 4, 8} /\ VarIntSize(value) = 1 + width
        BY <3>2
      <3> QED
        BY <3>1, <3>3
    <2>5. PICK marker :
            /\ EncodeVarInt(value, buffer, offset)
                 = [bytes  |-> Put(Put(buffer, offset, <<marker>>),
                                   offset + width, LittleEndian(value, width)),
                    cursor |-> offset + 1 + width]
            /\ VarIntSize(value) = 1 + width
      BY <2>1
    <2> DEFINE first == Put(buffer, offset, <<marker>>)
               second == Put(first, offset + width, LittleEndian(value, width))
    <2>2. DOMAIN first = DOMAIN buffer
          /\ \A o \in DOMAIN buffer \cap Nat : o < offset => first[o] = buffer[o]
      <3> DEFINE values == <<marker>>
      <3>1. Len(values) \in Nat
        OBVIOUS
      <3> HIDE DEF values
      <3>2. /\ DOMAIN Put(buffer, offset, values) = DOMAIN buffer
            /\ \A o \in DOMAIN buffer \cap Nat :
                  o < offset => Put(buffer, offset, values)[o] = buffer[o]
        BY <3>1, PutKeeps
      <3>3. first = Put(buffer, offset, values)
        BY DEF values
      <3> QED
        BY <3>2, <3>3
    <2>3. DOMAIN second = DOMAIN first
          /\ \A o \in DOMAIN first \cap Nat : o < offset => second[o] = first[o]
      <3> HIDE DEF first
      <3>1. offset + width \in Nat /\ offset < offset + width
        OBVIOUS
      <3>2. Len(LittleEndian(value, width)) \in Nat
        <4> DEFINE Bytes == {LittleEndian(value, width)[i] : i \in 1..width}
        <4>1. LittleEndian(value, width) \in [1..width -> Bytes]
          BY DEF LittleEndian
        <4> HIDE DEF Bytes
        <4>2. LittleEndian(value, width) \in Seq(Bytes)
          BY <4>1, SeqDef
        <4> QED
          BY <4>2
      <3> DEFINE little == LittleEndian(value, width)
      <3> HIDE DEF little
      <3>3. DOMAIN second = DOMAIN first
            /\ \A o \in DOMAIN first \cap Nat : o < offset + width => second[o] = first[o]
        BY <3>1, <3>2, PutKeeps DEF little
      <3> HIDE DEF second
      <3> QED
        BY <3>1, <3>3
    <2> HIDE DEF first, second
    <2>4. EncodeVarInt(value, buffer, offset) = [bytes |-> second, cursor |-> offset + 1 + width]
      BY <2>5 DEF first, second
    <2> QED
      BY <1>2, <2>5, <2>2, <2>3, <2>4
  <1> QED
    BY <1>1, <1>2

\* A field is a sequence of its size.
LEMMA FillType ==
    ASSUME NEW size \in Nat
    PROVE  Len(Fill(size)) = size
  <1>1. Fill(size) \in [1..size -> {Filler}]
    BY DEF Fill
  <1>2. Fill(size) \in Seq({Filler})
    BY <1>1, SeqDef
  <1> QED
    BY <1>1, <1>2

-----------------------------------------------------------------------------
(* The inductive invariant *)

\* While the block is the same its lengths are.
LEMMA SameLengths ==
    ASSUME block' = block
    PROVE  /\ SilentBlockLength' = SilentBlockLength
           /\ \A n : LengthFrom(n)' = LengthFrom(n)
           /\ \A n : Position(n)' = Position(n)
  BY DEF SilentBlockLength, LengthFrom, Position

LEMMA InitInv == Init => IndInv
  <1> SUFFICES ASSUME Init PROVE IndInv
    OBVIOUS
  <1>1. block \in Seq(OutputCounts) /\ Len(block) \in Nat
    <2>1. block \in UNION {[1..m -> OutputCounts] : m \in 0..MaxTransactions}
      BY DEF Init, BoundedSeq, SeqOf
    <2>2. 0..MaxTransactions \subseteq Nat
      BY SizesArePositive
    <2>3. block \in Seq(OutputCounts)
      BY <2>1, <2>2, SeqDef
    <2> QED
      BY <2>3
  <1>2. DOMAIN bytes = 0..(SilentBlockLength - 1) /\ cursor = 0 /\ written = -1
    BY DEF Init
  <1> QED
    BY <1>1, <1>2 DEF IndInv, BufferAllocated, LengthExact, CountsWritten

\* The header: the rest of the buffer is what the transactions take.
LEMMA HeaderInv == IndInv /\ WriteHeader => IndInv'
  <1> SUFFICES ASSUME IndInv, WriteHeader PROVE IndInv'
    OBVIOUS
  <1> DEFINE size    == SilentBlockLength
             typed   == Put(bytes, 0, <<0>>)
             counted == EncodeVarInt(Len(block), typed, 1)
  <1>1. block' = block /\ written' = 0 /\ bytes' = counted.bytes /\ cursor' = counted.cursor
    BY DEF WriteHeader
  <1>2. block \in Seq(OutputCounts) /\ DOMAIN bytes = 0..(size - 1)
    BY DEF IndInv, BufferAllocated
  <1>3. /\ Len(block) \in Nat /\ size \in Nat /\ size >= 2
        /\ size = 1 + VarIntSize(Len(block)) + LengthFrom(0) /\ LengthFrom(0) \in Nat
    BY <1>2, LengthFacts
  <1>4. DOMAIN typed = DOMAIN bytes
    BY DEF Put
  <1>5. /\ counted.cursor = 1 + VarIntSize(Len(block))
        /\ DOMAIN counted.bytes = DOMAIN bytes
        /\ Len(block) < Marker => counted.bytes[1] = Len(block)
    <2> HIDE DEF typed
    <2>1. 1 \in DOMAIN typed
      BY <1>2, <1>3, <1>4
    <2> QED
      BY <1>3, <1>4, <2>1, EncodeVarIntWrites
  <1> HIDE DEF counted, size
  <1>6. cursor' \in Nat /\ cursor' >= 2
    BY <1>1, <1>3, <1>5, VarIntSizeType
  <1>7. BufferAllocated'
    BY <1>1, <1>2, <1>3, <1>5, <1>6, SameLengths DEF BufferAllocated, size
  <1>8. LengthExact'
    BY <1>1, <1>3, <1>5, SameLengths DEF LengthExact, size
  <1>9. CountsWritten'
    BY <1>1, <1>5, <1>6 DEF CountsWritten
  <1> QED
    BY <1>7, <1>8, <1>9 DEF IndInv

\* A transaction: as many bytes as its length, behind those written before.
LEMMA TransactionInv == IndInv /\ WriteTransaction => IndInv'
  <1> SUFFICES ASSUME IndInv, WriteTransaction PROVE IndInv'
    OBVIOUS
  <1> DEFINE size    == SilentBlockLength
             outputs == block[written + 1]
             named   == Put(bytes, cursor, Fill(TxidSize))
             counted == EncodeVarInt(outputs, named, cursor + TxidSize)
             rest    == outputs * OutputSize + ScanTweakSize
  <1>1. /\ block' = block /\ written' = written + 1
        /\ bytes' = Put(counted.bytes, counted.cursor, Fill(rest))
        /\ cursor' = counted.cursor + rest
        /\ written \in 0..(Len(block) - 1)
    BY DEF WriteTransaction
  <1>2. /\ block \in Seq(OutputCounts) /\ cursor \in Nat
        /\ DOMAIN bytes = 0..(size - 1)
        /\ cursor + LengthFrom(written) = size
        /\ cursor >= 2
    BY <1>1 DEF IndInv, BufferAllocated, LengthExact, CountsWritten
  <1>3. /\ Len(block) \in Nat /\ size \in Nat /\ outputs \in Nat
        /\ LengthFrom(written) = TransactionLength(outputs) + LengthFrom(written + 1)
        /\ LengthFrom(written) \in Nat /\ LengthFrom(written + 1) \in Nat
    BY <1>1, <1>2, LengthFacts
  <1>4. rest \in Nat /\ TxidSize \in Nat
    <2>1. outputs * OutputSize \in Nat
      BY <1>3, SizesArePositive
    <2> QED
      BY <2>1, SizesArePositive
  <1>5. /\ TransactionLength(outputs) = TxidSize + VarIntSize(outputs) + rest
        /\ TransactionLength(outputs) \in Nat /\ TransactionLength(outputs) > TxidSize
        /\ VarIntSize(outputs) \in Nat
    <2> DEFINE product == outputs * OutputSize
    <2>1. VarIntSize(outputs) \in Nat /\ product \in Nat /\ ScanTweakSize \in Nat
      BY <1>3, VarIntSizeType, SizesArePositive
    <2>2. /\ TransactionLength(outputs) = TxidSize + VarIntSize(outputs) + product + ScanTweakSize
          /\ rest = product + ScanTweakSize
      BY DEF TransactionLength
    <2>3. TransactionLength(outputs) \in Nat /\ TransactionLength(outputs) > TxidSize
      BY <1>3, TransactionLengthType
    <2> HIDE DEF product, outputs, rest
    <2>4. TransactionLength(outputs) = TxidSize + VarIntSize(outputs) + rest
      BY <1>4, <2>1, <2>2
    <2> QED
      BY <2>1, <2>3, <2>4
  <1> HIDE DEF size, outputs, rest
  <1>6. /\ DOMAIN named = DOMAIN bytes
        /\ \A o \in DOMAIN bytes \cap Nat : o < cursor => named[o] = bytes[o]
    <2>1. Len(Fill(TxidSize)) \in Nat
      BY <1>4, FillType
    <2> QED
      BY <1>2, <2>1, PutKeeps
  <1> HIDE DEF named
  <1>7. /\ counted.cursor = cursor + TxidSize + VarIntSize(outputs)
        /\ DOMAIN counted.bytes = DOMAIN named
        /\ \A o \in DOMAIN named \cap Nat :
              o < cursor + TxidSize => counted.bytes[o] = named[o]
        /\ outputs < Marker /\ cursor + TxidSize \in DOMAIN named
              => counted.bytes[cursor + TxidSize] = outputs
    <2>1. cursor + TxidSize \in Nat
      BY <1>2, <1>4
    <2> QED
      BY <1>3, <2>1, EncodeVarIntWrites
  <1> HIDE DEF counted
  <1>8. counted.cursor \in Nat /\ counted.cursor > cursor + TxidSize
    BY <1>2, <1>4, <1>7, VarIntSizeType
  <1>9. /\ DOMAIN bytes' = DOMAIN counted.bytes
        /\ \A o \in DOMAIN counted.bytes \cap Nat :
              o < counted.cursor => bytes'[o] = counted.bytes[o]
    <2>1. Len(Fill(rest)) \in Nat
      BY <1>4, FillType
    <2> QED
      BY <1>1, <1>8, <2>1, PutKeeps
  <1>10. cursor' = cursor + TransactionLength(outputs) /\ cursor' \in Nat
    BY <1>1, <1>2, <1>4, <1>5, <1>7
  <1>11. \A o \in DOMAIN bytes \cap Nat : o < cursor => bytes'[o] = bytes[o]
    BY <1>2, <1>4, <1>6, <1>7, <1>8, <1>9
  <1>12. cursor + TxidSize \in DOMAIN bytes /\ cursor + TxidSize < cursor'
    <2>1. cursor + TxidSize < cursor'
      BY <1>2, <1>4, <1>5, <1>10
    <2>2. cursor' + LengthFrom(written + 1) = size
      BY <1>2, <1>3, <1>5, <1>10
    <2>3. cursor + TxidSize \in 0..(size - 1)
      BY <1>2, <1>3, <1>4, <1>10, <2>1, <2>2
    <2> QED
      BY <1>2, <2>1, <2>3
  <1>13. outputs < Marker => bytes'[cursor + TxidSize] = outputs
    BY <1>2, <1>4, <1>6, <1>7, <1>8, <1>9, <1>12
  <1>14. BufferAllocated'
    BY <1>1, <1>2, <1>3, <1>6, <1>7, <1>9, <1>10, SameLengths DEF BufferAllocated, size
  <1>15. LengthExact'
    <2>1. cursor' + LengthFrom(written + 1) = size
      BY <1>2, <1>3, <1>5, <1>10
    <2>2. SilentBlockLength' = size /\ LengthFrom(written)' = LengthFrom(written + 1)
      BY <1>1, SameLengths DEF size
    <2> QED
      BY <2>1, <2>2 DEF LengthExact
  <1>16. CountsWritten'
    <2>1. written' >= 0 => cursor' >= 2 /\ (Len(block') < Marker => bytes'[1] = Len(block'))
      <3>1. Len(block) < Marker => bytes[1] = Len(block)
        BY <1>1 DEF IndInv, CountsWritten
      <3>2. 1 \in DOMAIN bytes
        BY <1>2, <1>3, <1>4, <1>12
      <3>3. bytes'[1] = bytes[1]
        BY <1>2, <1>11, <3>2
      <3> QED
        BY <1>1, <1>2, <1>5, <1>10, <3>1, <3>3
    <2>2. ASSUME NEW i \in 1..written'
          PROVE  /\ Position(i - 1) \in 2..(cursor' - TxidSize - 1)
                 /\ block[i] < Marker => bytes'[Position(i - 1) + TxidSize] = block[i]
      <3>1. CASE i \in 1..written
        <4>1. /\ Position(i - 1) \in 2..(cursor - TxidSize - 1)
              /\ block[i] < Marker => bytes[Position(i - 1) + TxidSize] = block[i]
          BY <3>1 DEF IndInv, CountsWritten
        <4>2. /\ Position(i - 1) + TxidSize \in DOMAIN bytes \cap Nat
              /\ Position(i - 1) + TxidSize < cursor
          BY <1>2, <1>3, <1>4, <1>12, <4>1
        <4>3. Position(i - 1) \in 2..(cursor' - TxidSize - 1)
          BY <1>2, <1>4, <1>5, <1>10, <4>1
        <4>4. bytes'[Position(i - 1) + TxidSize] = bytes[Position(i - 1) + TxidSize]
          BY <1>11, <4>2
        <4> QED
          BY <4>1, <4>3, <4>4
      <3>2. CASE i = written + 1
        <4>1. Position(i - 1) = cursor
          BY <1>1, <1>2, <1>3, <3>2 DEF Position, size
        <4>2. block[i] = outputs
          BY <3>2 DEF outputs
        <4> QED
          BY <1>2, <1>4, <1>10, <1>12, <1>13, <4>1, <4>2
      <3> QED
        BY <1>1, <3>1, <3>2
    <2>3. \A i : Position(i - 1)' = Position(i - 1)
      BY <1>1, SameLengths
    <2> QED
      BY <1>1, <2>1, <2>2, <2>3 DEF CountsWritten
  <1> QED
    BY <1>14, <1>15, <1>16 DEF IndInv

\* The invariant of the encoding.
THEOREM Invariance == Spec => []IndInv
  <1>1. IndInv /\ UNCHANGED vars => IndInv'
    <2> SUFFICES ASSUME IndInv, UNCHANGED vars PROVE IndInv'
      OBVIOUS
    <2>1. block' = block /\ bytes' = bytes /\ cursor' = cursor /\ written' = written
      BY DEF vars
    <2> QED
      BY <2>1, SameLengths DEF IndInv, BufferAllocated, LengthExact, CountsWritten
  <1>2. IndInv /\ [Next]_vars => IndInv'
    BY <1>1, HeaderInv, TransactionInv DEF Next
  <1> QED
    BY InitInv, <1>2, PTL DEF Spec

\* getSilentBlockLength allocates what encodeSilentBlock writes: no write is out
\* of range and no byte is left over.
THEOREM LengthExactness == Spec => []LengthExact
  <1>1. IndInv => LengthExact
    BY DEF IndInv
  <1> QED
    BY <1>1, Invariance, PTL

-----------------------------------------------------------------------------
(* A client *)

\* An integer of one byte is the byte.
LEMMA ReadVarIntSmall ==
    ASSUME NEW offset, offset \in Nat, Byte(offset) \in Nat, Byte(offset) < Marker
    PROVE  ReadVarInt(offset) = [value |-> Byte(offset), next |-> offset + 1]
  <1> DEFINE first == Byte(offset)
             width == CASE first < Marker     -> 0
                        [] first = Marker     -> 2
                        [] first = Marker + 1 -> 4
                        [] OTHER              -> 8
  <1>1. width = 0
    <2>1. Marker \in Int /\ first \in Nat /\ first < Marker
      BY SizesArePositive DEF Marker
    <2> HIDE DEF first
    <2> QED
      BY <2>1
  <1>2. ReadVarInt(offset) = [value |-> IF width = 0 THEN first ELSE LittleEndianAt(offset + 1, width),
                              next  |-> offset + 1 + width]
    BY DEF ReadVarInt
  <1> HIDE DEF width
  <1> QED
    BY <1>1, <1>2

\* Of a block that is written and whose counts take one byte, a client that has
\* read the first k - 1 transactions reads the k-th.
LEMMA ReadTransactionSmall ==
    ASSUME IndInv, written = Len(block), NEW k \in 1..Len(block), block[k] < Marker
    PROVE  /\ Position(k - 1) \in DOMAIN bytes
           /\ ReadTransaction([outputs |-> SubSeq(block, 1, k - 1), next |-> Position(k - 1)])
                = [outputs |-> SubSeq(block, 1, k), next |-> Position(k)]
  <1> DEFINE size  == SilentBlockLength
             start == Position(k - 1)
             count == block[k]
  <1>1. /\ block \in Seq(OutputCounts) /\ cursor \in Nat
        /\ DOMAIN bytes = 0..(size - 1)
        /\ cursor + LengthFrom(Len(block)) = size
        /\ start \in 2..(cursor - TxidSize - 1)
        /\ bytes[start + TxidSize] = count
    BY DEF IndInv, BufferAllocated, LengthExact, CountsWritten
  <1>2. /\ Len(block) \in Nat /\ size \in Nat
        /\ LengthFrom(Len(block)) = 0
        /\ LengthFrom(k - 1) = TransactionLength(count) + LengthFrom(k)
        /\ LengthFrom(k - 1) \in Nat /\ LengthFrom(k) \in Nat /\ count \in Nat
    <2>1. k - 1 \in 0..(Len(block) - 1) /\ k - 1 + 1 = k /\ k \in 0..Len(block)
          /\ k - 1 \in 0..Len(block)
      BY <1>1
    <2> QED
      BY <1>1, <2>1, LengthFacts
  <1>3. TxidSize \in Nat /\ ScanTweakSize \in Nat /\ count * OutputSize \in Nat
    BY <1>2, SizesArePositive
  <1>4. start = size - LengthFrom(k - 1) /\ Position(k) = size - LengthFrom(k)
    BY DEF Position
  <1>5. TransactionLength(count) = TxidSize + 1 + count * OutputSize + ScanTweakSize
    BY DEF TransactionLength, VarIntSize
  <1>6. Append(SubSeq(block, 1, k - 1), count) = SubSeq(block, 1, k)
    <2>1. /\ k - 1 \in 0..Len(block) /\ k - 1 + 1 = k
      BY <1>1
    <2> QED
      BY <1>1
  <1> HIDE DEF size, start, count
  <1>7. start \in DOMAIN bytes /\ start + TxidSize \in DOMAIN bytes /\ start + TxidSize \in Nat
    BY <1>1, <1>2, <1>3
  <1>8. ReadVarInt(start + TxidSize) = [value |-> count, next |-> start + TxidSize + 1]
    <2>1. Byte(start + TxidSize) = count
      BY <1>1, <1>7 DEF Byte
    <2> QED
      BY <1>2, <1>7, <2>1, ReadVarIntSmall DEF count
  <1>9. start + TxidSize + 1 + count * OutputSize + ScanTweakSize = Position(k)
    <2> DEFINE product == count * OutputSize
               length  == TransactionLength(count)
    <2>1. product \in Nat /\ length = TxidSize + 1 + product + ScanTweakSize
      BY <1>3, <1>5
    <2>2. start = size - (length + LengthFrom(k)) /\ Position(k) = size - LengthFrom(k)
      BY <1>2, <1>4
    <2> DEFINE left == LengthFrom(k)
    <2> HIDE DEF product, length, left
    <2>3. left \in Nat /\ size \in Nat /\ TxidSize \in Nat /\ ScanTweakSize \in Nat
      BY <1>2, <1>3 DEF left
    <2>4. start = size - (length + left) /\ Position(k) = size - left
      BY <2>2 DEF left
    <2>5. start + TxidSize + 1 + product + ScanTweakSize = size - left
      BY <2>1, <2>3, <2>4
    <2> QED
      BY <2>4, <2>5 DEF product
  <1> DEFINE before == SubSeq(block, 1, k - 1)
             read   == [outputs |-> before, next |-> start]
  <1>10. ReadTransaction(read)
           = [outputs |-> Append(before, count),
              next    |-> start + TxidSize + 1 + count * OutputSize + ScanTweakSize]
    BY <1>8 DEF ReadTransaction
  <1> QED
    BY <1>6, <1>7, <1>9, <1>10 DEF start

\* A block read from its start: after k transactions a client has read their
\* counts and is where the next one starts.
LEMMA ReadsSmall == IndInv => SmallBlocksRead
  <1> SUFFICES ASSUME IndInv, written = Len(block), Len(block) < Marker,
                      \A i \in 1..Len(block) : block[i] < Marker
               PROVE  Reads
    BY DEF SmallBlocksRead, Range, IndInv, BufferAllocated
  <1> DEFINE N == Len(block)
             count == [value |-> N, next |-> 2]
             Read(k) == [outputs |-> SubSeq(block, 1, k), next |-> Position(k)]
             start == [outputs |-> << >>, next |-> count.next]
             step(read) == IF read.next \in DOMAIN bytes THEN ReadTransaction(read) ELSE read
             F(f) == [k \in 0..count.value |-> IF k = 0 THEN start ELSE step(f[k - 1])]
  <1>1. block \in Seq(OutputCounts) /\ DOMAIN bytes = 0..(SilentBlockLength - 1) /\ bytes[1] = N
    BY DEF IndInv, BufferAllocated, CountsWritten
  <1>2. /\ N \in Nat /\ SilentBlockLength \in Nat /\ SilentBlockLength >= 2
        /\ SilentBlockLength = 1 + VarIntSize(N) + LengthFrom(0)
        /\ LengthFrom(N) = 0 /\ LengthFrom(0) \in Nat
    BY <1>1, LengthFacts
  <1>3. ReadVarInt(1) = count
    <2>1. Byte(1) = N
      BY <1>1, <1>2 DEF Byte
    <2> QED
      BY <1>2, <2>1, ReadVarIntSmall
  <1>4. Read(0) = start
    <2>1. VarIntSize(N) = 1
      BY DEF VarIntSize
    <2>2. Position(0) = 2
      BY <1>2, <2>1 DEF Position
    <2> QED
      BY <2>2
  <1>5. \A k \in 1..N : step(Read(k - 1)) = Read(k)
    BY ReadTransactionSmall
  <1> HIDE DEF start, step, Read
  <1>6. \E f : f = F(f)
    <2> DEFINE g == [k \in 0..N |-> Read(k)]
    <2>1. ASSUME NEW k \in 0..N PROVE g[k] = IF k = 0 THEN start ELSE step(g[k - 1])
      <3>1. CASE k = 0
        BY <1>4, <3>1
      <3>2. CASE k # 0
        <4>1. k \in 1..N /\ k - 1 \in 0..N
          BY <1>2, <3>2
        <4> QED
          BY <1>5, <3>2, <4>1
      <3> QED
        BY <3>1, <3>2
    <2>2. g = F(g)
      BY <2>1
    <2> QED
      BY <2>2
  <1> DEFINE r == CHOOSE f : f = F(f)
  <1>7. r = F(r)
    <2> HIDE DEF F
    <2> QED
      BY <1>6
  <1>8. ReadSilentBlock = r[N]
    <2>1. r = ReadsOfFirst(count)
      BY DEF ReadsOfFirst, step, start
    <2> HIDE DEF r
    <2> QED
      BY <1>3, <2>1 DEF ReadSilentBlock
  <1> HIDE DEF r
  <1>9. \A k \in 0..N : r[k] = IF k = 0 THEN start ELSE step(r[k - 1])
    BY <1>7
  <1> DEFINE Agreed == {k \in 0..N : r[k] = Read(k)}
  <1>10. 0 \in Agreed
    BY <1>2, <1>4, <1>9
  <1>11. ASSUME NEW k \in 0..(N - 1), k \in Agreed PROVE k + 1 \in Agreed
    <2>1. k + 1 \in 1..N /\ k + 1 \in 0..N /\ k + 1 # 0 /\ k + 1 - 1 = k
      BY <1>2
    <2> QED
      BY <1>5, <1>9, <1>11, <2>1
  <1>12. r[N] = Read(N)
    <2> HIDE DEF Agreed
    <2>1. 0..N \subseteq Agreed
      BY <1>2, <1>10, <1>11, Upwards
    <2> QED
      BY <1>2, <2>1 DEF Agreed
  <1>13. Read(N) = [outputs |-> block, next |-> SilentBlockLength]
    <2>1. SubSeq(block, 1, N) = block
      BY <1>1, SubSeqFull
    <2>2. Position(N) = SilentBlockLength
      BY <1>2 DEF Position
    <2> QED
      BY <2>1, <2>2 DEF Read
  <1> QED
    BY <1>3, <1>8, <1>12, <1>13 DEF Reads

\* A client that reads as the end-to-end helper reads back every block whose
\* counts are below 0xfd: the misplaced integers of the longer classes are the
\* only reason why a block is not read.
THEOREM SmallBlocksReadBack == Spec => []SmallBlocksRead
  BY Invariance, ReadsSmall, PTL

=============================================================================
