-------------------------- MODULE SilentBlockCodec --------------------------
(***************************************************************************)
(* The bytes of a silent block: encodeSilentBlock of SilentBlocksService   *)
(* with the variable-length integers of src/common/common.ts, and how a    *)
(* client reads them.  A block is given by its transactions' numbers of    *)
(* outputs; what a field holds is one filler byte repeated.  The sizes are *)
(* parameters, so that small ones reach every class of integers.           *)
(***************************************************************************)
EXTENDS Integers, Sequences, SequencesExt

CONSTANTS
    Radix,            \* values of a byte: 256
    TxidSize,         \* 32
    OutputSize,       \* 8 of the value, 32 of the public key, 4 of the vout
    ScanTweakSize,    \* 33
    Filler,           \* the byte the fields hold
    OutputCounts,     \* numbers of outputs a transaction may have
    MaxTransactions

ASSUME SizesArePositive ==
    /\ Radix \in Nat /\ Radix > 3
    /\ {TxidSize, OutputSize, ScanTweakSize, MaxTransactions} \subseteq Nat \ {0}
    /\ Filler \in 0..(Radix - 1)
    /\ OutputCounts \subseteq Nat \ {0}

VARIABLES
    block,    \* block[i]: the number of outputs of the i-th transaction
    bytes,    \* the buffer: bytes[o] is the byte at offset o
    cursor,
    written   \* transactions written; -1 before the header

vars == <<block, bytes, cursor, written>>

\* The least integer that takes more than one byte: 0xfd.
Marker == Radix - 3

-----------------------------------------------------------------------------
(* Variable-length integers *)

\* Fault: 0xfd is taken for a single byte.
VarIntSizeOffByOne(value) ==
    IF value <= Marker THEN 1 ELSE IF value < Radix ^ 2 THEN 3
    ELSE IF value < Radix ^ 4 THEN 5 ELSE 9

VarIntSize(value) ==
    IF value < Marker THEN 1 ELSE IF value < Radix ^ 2 THEN 3
    ELSE IF value < Radix ^ 4 THEN 5 ELSE 9

LittleEndian(value, width) == [i \in 1..width |-> (value \div Radix ^ (i - 1)) % Radix]

\* A write past the end of a Node.js buffer throws; LengthExact says none does.
Put(buffer, offset, values) ==
    [o \in DOMAIN buffer |->
        IF o \in offset..(offset + Len(values) - 1) THEN values[o - offset + 1] ELSE buffer[o]]

\* The integer after the marker byte goes to offset + 2, + 4 or + 8 by its
\* width, and the offset returned counts the marker and the width.
EncodeVarInt(value, buffer, offset) ==
    IF value < Marker
    THEN [bytes |-> Put(buffer, offset, <<value>>), cursor |-> offset + 1]
    ELSE LET width  == IF value < Radix ^ 2 THEN 2 ELSE IF value < Radix ^ 4 THEN 4 ELSE 8
             marker == CASE width = 2 -> Marker [] width = 4 -> Marker + 1 [] OTHER -> Marker + 2
         IN  [bytes  |-> Put(Put(buffer, offset, <<marker>>),
                             offset + width, LittleEndian(value, width)),
              cursor |-> offset + 1 + width]

-----------------------------------------------------------------------------
(* Silent blocks *)

TransactionLength(outputs) ==
    TxidSize + VarIntSize(outputs) + outputs * OutputSize + ScanTweakSize

\* The lengths of the transactions after the first n, for every n.
Lengths(transactions) ==
    LET length[n \in 0..Len(transactions)] ==
            IF n = Len(transactions) THEN 0
            ELSE TransactionLength(transactions[n + 1]) + length[n + 1]
    IN  length

LengthFrom(n) == Lengths(block)[n]

SilentBlockLength == 1 + VarIntSize(Len(block)) + LengthFrom(0)

Fill(size) == [i \in 1..size |-> Filler]

\* Fault: the tweak goes before the outputs it belongs after.
WriteTransactionTweakFirst ==
    /\ written \in 0..(Len(block) - 1)
    /\ LET outputs == block[written + 1]
           tweaked == Put(bytes, cursor, Fill(TxidSize + ScanTweakSize))
           counted == EncodeVarInt(outputs, tweaked, cursor + TxidSize + ScanTweakSize)
           size    == outputs * OutputSize
       IN  /\ bytes' = Put(counted.bytes, counted.cursor, Fill(size))
           /\ cursor' = counted.cursor + size
    /\ written' = written + 1
    /\ UNCHANGED block

Init ==
    /\ block \in BoundedSeq(OutputCounts, MaxTransactions)
    /\ bytes = [o \in 0..(SilentBlockLength - 1) |-> 0]
    /\ cursor = 0
    /\ written = -1

\* The type, 0, and the number of transactions.
WriteHeader ==
    /\ written = -1
    /\ LET counted == EncodeVarInt(Len(block), Put(bytes, 0, <<0>>), 1)
       IN  bytes' = counted.bytes /\ cursor' = counted.cursor
    /\ written' = 0
    /\ UNCHANGED block

\* The txid, the number of outputs, the outputs and the tweak.
WriteTransaction ==
    /\ written \in 0..(Len(block) - 1)
    /\ LET outputs == block[written + 1]
           counted == EncodeVarInt(outputs, Put(bytes, cursor, Fill(TxidSize)), cursor + TxidSize)
           size    == outputs * OutputSize + ScanTweakSize
       IN  /\ bytes' = Put(counted.bytes, counted.cursor, Fill(size))
           /\ cursor' = counted.cursor + size
    /\ written' = written + 1
    /\ UNCHANGED block

Next == WriteHeader \/ WriteTransaction

Spec == Init /\ [][Next]_vars

-----------------------------------------------------------------------------
(* A client *)

Byte(offset) == IF offset \in DOMAIN bytes THEN bytes[offset] ELSE 0

LittleEndianAt(offset, width) ==
    FoldLeft(LAMBDA value, i : value + Byte(offset + i - 1) * Radix ^ (i - 1), 0,
             [i \in 1..width |-> i])

\* readVarInt, with the offset after the integer.
ReadVarInt(offset) ==
    LET first == Byte(offset)
        width == CASE first < Marker     -> 0
                   [] first = Marker     -> 2
                   [] first = Marker + 1 -> 4
                   [] OTHER              -> 8
    IN  [value |-> IF width = 0 THEN first ELSE LittleEndianAt(offset + 1, width),
         next  |-> offset + 1 + width]

ReadTransaction(read) ==
    LET count == ReadVarInt(read.next + TxidSize)
    IN  [outputs |-> Append(read.outputs, count.value),
         next    |-> count.next + count.value * OutputSize + ScanTweakSize]

\* The numbers of outputs of the first k transactions and the offset after
\* them, for every k; a client gives up at the end of the bytes.
ReadsOfFirst(count) ==
    LET read[k \in 0..count.value] ==
            IF k = 0 THEN [outputs |-> << >>, next |-> count.next]
            ELSE IF read[k - 1].next \in DOMAIN bytes THEN ReadTransaction(read[k - 1])
            ELSE read[k - 1]
    IN  read

ReadSilentBlock == LET count == ReadVarInt(1) IN ReadsOfFirst(count)[count.value]

Reads ==
    /\ ReadVarInt(1).value = Len(block)
    /\ ReadSilentBlock = [outputs |-> block, next |-> SilentBlockLength]

-----------------------------------------------------------------------------
(* Properties *)

\* The length computed beforehand is the length written: at every point the
\* cursor and the rest of the block make up the buffer, so that no write is out
\* of range and no byte is left over.
LengthExact ==
    written >= 0 => cursor + LengthFrom(written) = SilentBlockLength

\* A client reads a block back whose every count is below 0xfd.
SmallBlocksRead ==
    (/\ written = Len(block)
     /\ \A count \in {Len(block)} \cup Range(block) : count < Marker) => Reads

\* Where the transactions after the first n start.
Position(n) == SilentBlockLength - LengthFrom(n)

\* The buffer keeps the length it was allocated with.
BufferAllocated ==
    /\ block \in Seq(OutputCounts)
    /\ written \in -1..Len(block)
    /\ cursor \in Nat
    /\ DOMAIN bytes = 0..(SilentBlockLength - 1)

\* The counts written are in the buffer where a client looks for them, and the
\* writes to come are behind them.
CountsWritten ==
    /\ written >= 0 => cursor >= 2 /\ (Len(block) < Marker => bytes[1] = Len(block))
    /\ \A i \in 1..written :
          /\ Position(i - 1) \in 2..(cursor - TxidSize - 1)
          /\ block[i] < Marker => bytes[Position(i - 1) + TxidSize] = block[i]

IndInv == BufferAllocated /\ LengthExact /\ CountsWritten

\* What the documentation promises (docs/design.md: "A varint specifying the
\* number of transactions in a silent block") and the end-to-end helper
\* readVarInt reads: a client reads every block back.
BlocksRead == written = Len(block) => Reads

=============================================================================
