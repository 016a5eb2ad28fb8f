------------------------------ MODULE Checksums ------------------------------
(***************************************************************************)
(* The two CRC-32 routines of the library: ds_crc32 (src/crc32.c), driven  *)
(* by a table and a seed computed from the byte 0xA2, and haptics_crc32    *)
(* (src/haptics.c), bit by bit from a seed written down.  The controller   *)
(* silently drops a report whose checksum it cannot confirm.               *)
(*                                                                         *)
(* A 32-bit word is the set of its bits that are 1, a byte a number.       *)
(***************************************************************************)
EXTENDS Integers, Sequences, SequencesExt, FiniteSetsExt

\* A step for every element in turn; the bound variable makes TLC take them one by one.
StepThrough(Step(_, _), crc, data) ==
    LET after[n \in 0 .. Len(data)] ==
            IF n = 0 THEN crc ELSE UNION {Step(w, data[n]) : w \in {after[n - 1]}}
    IN  after[Len(data)]

Bits(n) == {i \in 0 .. 15 : (n \div 2 ^ i) % 2 = 1}
Word32(high, low) == Bits(low) \cup {i + 16 : i \in Bits(high)}
Shift(w, k) == {i - k : i \in {j \in w : j >= k}}
Complement(w) == (0 .. 31) \ w
ByteOf(w, k) ==
    LET sum[i \in 0 .. 8] ==
            IF i = 0 THEN 0 ELSE sum[i - 1] + (IF 8 * k + i - 1 \in w THEN 2 ^ (i - 1) ELSE 0)
    IN  sum[8]

AllOnes == 0 .. 31
Polynomial == Word32(60856, 33568)                     \* 0xEDB88320
Preamble == 162                                      \* 0xA2

\* The entries of crc32_table at 1, 2, 4, ..., 128; the other 248 literals are
\* the exclusive or of those.
TablePowers == <<Word32(30471, 12438), Word32(60942, 24876), Word32(1901, 50201),
                 Word32(3803, 34866), Word32(7607, 4196), Word32(15214, 8392),
                 Word32(30428, 16784), Word32(60856, 33568)>>
crc32_table ==
    [index \in SUBSET (0 .. 7) |->
        LET entry[i \in 0 .. 8] ==
                IF i = 0 THEN {}
                ELSE IF i - 1 \in index THEN SymDiff(entry[i - 1], TablePowers[i]) ELSE entry[i - 1]
        IN  entry[8]]

TableStep(crc, byte) ==
    LET mixed == SymDiff(crc, Bits(byte))
    IN  SymDiff(Shift(mixed, 8), crc32_table[mixed \cap 0 .. 7])
\* The byte a Bluetooth report is preceded by goes into the seed.
Seed == TableStep(AllOnes, Preamble)
ds_crc32(data) == Complement(StepThrough(TableStep, Seed, data))

BitStep(crc, bit) ==
    IF 0 \in crc THEN SymDiff(Shift(crc, 1), Polynomial) ELSE Shift(crc, 1)
ByteStep(crc, byte) ==
    StepThrough(BitStep, SymDiff(crc, Bits(byte)), [bit \in 1 .. 8 |-> bit])
HapticsSeedAsWritten == Word32(60122, 11593)
HapticsSeed == Complement(Word32(60122, 11593))        \* ~0xEADA2D49
haptics_crc32(data) == Complement(StepThrough(ByteStep, HapticsSeed, data))

\* Least significant byte first.
Stored(crc) == [k \in 1 .. 4 |-> ByteOf(crc, k - 1)]

-----------------------------------------------------------------------------
\* The controller's check: the bits of preamble, data and checksum as a
\* polynomial, divided by 0x04C11DB7, leave one fixed remainder.
Remainder == Word32(50948, 56699)
LongDivision(crc, bit) ==
    LET shifted == {i + 1 : i \in crc \ {31}}
    IN  IF (31 \in crc) # bit THEN SymDiff(shifted, Word32(1217, 7607)) ELSE shifted
DivideByte(crc, byte) ==
    StepThrough(LongDivision, crc, [i \in 1 .. 8 |-> i - 1 \in Bits(byte)])
Confirmed(frame) == StepThrough(DivideByte, AllOnes, frame) = Remainder
=============================================================================
