-------------------------------- MODULE Bytes --------------------------------
(***************************************************************************)
(* Numbers as bytes (src/io.rs) and the two variable-length encodings of a *)
(* length (src/varint.rs). A byte has Radix values instead of 256: just    *)
(* enough for every OP code to fit in one, with 0xFF to spare.             *)
(***************************************************************************)
EXTENDS Naturals, Sequences
LOCAL INSTANCE SequencesExt

Radix == 32
Top   == Radix - 1           \* 0xFF
U16Max == Radix * Radix - 1  \* 0xFFFF

\* write_u8, write_u16, write_u32: n in `width` bytes, big-endian.
Digits(n, width) ==
    [i \in 1 .. width |-> (n \div Radix ^ (width - i)) % Radix]

\* The reading side of the same.
Number(bytes) == FoldLeft(LAMBDA n, byte : n * Radix + byte, 0, bytes)

From(bytes, i) == SubSeq(bytes, i, Len(bytes))

-----------------------------------------------------------------------------
(* Fields one after the other, each of a width in bytes; a string, which    *)
(* ends at the first zero, has the width Text.                              *)

Text == 0

Field(value, width) ==
    IF width = Text THEN Append(value, 0) ELSE Digits(value, width)

WriteFields(values, widths) ==
    FlattenSeq([i \in DOMAIN widths |-> Field(values[i], widths[i])])

NoFields == [ok |-> FALSE, values |-> <<>>, rest |-> <<>>]

\* The next field of what is left to read, unless it ends too soon.
ReadField(read, width) ==
    LET end == IF width = Text
               THEN SelectInSeq(read.rest, LAMBDA byte : byte = 0)
               ELSE IF width <= Len(read.rest) THEN width ELSE 0
    IN  IF ~read.ok \/ end = 0 THEN NoFields
        ELSE [ok     |-> TRUE,
              values |-> Append(read.values,
                            IF width = Text THEN SubSeq(read.rest, 1, end - 1)
                            ELSE Number(SubSeq(read.rest, 1, end))),
              rest   |-> From(read.rest, end + 1)]

ReadFields(bytes, widths) ==
    FoldLeft(ReadField, [ok |-> TRUE, values |-> <<>>, rest |-> bytes], widths)

-----------------------------------------------------------------------------
(* Lengths. Sub-packets of a MultiPacket start with a zero, so that there a *)
(* single byte may be 0xFF; buffers of a data bundle may start with         *)
(* anything.                                                                *)

Longest(scheme) == IF scheme = "multi_packet" THEN Top ELSE Top - 1

\* Mutant of WriteLength: both schemes write 0xFF in one byte.
WriteLengthUniform(scheme, n) ==
    IF n <= Top THEN <<n>> ELSE <<Top>> \o Digits(n, 2)

WriteLength(scheme, n) ==
    IF n <= Longest(scheme) THEN <<n>>
    ELSE IF n < U16Max THEN <<Top>> \o Digits(n, 2)
    ELSE <<Top, Top, Top>> \o Digits(n, 4)

\* The length at the front of `bytes`, and how many bytes it takes: 0 if they
\* end within it.
ReadLength(scheme, bytes) ==
    LET At(i, byte) == i <= Len(bytes) /\ bytes[i] = byte
        Take(first, last) ==
            IF last > Len(bytes) THEN [value |-> 0, used |-> 0]
            ELSE [value |-> Number(SubSeq(bytes, first, last)), used |-> last]
    IN  IF bytes = <<>> \/ ~At(1, Top) THEN Take(1, 1)
        ELSE IF scheme = "multi_packet" /\ At(2, 0) THEN Take(1, 1)
        ELSE IF At(2, Top) /\ At(3, Top) THEN Take(4, 7)
        ELSE Take(2, 3)

\* Every length is read as it was written, in exactly the bytes it was written
\* in, on either side of each width and whatever follows: the part itself, of
\* which only a MultiPacket says that it starts with a zero. Wire's messages
\* stop short of U16Max.
ASSUME LengthsSurvive ==
    \A n \in 1 .. U16Max + Radix, scheme \in {"multi_packet", "data_bundle"} :
        \A next \in IF scheme = "multi_packet" THEN {0} ELSE 0 .. Top :
            LET written == WriteLength(scheme, n)
            IN  ReadLength(scheme, written \o <<next, Top>>)
                    = [value |-> n, used |-> Len(written)]

\* Parts one after the other, each behind its length.
Pack(scheme, parts) ==
    FlattenSeq([i \in DOMAIN parts |->
                   WriteLength(scheme, Len(parts[i])) \o parts[i]])

\* The parts of `bytes` up to the end, or to where they make no sense.
RECURSIVE Unpack(_, _, _)
Unpack(scheme, bytes, shortest) ==
    LET length == ReadLength(scheme, bytes)
        rest   == From(bytes, length.used + 1)
    IN  IF bytes = <<>> THEN [ok |-> TRUE, parts |-> <<>>]
        ELSE IF \/ length.used = 0
                \/ length.value < shortest
                \/ length.value > Len(rest)
        THEN [ok |-> FALSE, parts |-> <<>>]
        ELSE LET others == Unpack(scheme, From(rest, length.value + 1), shortest)
             IN  [others EXCEPT !.parts =
                     <<SubSeq(rest, 1, length.value)>> \o @]
=============================================================================
