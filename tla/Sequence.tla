------------------------------ MODULE Sequence ------------------------------
(***************************************************************************)
(* Sequence numbers of the reliable channels (src/channel/mod.rs).         *)
(*                                                                         *)
(* Both ends count packets without bound (i64) and put only the low bits   *)
(* of the count on the wire (u16). The receiver of a number rebuilds the   *)
(* count from the number and from a position it already knows.             *)
(*                                                                         *)
(* SeqSpace stands for 2^16, so that TLC reaches the wrap in a few packets.  *)
(***************************************************************************)
EXTENDS Integers

CONSTANT SeqSpace

ASSUME SeqSpaceAssumption == SeqSpace \in Nat \ {0}

\* The number a count travels as: `sequence as u16`.
Wire(sequence) == sequence % SeqSpace

\* The count that a number read from the wire stands for, next to `current`.
\* The two corrections are made one after the other, as in the code.
TrueIncomingSequence(packet, current, max) ==
    LET inBlock   == packet + (current - Wire(current))
        corrected == IF inBlock > current + max THEN inBlock - SeqSpace
                                                ELSE inBlock
    IN  IF corrected < current - max THEN corrected + SeqSpace ELSE corrected
=============================================================================
