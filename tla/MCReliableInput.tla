--------------------------- MODULE MCReliableInput ---------------------------
(* Small instances of ReliableInput for TLC. *)
EXTENDS ReliableInput

CONSTANTS
    LastId,        \* the highest count the remote uses
    MaxLength,     \* the highest length prefix it writes
    MaxOutgoing    \* acknowledgements left waiting at one time

MCIds == 0 .. LastId
MCTotals == {NoPrefix} \cup 1 .. MaxLength

\* Bounds the acknowledgements that wait to be taken.
Bounded == Len(outgoing') <= MaxOutgoing

MCNext == Next /\ Bounded
MCSpec == Init /\ [][MCNext]_vars
=============================================================================
