--------------------------- MODULE ReliableStream ---------------------------
(***************************************************************************)
(* What a reliable channel promises an application (src/session.rs:73-74,  *)
(* "independent ordered, lossless reliable channels"): the messages handed *)
(* to one end come out at the other, whole, in order, each once.           *)
(***************************************************************************)
EXTENDS Sequences, Naturals

CONSTANT Messages

VARIABLES
    accepted,    \* messages the sending application handed over
    delivered    \* messages the receiving application was given

Init ==
    /\ accepted = <<>>
    /\ delivered = <<>>

Accept(message) ==
    /\ accepted' = Append(accepted, message)
    /\ UNCHANGED delivered

\* One datagram may complete several messages: those it was holding up.
Deliver(n) ==
    /\ Len(delivered) + n <= Len(accepted)
    /\ delivered' = SubSeq(accepted, 1, Len(delivered) + n)
    /\ UNCHANGED accepted

Next ==
    \/ \E message \in Messages : Accept(message)
    \/ \E n \in 1 .. Len(accepted) : Deliver(n)

Spec == Init /\ [][Next]_<<accepted, delivered>>
=============================================================================
