-------------------------- MODULE MCReliableChannel --------------------------
(* Small instances of ReliableChannel for TLC. *)
EXTENDS ReliableChannel

CONSTANTS
    MaxSequence,   \* packets enqueued in all
    MaxAcks        \* acknowledgements on the network at one time

MCIds == 0 .. MaxSequence - 1
MCTotals == {-1} \cup 0 .. MaxFragments

Bounded == Len(ackNet') <= MaxAcks

MCNext == Next /\ Bounded
MCSpec == Init /\ [][MCNext]_vars

\* The bound on the acknowledgements never holds an action back for good:
\* DeliverAck drains them.
MCFairSpec == MCSpec /\ Fairness
=============================================================================
