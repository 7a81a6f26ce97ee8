--------------------------- MODULE ReliableChannel ---------------------------
(***************************************************************************)
(* One direction of one reliable channel between two sessions: the output  *)
(* channel of one end, the input channel of the other, and UDP between.    *)
(* The two directions and the channels share no state.                     *)
(*                                                                         *)
(* Data packets are lost, repeated and reordered. Acknowledgements are     *)
(* lost, if AcksMayBeLost, but keep their order: even so gentle a network  *)
(* is enough to separate the windows that work from those that do not.     *)
(*                                                                         *)
(* A session ticks its channels and flushes them into datagrams in one     *)
(* call (session.rs:468-491, 716-752), so what a channel's `outgoing`      *)
(* holds is on the network.                                                *)
(***************************************************************************)
EXTENDS Integers, Sequences, FiniteSets

CONSTANTS
    SeqSpace, MaxQueuedIncoming, AcknowledgeAllData, DataAckWindow,
    MaxAckDelay, MaxQueuedOutgoing, MaxFragments,
    Ids, Totals,         \* the counts and length prefixes packets have
    AcksMayBeLost

VARIABLES
    windowStart, stash, buffer, expected, appData, corrupt, lastAckAll, ackAge,
    queue, totalSequence, maxClient, dispatchIndex,
    dataNet,    \* data packets on the network
    ackNet,     \* acknowledgements on the network, oldest first
    accepted    \* the messages enqueued so far, each the sequence of its ids

In  == INSTANCE ReliableInput WITH outgoing <- ackNet
Out == INSTANCE ReliableOutput WITH outgoing <- dataNet

\* What the two channels assume of their configurations, and that what the
\* sender writes as a length prefix is among the prefixes there are.
ASSUME ChannelAssumption ==
    /\ In!SeqSpaceAssumption
    /\ In!InputAssumption /\ In!InputWindowAssumption
    /\ Out!OutputAssumption /\ Out!OutputWindowAssumption
    /\ {-1} \cup 0 .. MaxFragments \subseteq Totals

receiver == <<windowStart, stash, buffer, expected, appData, corrupt,
              lastAckAll, ackAge>>
sender == <<queue, totalSequence, maxClient, dispatchIndex>>
vars == <<receiver, sender, dataNet, ackNet, accepted>>

Init ==
    /\ In!Init
    /\ Out!Init
    /\ accepted = <<>>

-----------------------------------------------------------------------------

\* Ids bounds the packets there are; it is all of Nat but for TLC.
Enqueue(n) ==
    /\ \A i \in 1 .. n : totalSequence + i - 1 \in Ids
    /\ Out!EnqueueData(n)
    /\ accepted' = Append(accepted, [i \in 1 .. n |-> totalSequence + i - 1])
    /\ UNCHANGED <<receiver, ackNet>>

SenderTick(timedOut) ==
    /\ Out!RunTick(timedOut)
    /\ UNCHANGED <<receiver, ackNet, accepted>>

ReceiverTick ==
    /\ In!RunTick
    /\ UNCHANGED <<sender, dataNet, accepted>>

Elapse ==
    /\ In!Elapse
    /\ UNCHANGED <<sender, dataNet, accepted>>

-----------------------------------------------------------------------------
(* The network. *)

\* A packet arrives, and the network may or may not have another copy of it.
DeliverData(packet) ==
    /\ packet \in dataNet
    /\ In!Receive(packet)
    /\ \/ UNCHANGED dataNet
       \/ dataNet' = dataNet \ {packet}
    /\ UNCHANGED <<sender, accepted>>

LoseData(packet) ==
    /\ packet \in dataNet
    /\ dataNet' = dataNet \ {packet}
    /\ UNCHANGED <<receiver, sender, ackNet, accepted>>

DeliverAck ==
    /\ ackNet # <<>>
    /\ ackNet' = Tail(ackNet)
    /\ LET ack == Head(ackNet)
       IN  \/ /\ ack.op = "Acknowledge"
              /\ Out!NotifyOfAcknowledge(Out!Wire(ack.seq))
           \/ /\ ack.op = "AcknowledgeAll"
              /\ Out!NotifyOfAcknowledgeAll(Out!Wire(ack.seq))
    /\ UNCHANGED <<receiver, accepted>>

LoseAck ==
    /\ AcksMayBeLost
    /\ ackNet # <<>>
    /\ ackNet' = Tail(ackNet)
    /\ UNCHANGED <<receiver, sender, dataNet, accepted>>

Next ==
    \/ \E n \in 1 .. MaxFragments : Enqueue(n)
    \/ \E timedOut \in BOOLEAN : SenderTick(timedOut)
    \/ ReceiverTick
    \/ Elapse
    \/ \E packet \in dataNet : DeliverData(packet) \/ LoseData(packet)
    \/ DeliverAck
    \/ LoseAck

Spec == Init /\ [][Next]_vars

(***************************************************************************)
(* A driver ticks its sessions over and over, so a packet that stays       *)
(* unacknowledged is found overdue again and again (the retransmit timeout *)
(* is at most eight seconds) and due acknowledgements are sent; the clock  *)
(* advances. The network does not lose the same packet for ever, nor every *)
(* acknowledgement. Nobody is obliged to enqueue anything.                 *)
(***************************************************************************)
Fairness ==
    /\ \A timedOut \in BOOLEAN : WF_vars(SenderTick(timedOut))
    /\ WF_vars(ReceiverTick)
    /\ WF_vars(Elapse)
    /\ \A id \in Ids :
          SF_vars(\E packet \in dataNet : packet.id = id /\ DeliverData(packet))
    /\ SF_vars(DeliverAck)

FairSpec == Spec /\ Fairness

-----------------------------------------------------------------------------
(* Correctness. *)

Held(sequence) ==
    \/ sequence < windowStart
    \/ \E slot \in DOMAIN stash : stash[slot].id = sequence

\* Every packet the sender gave up, because it took it for acknowledged, is
\* held by the receiver. The sender reads an acknowledgement relative to the
\* highest one it knows and the receiver writes it relative to its own
\* window, so this is a property of the two windows together.
NothingLost ==
    \A sequence \in 0 .. totalSequence - 1 :
        Out!Queued(sequence) \/ Held(sequence)

\* The sender never takes an acknowledgement for one of a packet that the
\* receiver has yet to see.
MaxClientWasReceived == maxClient > 0 => Held(maxClient)

\* What was dispatched and what lies before the dispatch index are the same:
\* nothing is sent again before it is overdue, whichever acknowledgements
\* arrive from the middle of the window.
DispatchIndexExact ==
    \A i \in DOMAIN queue : queue[i].sent <=> i <= dispatchIndex

\* A remote that is this implementation never looks malformed.
NeverCorrupt == ~corrupt

Stream == INSTANCE ReliableStream WITH
              Messages <- {[i \in 1 .. n |-> first + i - 1] :
                              first \in Ids, n \in 1 .. MaxFragments},
              delivered <- appData

\* The application is given the messages that were enqueued, whole, in order
\* and each once.
ImplementsStream == Stream!Spec

\* Lossless is a liveness promise too (session.rs:73-74, "each acknowledged
\* and retransmitted"): every message enqueued is eventually delivered, the
\* ones held back by the send window included.
EverythingDelivered ==
    \A n \in 1 .. Cardinality(Ids) :
        Len(accepted) >= n ~> Len(appData) >= n

\* Retransmission ends: every packet is eventually off the sender's queue.
EverythingAcknowledged == \A id \in Ids : Out!Queued(id) ~> ~Out!Queued(id)
=============================================================================
