--------------------------- MODULE ReliableOutput ---------------------------
(***************************************************************************)
(* The sending end of one reliable channel (src/channel/output.rs): the    *)
(* queue of packets not yet acknowledged, the go-back-N window over it and *)
(* the handling of acknowledgements.                                       *)
(*                                                                         *)
(* A message is known by the number of packets it is cut into. A packet is *)
(* [id, frag, total], as in ReliableInput: `id` is total_sequence when it  *)
(* was queued, which it carries as Wire(id).                               *)
(*                                                                         *)
(* Time is left out: a packet that was sent may be found overdue at any    *)
(* tick or at none, whatever the retransmit timeout. That covers every     *)
(* timeout the estimator in update_rto computes.                           *)
(***************************************************************************)
EXTENDS Sequence, SequencesExt

CONSTANTS
    MaxQueuedOutgoing,   \* OutputConfig::max_queued_outgoing
    MaxFragments         \* the most packets a message is cut into

ASSUME OutputAssumption ==
    /\ MaxQueuedOutgoing \in Nat \ {0}
    /\ MaxFragments \in Nat \ {0}

\* The number space holds both halves of the window around the highest
\* acknowledged sequence.
ASSUME OutputWindowAssumption == 2 * MaxQueuedOutgoing < SeqSpace

\* The length prefix of a packet that is not a fragment, and what stands in
\* its place in a fragment that is not a master, which nothing should read.
NoPrefix == -1
NoMaster == 0

Packet == [id : Nat, frag : BOOLEAN, total : {NoPrefix} \cup 0 .. MaxFragments]
Stashed == [packet : Packet, sent : BOOLEAN]

VARIABLES
    queue,           \* dispatch_queue
    totalSequence,   \* total_sequence
    maxClient,       \* max_client_sequence
    dispatchIndex,   \* current_dispatch_index
    outgoing         \* packets moved out: a set, for UDP keeps no order

vars == <<queue, totalSequence, maxClient, dispatchIndex, outgoing>>

Least(a, b) == IF a < b THEN a ELSE b
\* Mutant of SaturatingSub.
PlainSub(a, b) == a - b
SaturatingSub(a, b) == IF a < b THEN 0 ELSE a - b

Init ==
    /\ queue = <<>>
    /\ totalSequence = 0
    /\ maxClient = 0
    /\ dispatchIndex = 0
    /\ outgoing = {}

-----------------------------------------------------------------------------

\* Mutant of Fragment: no packet carries the length prefix.
FragmentWithoutPrefix(i, n) ==
    [id |-> totalSequence + i - 1, frag |-> n > 1, total |-> NoPrefix]

\* The i-th of the n packets of a message that starts at totalSequence.
Fragment(i, n) ==
    [id    |-> totalSequence + i - 1,
     frag  |-> n > 1,
     total |-> IF n = 1 THEN NoPrefix ELSE IF i = 1 THEN n ELSE NoMaster]

EnqueueData(n) ==
    /\ queue' = queue \o [i \in 1 .. n |->
                             [packet |-> Fragment(i, n), sent |-> FALSE]]
    /\ totalSequence' = totalSequence + n
    /\ UNCHANGED <<maxClient, dispatchIndex, outgoing>>

-----------------------------------------------------------------------------

\* Mutants of RunTick. The window is counted from the dispatch index.
RunTickFromIndex(timedOut) ==
    /\ timedOut => queue # <<>> /\ queue[1].sent
    /\ LET first == IF timedOut THEN 0 ELSE dispatchIndex
           limit == Least(Len(queue), first + MaxQueuedOutgoing)
           due   == first + 1 .. limit
       IN  /\ queue' = [i \in DOMAIN queue |->
                           IF i \in due THEN [queue[i] EXCEPT !.sent = TRUE]
                                        ELSE queue[i]]
           /\ dispatchIndex' = limit
           /\ outgoing' = outgoing \cup {queue[i].packet : i \in due}
    /\ UNCHANGED <<totalSequence, maxClient>>

\* The dispatch index does not go back when the oldest packet is overdue.
RunTickWithoutReset(timedOut) ==
    /\ timedOut => queue # <<>> /\ queue[1].sent
    /\ LET limit == Least(Len(queue), MaxQueuedOutgoing)
           due   == dispatchIndex + 1 .. limit
       IN  /\ queue' = [i \in DOMAIN queue |->
                           IF i \in due THEN [queue[i] EXCEPT !.sent = TRUE]
                                        ELSE queue[i]]
           /\ dispatchIndex' = IF dispatchIndex < limit THEN limit
                                                        ELSE dispatchIndex
           /\ outgoing' = outgoing \cup {queue[i].packet : i \in due}
    /\ UNCHANGED <<totalSequence, maxClient>>

\* One tick: if the oldest packet is overdue the whole window is due again,
\* otherwise only what was not dispatched yet.
RunTick(timedOut) ==
    /\ timedOut => queue # <<>> /\ queue[1].sent
    /\ LET first == IF timedOut THEN 0 ELSE dispatchIndex
           limit == Least(Len(queue), MaxQueuedOutgoing)
           due   == first + 1 .. limit
       IN  /\ queue' = [i \in DOMAIN queue |->
                           IF i \in due THEN [queue[i] EXCEPT !.sent = TRUE]
                                        ELSE queue[i]]
           /\ dispatchIndex' = IF first < limit THEN limit ELSE first
           /\ outgoing' = outgoing \cup {queue[i].packet : i \in due}
    /\ UNCHANGED <<totalSequence, maxClient>>

TakeOutgoing ==
    /\ outgoing # {}
    /\ outgoing' = {}
    /\ UNCHANGED <<queue, totalSequence, maxClient, dispatchIndex>>

-----------------------------------------------------------------------------

TrueIncoming(wire) == TrueIncomingSequence(wire, maxClient, MaxQueuedOutgoing)

RaiseMaxClient(sequence) ==
    maxClient' = IF sequence > maxClient THEN sequence ELSE maxClient

Queued(sequence) == \E i \in DOMAIN queue : queue[i].packet.id = sequence

\* Mutants of NotifyOfAcknowledge. The dispatch index stays behind.
NotifyOfAcknowledgeKeepingIndex(wire) ==
    LET sequence == TrueIncoming(wire)
    IN  /\ \/ \E i \in DOMAIN queue :
                 /\ queue[i].packet.id = sequence
                 /\ queue' = RemoveAt(queue, i)
           \/ /\ ~Queued(sequence)
              /\ UNCHANGED queue
        /\ RaiseMaxClient(sequence)
        /\ UNCHANGED <<dispatchIndex, totalSequence, outgoing>>

\* The dispatch index goes back even if no packet was removed.
NotifyOfAcknowledgeAlways(wire) ==
    LET sequence == TrueIncoming(wire)
    IN  /\ \/ \E i \in DOMAIN queue :
                 /\ queue[i].packet.id = sequence
                 /\ queue' = RemoveAt(queue, i)
           \/ /\ ~Queued(sequence)
              /\ UNCHANGED queue
        /\ dispatchIndex' = SaturatingSub(dispatchIndex, 1)
        /\ RaiseMaxClient(sequence)
        /\ UNCHANGED <<totalSequence, outgoing>>

NotifyOfAcknowledge(wire) ==
    LET sequence == TrueIncoming(wire)
    IN  /\ \/ \E i \in DOMAIN queue :
                 /\ queue[i].packet.id = sequence
                 /\ queue' = RemoveAt(queue, i)
                 /\ dispatchIndex' = SaturatingSub(dispatchIndex, 1)
           \/ /\ ~Queued(sequence)
              /\ UNCHANGED <<queue, dispatchIndex>>
        /\ RaiseMaxClient(sequence)
        /\ UNCHANGED <<totalSequence, outgoing>>

\* Mutant of NotifyOfAcknowledgeAll: the packet after the named one goes too.
NotifyOfAcknowledgeAllAndNext(wire) ==
    LET sequence == TrueIncoming(wire)
    IN  /\ \E n \in 0 .. Len(queue) :
              /\ \A i \in 1 .. n : queue[i].packet.id <= sequence + 1
              /\ n < Len(queue) => queue[n + 1].packet.id > sequence + 1
              /\ queue' = SubSeq(queue, n + 1, Len(queue))
              /\ dispatchIndex' = SaturatingSub(dispatchIndex, n)
        /\ RaiseMaxClient(sequence)
        /\ UNCHANGED <<totalSequence, outgoing>>

\* The packets are popped one by one from the front while they are covered.
NotifyOfAcknowledgeAll(wire) ==
    LET sequence == TrueIncoming(wire)
    IN  /\ \E n \in 0 .. Len(queue) :
              /\ \A i \in 1 .. n : queue[i].packet.id <= sequence
              /\ n < Len(queue) => queue[n + 1].packet.id > sequence
              /\ queue' = SubSeq(queue, n + 1, Len(queue))
              /\ dispatchIndex' = SaturatingSub(dispatchIndex, n)
        /\ RaiseMaxClient(sequence)
        /\ UNCHANGED <<totalSequence, outgoing>>

-----------------------------------------------------------------------------

\* Any remote: it acknowledges any number at any time.
Next ==
    \/ \E n \in 1 .. MaxFragments : EnqueueData(n)
    \/ \E timedOut \in BOOLEAN : RunTick(timedOut)
    \/ TakeOutgoing
    \/ \E wire \in 0 .. SeqSpace - 1 :
          \/ NotifyOfAcknowledge(wire)
          \/ NotifyOfAcknowledgeAll(wire)

Spec == Init /\ [][Next]_vars

-----------------------------------------------------------------------------
(* Correctness. *)

\* Every variable stays in its range.
TypeOK ==
    /\ queue \in Seq(Stashed)
    /\ totalSequence \in Nat
    /\ maxClient \in Nat
    /\ dispatchIndex \in Nat
    /\ outgoing \subseteq Packet

\* The queue holds packets in the order they were numbered, none that is yet to
\* come, and all those above the highest sequence the remote acknowledged: an
\* acknowledgement, however it is read, releases nothing beyond what it names.
QueueIsOrderedTail ==
    /\ \A i, j \in DOMAIN queue :
          i < j => queue[i].packet.id < queue[j].packet.id
    /\ \A i \in DOMAIN queue : queue[i].packet.id < totalSequence
    /\ \A sequence \in 0 .. totalSequence - 1 :
          sequence > maxClient => Queued(sequence)

\* The dispatch index follows the queue through every acknowledgement, from
\* the front, from the middle, or of packets not yet dispatched. What lies
\* before it was dispatched, so a tick never passes over a packet; it stays
\* within the window; and what is in flight are the oldest packets of the
\* queue, at most max_queued_outgoing of them.
NothingPassedOver ==
    /\ dispatchIndex <= Least(Len(queue), MaxQueuedOutgoing)
    /\ \A i \in 1 .. dispatchIndex : queue[i].sent
    /\ \A i \in DOMAIN queue : queue[i].sent => i <= MaxQueuedOutgoing
=============================================================================
