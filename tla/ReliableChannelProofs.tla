------------------------ MODULE ReliableChannelProofs ------------------------
(***************************************************************************)
(* One direction of a reliable channel end to end, for every message,      *)
(* window and number space: the channel implements a stream of messages,   *)
(* and, when the receiving window is the smaller one, loses nothing.       *)
(***************************************************************************)
EXTENDS ReliableChannel, SequenceTheorems, TLAPS

InP  == INSTANCE ReliableInputProofs WITH outgoing <- ackNet

\* The sender's proofs come with a clock that this module has no use for: what
\* is taken from them is about the queue alone, and any clock will do.
OutP == INSTANCE TimedOutputProofs
           WITH outgoing <- dataNet,
                AckWait <- 1, RtoMin <- 1, RtoMax <- 1, Granularity <- 1,
                MaxAge <- 2,
                age <- <<>>, resent <- {}, srtt <- -1, rttvar <- 0, rto <- 1,
                dispatches <- <<>>, sinceReset <- 0

\* A receiver takes one packet more than max_queued_incoming ahead of what it
\* waits for (input.rs:240-250), so an acknowledgement can be this much behind
\* the one that arrived before it. The sender reads it right if that is within
\* its own window. With equal windows it is not, and the code checks neither.
WindowsFit == MaxQueuedIncoming < MaxQueuedOutgoing

-----------------------------------------------------------------------------
(* The inductive invariant, in two parts. Whatever the windows, each       *)
(* channel keeps its own,                                                  *)

\* every packet, wherever it is, is one of an accepted message,
PacketsCarry ==
    /\ \A i \in DOMAIN queue : InP!Carries(queue[i].packet, accepted)
    /\ \A packet \in dataNet : InP!Carries(packet, accepted)
    /\ InP!StashCarries(accepted)

\* and the receiver has taken in a beginning of the accepted messages.
ReceiverFollows ==
    /\ InP!Numbered(accepted, totalSequence)
    /\ InP!Follows(InP!Reassembly, accepted, totalSequence, windowStart)

StreamInv ==
    /\ InP!InputInv
    /\ OutP!OutputInvariant
    /\ PacketsCarry
    /\ ReceiverFollows

\* With windows that fit, also: the packets above maxClient fill the end of
\* the queue without a gap;
QueueIsContiguous ==
    \A i \in DOMAIN queue :
        queue[i].packet.id > maxClient =>
            queue[i].packet.id = totalSequence - Len(queue) + i - 1

\* what the receiver holds, or may still be given, was dispatched, and so
\* lies no further ahead of maxClient than the sender's window;
Seen(sequence) ==
    \/ InP!Holds(sequence)
    \/ \E packet \in dataNet : packet.id = sequence

SeenWasSent ==
    \A sequence \in Nat : Seen(sequence) =>
        /\ sequence < totalSequence
        /\ sequence <= maxClient + MaxQueuedOutgoing
        /\ \A i \in DOMAIN queue :
              queue[i].packet.id = sequence => queue[i].sent

\* and no acknowledgement on the network is further behind maxClient, or
\* behind one that was sent before it, than the receiver's window.
AcksAreRecent ==
    /\ \A i \in DOMAIN ackNet :
          /\ ackNet[i].seq >= 0
          /\ maxClient <= ackNet[i].seq + MaxQueuedIncoming + 1
    /\ \A i, j \in DOMAIN ackNet : i < j =>
          ackNet[i].seq <= ackNet[j].seq + MaxQueuedIncoming + 1
    /\ maxClient <= windowStart + MaxQueuedIncoming
    /\ lastAckAll >= -1

WindowInv ==
    /\ QueueIsContiguous
    /\ SeenWasSent
    /\ AcksAreRecent
    /\ DispatchIndexExact
    /\ MaxClientWasReceived
    /\ NothingLost

-----------------------------------------------------------------------------
(* The modules of the proofs define the channels again.                    *)

LEMMA InputAssumptions ==
    InP!SeqSpaceAssumption /\ InP!InputAssumption /\ InP!InputWindowAssumption
BY ChannelAssumption
   DEF In!SeqSpaceAssumption, InP!SeqSpaceAssumption,
       In!InputAssumption, InP!InputAssumption, In!NoPrefix, InP!NoPrefix,
       In!InputWindowAssumption, InP!InputWindowAssumption

LEMMA OutputAssumptions ==
    /\ OutP!SeqSpaceAssumption /\ OutP!OutputAssumption
    /\ OutP!OutputWindowAssumption /\ OutP!TimeAssumption
BY ChannelAssumption
   DEF Out!SeqSpaceAssumption, OutP!SeqSpaceAssumption, In!SeqSpaceAssumption,
       Out!OutputAssumption, OutP!OutputAssumption, OutP!TimeAssumption,
       Out!OutputWindowAssumption, OutP!OutputWindowAssumption

LEMMA SameInput ==
    /\ In!Init <=> InP!Init
    /\ \A packet : In!Receive(packet) <=> InP!Receive(packet)
    /\ In!RunTick <=> InP!RunTick
    /\ In!Elapse <=> InP!Elapse
<1>1. In!NoPrefix = InP!NoPrefix /\ In!Empty = InP!Empty /\ In!Slots = InP!Slots
  BY DEF In!NoPrefix, InP!NoPrefix, In!Empty, InP!Empty, In!Slots, InP!Slots
<1>2. In!Init <=> InP!Init
  BY <1>1 DEF In!Init, InP!Init
<1>3. ASSUME NEW packet
      PROVE  In!Receive(packet) <=> InP!Receive(packet)
  <2>1. In!SequenceOf(packet) = InP!SequenceOf(packet)
    BY DEF In!SequenceOf, InP!SequenceOf, In!TrueIncomingSequence,
           InP!TrueIncomingSequence, In!Wire, InP!Wire
  <2>2. /\ \A s : In!Slot(s) = InP!Slot(s)
        /\ \A s : In!SendAckAll(s) <=> InP!SendAckAll(s)
        /\ \A s : In!AcknowledgePacket(s) <=> InP!AcknowledgePacket(s)
        /\ In!WithinLifetime(packet) <=> InP!WithinLifetime(packet)
    BY DEF In!Slot, InP!Slot, In!SendAckAll, InP!SendAckAll,
           In!AcknowledgePacket, InP!AcknowledgePacket,
           In!WithinLifetime, InP!WithinLifetime
  <2>3. In!DropTooFarAhead(packet) <=> InP!DropTooFarAhead(packet)
    BY <2>1 DEF In!DropTooFarAhead, InP!DropTooFarAhead, In!vars, InP!vars,
                In!reassembly, InP!reassembly
  <2>4. In!DropAlreadyProcessed(packet) <=> InP!DropAlreadyProcessed(packet)
    BY <2>1 DEF In!DropAlreadyProcessed, InP!DropAlreadyProcessed,
                In!reassembly, InP!reassembly, In!SendAckAll, InP!SendAckAll
  <2>5. In!StashAhead(packet) <=> InP!StashAhead(packet)
    BY <1>1, <2>1, <2>2 DEF In!StashAhead, InP!StashAhead,
                In!reassembly, InP!reassembly
  <2>6. In!ProcessInOrder(packet) <=> InP!ProcessInOrder(packet)
    <3>1. \A r, packets : In!Absorbed(r, packets) = InP!Absorbed(r, packets)
      BY DEF In!Absorbed, InP!Absorbed, In!Absorb, InP!Absorb,
             In!NoPrefix, InP!NoPrefix
    <3>2. /\ \A n : In!StashedRun(n) = InP!StashedRun(n)
          /\ In!Reassembly = InP!Reassembly
      BY <2>2 DEF In!StashedRun, InP!StashedRun, In!Reassembly, InP!Reassembly,
                  In!Slot, InP!Slot
    <3> QED
      BY <1>1, <2>1, <2>2, <3>1, <3>2 DEF In!ProcessInOrder, InP!ProcessInOrder
  <2> QED
    BY <2>2, <2>3, <2>4, <2>5, <2>6
    DEF In!Receive, InP!Receive, In!HandleReliable, InP!HandleReliable
<1>4. (In!RunTick <=> InP!RunTick) /\ (In!Elapse <=> InP!Elapse)
  BY DEF In!RunTick, InP!RunTick, In!Elapse, InP!Elapse,
              In!reassembly, InP!reassembly,
              In!AckAllDue, InP!AckAllDue, In!SendAckAll, InP!SendAckAll
<1> QED
  BY <1>2, <1>3, <1>4

LEMMA SameOutput ==
    /\ Out!Init <=> OutP!Init
    /\ \A n : Out!EnqueueData(n) <=> OutP!EnqueueData(n)
    /\ \A timedOut : Out!RunTick(timedOut) <=> OutP!RunTick(timedOut)
    /\ \A wire : Out!NotifyOfAcknowledge(wire) <=> OutP!NotifyOfAcknowledge(wire)
    /\ \A wire : Out!NotifyOfAcknowledgeAll(wire)
                     <=> OutP!NotifyOfAcknowledgeAll(wire)
    /\ \A s : Out!Wire(s) = OutP!Wire(s) /\ (Out!Queued(s) <=> OutP!Queued(s))
BY DEF Out!Init, OutP!Init, Out!EnqueueData, OutP!EnqueueData,
       Out!Fragment, OutP!Fragment, Out!NoPrefix, OutP!NoPrefix,
       Out!NoMaster, OutP!NoMaster, Out!RunTick, OutP!RunTick,
       Out!Least, OutP!Least, Out!Wire, OutP!Wire, Out!Queued, OutP!Queued,
       Out!NotifyOfAcknowledge, OutP!NotifyOfAcknowledge,
       Out!NotifyOfAcknowledgeAll, OutP!NotifyOfAcknowledgeAll,
       Out!TrueIncoming, OutP!TrueIncoming, Out!RaiseMaxClient,
       OutP!RaiseMaxClient, Out!SaturatingSub, OutP!SaturatingSub,
       Out!RemoveAt, OutP!RemoveAt,
       Out!TrueIncomingSequence, OutP!TrueIncomingSequence

-----------------------------------------------------------------------------
(* What the invariant says of the variables.                               *)

LEMMA ChannelTypes ==
    ASSUME StreamInv
    PROVE  /\ MaxQueuedIncoming \in Nat \ {0} /\ MaxQueuedOutgoing \in Nat \ {0}
           /\ windowStart \in Nat /\ lastAckAll \in Int
           /\ stash \in [InP!Slots -> InP!Packet \cup {InP!Empty}]
           /\ ackNet \in Seq(InP!Ack)
           /\ appData \in Seq(Seq(Ids))
           /\ totalSequence \in Nat /\ maxClient \in Nat /\ dispatchIndex \in Nat
           /\ dataNet \subseteq OutP!Packet
           /\ queue \in Seq(OutP!Stashed)
           /\ accepted \in Seq(Seq(Ids))
BY InputAssumptions, OutputAssumptions
   DEF StreamInv, InP!InputInv, InP!TypeOK, InP!InputAssumption,
       OutP!OutputInvariant, OutP!TypeOK, OutP!OutputAssumption,
       ReceiverFollows, InP!Numbered

LEMMA QueueTypes ==
    ASSUME StreamInv
    PROVE  /\ Len(queue) \in Nat /\ DOMAIN queue = 1 .. Len(queue)
           /\ \A i \in 1 .. Len(queue) : /\ queue[i].packet.id \in Nat
                                         /\ queue[i].packet \in OutP!Packet
                                         /\ queue[i].sent \in BOOLEAN
           /\ dispatchIndex <= Len(queue)
           /\ \A i \in 1 .. Len(queue) : queue[i].packet.id < totalSequence
           /\ \A i, j \in 1 .. Len(queue) :
                 queue[i].packet.id = queue[j].packet.id => i = j
<1>1. queue \in Seq(OutP!Stashed) /\ totalSequence \in Nat
      /\ MaxQueuedOutgoing \in Nat /\ dispatchIndex \in Nat
  BY ChannelTypes
<1>2. Len(queue) \in Nat /\ DOMAIN queue = 1 .. Len(queue)
  BY <1>1
<1>3. ASSUME NEW i \in 1 .. Len(queue)
      PROVE  /\ queue[i].packet.id \in Nat
             /\ queue[i].packet \in OutP!Packet
             /\ queue[i].sent \in BOOLEAN
  <2>1. queue[i] \in OutP!Stashed
    BY <1>1
  <2> QED
    BY <2>1 DEF OutP!Stashed, OutP!Packet
<1>4. dispatchIndex <= Len(queue)
  BY <1>1, <1>2
  DEF StreamInv, OutP!OutputInvariant, OutP!NothingPassedOver, OutP!Least
<1>5. /\ \A i \in 1 .. Len(queue) : queue[i].packet.id < totalSequence
      /\ \A i, j \in 1 .. Len(queue) :
            i < j => queue[i].packet.id < queue[j].packet.id
  BY <1>2 DEF StreamInv, OutP!OutputInvariant, OutP!QueueIsOrderedTail
<1>6. ASSUME NEW i \in 1 .. Len(queue), NEW j \in 1 .. Len(queue),
             queue[i].packet.id = queue[j].packet.id
      PROVE  i = j
  <2>1. ~(i < j) /\ ~(j < i)
    BY <1>3, <1>5, <1>6
  <2> QED
    BY <2>1, <1>2
<1> QED
  BY <1>2, <1>3, <1>4, <1>5, <1>6

-----------------------------------------------------------------------------
(* What one end does leaves the other alone.                               *)

LEMMA CarriedIsInput ==
    ASSUME StreamInv, NEW packet \in OutP!Packet, InP!Carries(packet, accepted)
    PROVE  packet \in InP!Packet
<1>1. InP!Numbered(accepted, totalSequence)
  BY DEF StreamInv, ReceiverFollows
<1>2. packet.id \in Ids /\ (packet.frag \/ packet.total = InP!NoPrefix)
  BY <1>1, InputAssumptions, InP!CarriedIsPacket
<1>3. packet.total \in Totals
  BY ChannelAssumption
  DEF ChannelAssumption, OutP!Packet, OutP!NoPrefix
<1> QED
  BY <1>2, <1>3 DEF OutP!Packet, InP!Packet

LEMMA ReceiverRests ==
    ASSUME StreamInv, UNCHANGED <<receiver, ackNet>>
    PROVE  /\ InP!InputInv'
           /\ InP!Reassembly' = InP!Reassembly
           /\ \A s : InP!Holds(s)' <=> InP!Holds(s)
<1>1. InP!InputInv /\ InP!TypeOK
  BY DEF StreamInv, InP!InputInv
<1>2. UNCHANGED <<windowStart, stash, InP!reassembly>> /\ ackNet' = ackNet
      /\ lastAckAll' \in Int /\ ackAge' \in 0 .. MaxAckDelay + 1
  BY <1>1 DEF receiver, InP!reassembly, InP!TypeOK
<1>3. InP!InputInv'
  BY <1>1, <1>2, InputAssumptions, InP!AcksOnlyKeeps
<1> QED
  BY <1>3 DEF receiver, InP!Reassembly, InP!Holds

LEMMA SenderRests ==
    ASSUME StreamInv, UNCHANGED sender, dataNet' \subseteq dataNet
    PROVE  OutP!OutputInvariant'
BY DEF StreamInv, sender, OutP!OutputInvariant, OutP!TypeOK,
       OutP!QueueIsOrderedTail, OutP!NothingPassedOver, OutP!Queued

-----------------------------------------------------------------------------
(* Every step keeps the first part of the invariant.                       *)

\* A new message is numbered on from the last, and queued behind it.
LEMMA EnqueueStreams ==
    ASSUME StreamInv, NEW n \in 1 .. MaxFragments, Enqueue(n)
    PROVE  /\ StreamInv'
           /\ n \in Nat \ {0} /\ totalSequence' = totalSequence + n
           /\ UNCHANGED <<maxClient, dispatchIndex, dataNet>>
           /\ UNCHANGED <<receiver, ackNet>>
           /\ DOMAIN queue' = 1 .. Len(queue) + n /\ Len(queue') = Len(queue) + n
           /\ \A i \in 1 .. Len(queue) : queue'[i] = queue[i]
           /\ \A i \in Len(queue) + 1 .. Len(queue) + n :
                 /\ queue'[i].packet.id = totalSequence + (i - Len(queue)) - 1
                 /\ queue'[i].sent = FALSE
<1> DEFINE next == [i \in 1 .. n |-> totalSequence + i - 1]
           new == [i \in 1 .. n |-> [packet |-> Out!Fragment(i, n), sent |-> FALSE]]
           l == Len(queue)
<1>1. /\ \A i \in 1 .. n : totalSequence + i - 1 \in Ids
      /\ queue' = queue \o new
      /\ totalSequence' = totalSequence + n
      /\ UNCHANGED <<maxClient, dispatchIndex, dataNet>>
      /\ accepted' = Append(accepted, next)
      /\ UNCHANGED <<receiver, ackNet>>
      /\ OutP!EnqueueData(n)
  BY SameOutput DEF Enqueue, Out!EnqueueData
<1>2. /\ totalSequence \in Nat /\ maxClient \in Nat /\ dispatchIndex \in Nat
      /\ accepted \in Seq(Seq(Ids)) /\ queue \in Seq(OutP!Stashed)
      /\ l \in Nat /\ DOMAIN queue = 1 .. l /\ n \in Nat \ {0}
      /\ dispatchIndex <= l
      /\ windowStart \in Nat
  <2>1. MaxFragments \in Nat
    BY OutputAssumptions DEF OutP!OutputAssumption
  <2> QED
    BY <2>1, ChannelTypes, QueueTypes
<1>3. /\ InP!InputInv'
      /\ InP!Reassembly' = InP!Reassembly
      /\ \A s : InP!Holds(s)' <=> InP!Holds(s)
  BY <1>1, ReceiverRests
<1>4. OutP!OutputInvariant'
  BY <1>1, OutputAssumptions, OutP!OutputEnqueues DEF StreamInv
<1>5. /\ next \in Seq(Ids) /\ Len(next) = n /\ DOMAIN next = 1 .. n
      /\ \A i \in 1 .. n : next[i] = totalSequence + i - 1
  <2>1. next \in [1 .. n -> Ids]
    BY <1>1
  <2>2. \A i \in 1 .. n : next[i] = totalSequence + i - 1
    OBVIOUS
  <2> HIDE DEF next
  <2>3. next \in Seq(Ids) /\ Len(next) = n /\ DOMAIN next = 1 .. n
    BY <2>1, <1>2
  <2> QED
    BY <2>2, <2>3
<1>6. /\ Len(queue') = l + n /\ DOMAIN queue' = 1 .. l + n
      /\ \A i \in 1 .. l : queue'[i] = queue[i]
      /\ \A i \in l + 1 .. l + n :
            queue'[i] = [packet |-> Out!Fragment(i - l, n), sent |-> FALSE]
  <2>1. new \in Seq(OutP!Stashed) /\ Len(new) = n
    <3>1. ASSUME NEW i \in 1 .. n
          PROVE  [packet |-> Out!Fragment(i, n), sent |-> FALSE] \in OutP!Stashed
      <4>1. /\ totalSequence + i - 1 \in Nat
            /\ n \in 0 .. MaxFragments /\ 0 \in 0 .. MaxFragments
        BY <1>2, OutputAssumptions DEF OutP!OutputAssumption
      <4>2. (n > 1) \in BOOLEAN
        OBVIOUS
      <4> QED
        BY <4>1, <4>2
        DEF Out!Fragment, Out!NoPrefix, Out!NoMaster, OutP!Stashed, OutP!Packet,
            OutP!NoPrefix
    <3>2. new \in [1 .. n -> OutP!Stashed]
      BY <3>1
    <3> HIDE DEF new
    <3> QED
      BY <3>2, <1>2
  <2>2. \A i \in 1 .. n :
              new[i] = [packet |-> Out!Fragment(i, n), sent |-> FALSE]
    OBVIOUS
  <2> HIDE DEF new, l
  <2>3. /\ Len(queue \o new) = Len(queue) + n
        /\ DOMAIN (queue \o new) = 1 .. Len(queue) + n
        /\ \A i \in 1 .. Len(queue) : (queue \o new)[i] = queue[i]
        /\ \A i \in Len(queue) + 1 .. Len(queue) + n :
              (queue \o new)[i] = new[i - Len(queue)]
    <3>1. n \in Nat /\ queue \in Seq(OutP!Stashed) /\ Len(queue) \in Nat
      BY <1>2 DEF l
    <3> QED
      BY <2>1, <3>1
  <2>4. \A i \in l + 1 .. l + n : i - l \in 1 .. n
    BY <1>2
  <2> QED
    BY <2>2, <2>3, <2>4, <1>1 DEF l
<1>7. ASSUME NEW i \in 1 .. n
      PROVE  /\ Out!Fragment(i, n).id = totalSequence + i - 1
             /\ Out!Fragment(i, n) = InP!PacketOf(next, i)
  BY <1>5 DEF Out!Fragment, InP!PacketOf, InP!NoPrefix, Out!NoPrefix, Out!NoMaster
<1>8. ASSUME NEW i \in l + 1 .. l + n
      PROVE  /\ queue'[i].packet.id = totalSequence + (i - l) - 1
             /\ queue'[i].sent = FALSE
             /\ InP!Carries(queue'[i].packet, accepted')
  <2>1. i - l \in 1 .. n
    BY <1>2
  <2> HIDE DEF next, l
  <2>2. queue'[i] = [packet |-> Out!Fragment(i - l, n), sent |-> FALSE]
    BY <1>6
  <2>3. InP!Carries(InP!PacketOf(next, i - l), accepted')
    BY <2>1, <1>1, <1>2, <1>5, InputAssumptions, InP!PacketCarried DEF next
  <2> QED
    BY <2>1, <2>2, <2>3, <1>7
<1> HIDE DEF next, new, l
<1>9. PacketsCarry'
  <2>1. PacketsCarry
    BY DEF StreamInv
  <2>2. \A packet : InP!Carries(packet, accepted) => InP!Carries(packet, accepted')
    BY <1>1, <1>2, <1>5, InputAssumptions, InP!CarriedByMore DEF next
  <2>3. \A i \in 1 .. l + n : InP!Carries(queue'[i].packet, accepted')
    <3>1. \A i \in 1 .. l : InP!Carries(queue'[i].packet, accepted')
      BY <2>1, <2>2, <1>2, <1>6 DEF PacketsCarry
    <3>2. \A i \in 1 .. l + n : i \in 1 .. l \/ i \in l + 1 .. l + n
      BY <1>2
    <3> QED
      BY <3>1, <3>2, <1>8
  <2>4. InP!StashCarries(accepted)'
    BY <2>1, <2>2, <1>1 DEF PacketsCarry, InP!StashCarries, receiver
  <2>5. \A packet \in dataNet' : InP!Carries(packet, accepted')
    BY <2>1, <2>2, <1>1 DEF PacketsCarry
  <2> QED
    BY <2>3, <2>4, <2>5, <1>6 DEF PacketsCarry
<1>10. ReceiverFollows'
  <2>1. InP!Reassembly \in InP!ReassemblyState
    BY DEF StreamInv, InP!InputInv, InP!TypeOK, InP!Reassembly, InP!ReassemblyState
  <2>2. /\ InP!Numbered(accepted, totalSequence)
         /\ InP!Follows(InP!Reassembly, accepted, totalSequence, windowStart)
    BY DEF StreamInv, ReceiverFollows
  <2>3. n \in Nat \ {0} /\ \A i \in 1 .. n : totalSequence + i - 1 \in Ids
    BY <1>1, <1>2
  <2>4. next = InP!NextMessage(totalSequence, n)
    BY DEF next, InP!NextMessage
  <2>5. InP!Numbered(Append(accepted, next), totalSequence + n)
    BY <2>2, <2>3, <2>4, InputAssumptions, InP!NumberedAppend
  <2>6. InP!Follows(InP!Reassembly, Append(accepted, next), totalSequence + n,
                     windowStart)
    BY <2>1, <2>2, <2>3, <2>4, InputAssumptions, InP!FollowsMore
  <2>7. InP!Numbered(accepted', totalSequence')
    BY <2>5, <1>1
  <2>8. InP!Follows(InP!Reassembly, accepted', totalSequence', windowStart)
    BY <2>6, <1>1
  <2>9. windowStart' = windowStart
    BY <1>1 DEF receiver
  <2> QED
    BY <2>7, <2>8, <2>9, <1>3 DEF ReceiverFollows
<1>11. StreamInv'
  BY <1>3, <1>4, <1>9, <1>10 DEF StreamInv
<1> QED
  BY <1>1, <1>2, <1>6, <1>8, <1>11 DEF l

\* A tick sends packets that are in the queue, and marks them sent.
LEMMA SenderTickStreams ==
    ASSUME StreamInv, NEW timedOut \in BOOLEAN, SenderTick(timedOut)
    PROVE  StreamInv'
<1>1. /\ OutP!RunTick(timedOut)
      /\ \E due \in SUBSET Int :
            /\ queue' = [i \in DOMAIN queue |->
                            IF i \in due THEN [queue[i] EXCEPT !.sent = TRUE]
                                         ELSE queue[i]]
            /\ \A packet \in dataNet' : packet \in dataNet
                   \/ \E i \in due : i \in DOMAIN queue /\ packet = queue[i].packet
      /\ UNCHANGED <<totalSequence, maxClient, accepted>>
      /\ UNCHANGED <<receiver, ackNet>>
  <2> DEFINE first == IF timedOut THEN 0 ELSE dispatchIndex
             limit == Out!Least(Len(queue), MaxQueuedOutgoing)
             due   == first + 1 .. limit
  <2>1. /\ queue' = [i \in DOMAIN queue |->
                        IF i \in due THEN [queue[i] EXCEPT !.sent = TRUE]
                                     ELSE queue[i]]
        /\ dataNet' = dataNet \cup {queue[i].packet : i \in due}
        /\ UNCHANGED <<totalSequence, maxClient, accepted>>
        /\ UNCHANGED <<receiver, ackNet>>
        /\ OutP!RunTick(timedOut)
    BY SameOutput DEF SenderTick, Out!RunTick
  <2>2. /\ dispatchIndex \in Nat /\ MaxQueuedOutgoing \in Nat
        /\ Len(queue) \in Nat /\ DOMAIN queue = 1 .. Len(queue)
    BY ChannelTypes, QueueTypes
  <2>3. due \subseteq 1 .. Len(queue)
    BY <2>2 DEF Out!Least
  <2> HIDE DEF due
  <2>4. due \in SUBSET Int
    BY <2>2, <2>3
  <2>5. ASSUME NEW packet \in dataNet', packet \notin dataNet
        PROVE  \E i \in due : i \in DOMAIN queue /\ packet = queue[i].packet
    BY <2>1, <2>2, <2>3, <2>5
  <2> QED
    BY <2>1, <2>4, <2>5
<1>2. queue \in Seq(OutP!Stashed) /\ DOMAIN queue = 1 .. Len(queue)
  BY ChannelTypes, QueueTypes
<1>3. /\ DOMAIN queue' = DOMAIN queue
      /\ \A i \in DOMAIN queue : queue'[i].packet = queue[i].packet
      /\ \A packet \in dataNet' : packet \in dataNet
            \/ \E i \in DOMAIN queue : packet = queue[i].packet
  <2>1. \A i \in DOMAIN queue : queue[i] \in OutP!Stashed
    BY <1>2
  <2>2. \A entry \in OutP!Stashed : [entry EXCEPT !.sent = TRUE].packet = entry.packet
    BY DEF OutP!Stashed
  <2> QED
    BY <1>1, <2>1, <2>2
<1>4. InP!InputInv' /\ InP!Reassembly' = InP!Reassembly
  BY <1>1, ReceiverRests
<1>5. OutP!OutputInvariant'
  BY <1>1, OutputAssumptions, OutP!OutputTicks DEF StreamInv
<1>6. PacketsCarry'
  <2>1. PacketsCarry
    BY DEF StreamInv
  <2>2. \A i \in DOMAIN queue' : InP!Carries(queue'[i].packet, accepted')
    BY <2>1, <1>1, <1>3 DEF PacketsCarry
  <2>3. \A packet \in dataNet' : InP!Carries(packet, accepted')
    BY <2>1, <1>1, <1>3 DEF PacketsCarry
  <2>4. InP!StashCarries(accepted)'
    BY <2>1, <1>1 DEF PacketsCarry, InP!StashCarries, receiver
  <2> QED
    BY <2>2, <2>3, <2>4 DEF PacketsCarry
<1>7. ReceiverFollows'
  BY <1>1, <1>4 DEF StreamInv, ReceiverFollows, receiver
<1> QED
  BY <1>4, <1>5, <1>6, <1>7 DEF StreamInv

\* What the receiver takes in leaves the sender and the messages alone.
LEMMA TakingInStreams ==
    ASSUME StreamInv, UNCHANGED sender, UNCHANGED accepted,
           dataNet' \subseteq dataNet, InP!InputInv',
           InP!Follows(InP!Reassembly', accepted, totalSequence, windowStart'),
           InP!StashCarries(accepted)'
    PROVE  StreamInv'
<1>1. /\ queue' = queue /\ totalSequence' = totalSequence
      /\ maxClient' = maxClient /\ accepted' = accepted
  BY DEF sender
<1>2. OutP!OutputInvariant'
  BY SenderRests
<1>3. PacketsCarry'
  <2>1. PacketsCarry
    BY DEF StreamInv
  <2>2. InP!StashCarries(accepted)'
    OBVIOUS
  <2> QED
    BY <2>1, <2>2, <1>1 DEF PacketsCarry
<1>4. ReceiverFollows'
  BY <1>1 DEF StreamInv, ReceiverFollows
<1> QED
  BY <1>2, <1>3, <1>4 DEF StreamInv

LEMMA DeliverDataStreams ==
    ASSUME StreamInv, NEW packet \in dataNet, DeliverData(packet)
    PROVE  StreamInv' /\ InP!TakesIn(packet, accepted, totalSequence)
<1>1. /\ InP!Receive(packet) /\ dataNet' \subseteq dataNet
      /\ UNCHANGED sender /\ UNCHANGED accepted
  BY SameInput DEF DeliverData
<1>2. /\ InP!Carries(packet, accepted) /\ InP!StashCarries(accepted)
      /\ InP!InputInv
      /\ InP!Numbered(accepted, totalSequence)
      /\ InP!Follows(InP!Reassembly, accepted, totalSequence, windowStart)
  BY DEF StreamInv, PacketsCarry, ReceiverFollows
<1>3. packet \in InP!Packet
  BY <1>2, ChannelTypes, CarriedIsInput
<1>4. InP!InputInv'
  BY <1>1, <1>2, <1>3, InputAssumptions, InP!HandleReliableKeeps
<1>5. InP!TakesIn(packet, accepted, totalSequence)
  BY <1>1, <1>2, <1>3, InputAssumptions, InP!ReceiveTakesIn
<1>6. InP!Follows(InP!Reassembly', accepted, totalSequence, windowStart')
  BY <1>5 DEF InP!TakesIn
<1>7. InP!StashCarries(accepted)'
  BY <1>1, <1>5 DEF InP!TakesIn, InP!StashCarries
<1> QED
  BY <1>1, <1>4, <1>5, <1>6, <1>7, TakingInStreams

\* The steps that leave the window, the stash and the reassembly as they are.
LEMMA QuietStreams ==
    ASSUME StreamInv, InP!InputInv',
           UNCHANGED <<windowStart, stash, buffer, expected, appData, corrupt>>,
           UNCHANGED sender, UNCHANGED accepted, dataNet' \subseteq dataNet
    PROVE  StreamInv'
<1>1. InP!Reassembly' = InP!Reassembly /\ windowStart' = windowStart
  BY DEF InP!Reassembly
<1>2. InP!StashCarries(accepted)'
  BY DEF StreamInv, PacketsCarry, InP!StashCarries
<1>3. InP!Follows(InP!Reassembly', accepted, totalSequence, windowStart')
  BY <1>1 DEF StreamInv, ReceiverFollows
<1> QED
  BY <1>2, <1>3, TakingInStreams

\* Whatever an acknowledgement is taken for, what stays queued was queued.
LEMMA AcknowledgedStreams ==
    ASSUME StreamInv, DeliverAck
    PROVE  StreamInv'
<1>1. /\ ackNet # <<>> /\ ackNet' = Tail(ackNet)
      /\ UNCHANGED receiver /\ accepted' = accepted
  BY DEF DeliverAck
<1>2. PICK wire : /\ wire = OutP!Wire(Head(ackNet).seq)
                  /\ \/ OutP!NotifyOfAcknowledge(wire)
                     \/ OutP!NotifyOfAcknowledgeAll(wire)
  BY SameOutput DEF DeliverAck
<1>3. wire \in 0 .. SeqSpace - 1
  <2>1. Head(ackNet) \in InP!Ack
    <3>1. ackNet \in Seq(InP!Ack)
      BY ChannelTypes
    <3> HIDE DEF InP!Ack
    <3> QED
      BY <3>1, <1>1
  <2>2. Head(ackNet).seq \in Int
    BY <2>1 DEF InP!Ack
  <2>3. SeqSpace \in Nat \ {0}
    BY OutputAssumptions DEF OutP!SeqSpaceAssumption
  <2>4. \A a \in Int : a % SeqSpace \in 0 .. SeqSpace - 1
    BY <2>3
  <2> QED
    BY <2>2, <2>4, <1>2 DEF OutP!Wire
<1>4. OutP!OutputInvariant'
  BY <1>2, <1>3, OutputAssumptions, OutP!OutputIsAcknowledged,
     OutP!OutputIsAcknowledgedUpTo DEF StreamInv
<1>5. totalSequence' = totalSequence /\ dataNet' = dataNet
  BY <1>2 DEF OutP!NotifyOfAcknowledge, OutP!NotifyOfAcknowledgeAll
<1>6. \A i \in DOMAIN queue' : \E j \in DOMAIN queue : queue'[i] = queue[j]
  <2>1. /\ queue \in Seq(OutP!Stashed) /\ Len(queue) \in Nat
        /\ DOMAIN queue = 1 .. Len(queue)
    BY ChannelTypes, QueueTypes
  <2>2. CASE queue' = queue
    BY <2>2
  <2>3. ASSUME NEW k \in DOMAIN queue, queue' = OutP!RemoveAt(queue, k)
        PROVE  \A i \in DOMAIN queue' : \E j \in DOMAIN queue : queue'[i] = queue[j]
    <3>1. /\ Len(queue') = Len(queue) - 1 /\ queue' \in Seq(OutP!Stashed)
          /\ \A j \in 1 .. Len(queue) - 1 :
                queue'[j] = queue[IF j < k THEN j ELSE j + 1]
      BY <2>1, <2>3, OutputAssumptions, OutP!RemoveAtType, ZenonT(40)
    <3>2. DOMAIN queue' = 1 .. Len(queue) - 1
      BY <3>1
    <3>3. \A j \in 1 .. Len(queue) - 1 : (IF j < k THEN j ELSE j + 1) \in DOMAIN queue
      BY <2>1
    <3> QED
      BY <3>1, <3>2, <3>3
  <2>4. ASSUME NEW k \in 0 .. Len(queue), queue' = SubSeq(queue, k + 1, Len(queue))
        PROVE  \A i \in DOMAIN queue' : \E j \in DOMAIN queue : queue'[i] = queue[j]
    <3>1. /\ Len(queue') = Len(queue) - k /\ queue' \in Seq(OutP!Stashed)
          /\ \A j \in 1 .. Len(queue) - k : queue'[j] = queue[k + j]
      BY <2>1, <2>4, OutputAssumptions, OutP!DroppedFirst
    <3>2. DOMAIN queue' = 1 .. Len(queue) - k
      BY <3>1
    <3>3. \A j \in 1 .. Len(queue) - k : k + j \in DOMAIN queue
      BY <2>1
    <3> QED
      BY <3>1, <3>2, <3>3
  <2> QED
    BY <1>2, <2>2, <2>3, <2>4
    DEF OutP!NotifyOfAcknowledge, OutP!NotifyOfAcknowledgeAll
<1>7. InP!InputInv'
  <2>1. UNCHANGED <<windowStart, stash, InP!reassembly, lastAckAll, ackAge>>
    BY <1>1 DEF receiver, InP!reassembly
  <2> QED
    BY <2>1, <1>1, InputAssumptions, InP!AckTakenKeeps DEF StreamInv
<1>8. PacketsCarry'
  <2>1. PacketsCarry
    BY DEF StreamInv
  <2>2. InP!StashCarries(accepted)'
    BY <2>1, <1>1 DEF PacketsCarry, InP!StashCarries, receiver
  <2>3. \A i \in DOMAIN queue' : InP!Carries(queue'[i].packet, accepted)
    BY <2>1, <1>6 DEF PacketsCarry
  <2> QED
    BY <2>1, <2>2, <2>3, <1>1, <1>5 DEF PacketsCarry
<1>9. ReceiverFollows'
  BY <1>1, <1>5 DEF StreamInv, ReceiverFollows, receiver, InP!Reassembly
<1> QED
  BY <1>4, <1>7, <1>8, <1>9 DEF StreamInv

LEMMA StreamInit == Init => StreamInv
<1> SUFFICES ASSUME Init PROVE StreamInv
  OBVIOUS
<1>1. InP!Init /\ OutP!Init /\ accepted = <<>>
  BY SameInput, SameOutput DEF Init
<1>2. InP!InputInv
  BY <1>1, InputAssumptions, InP!InitEstablishes
<1>3. OutP!OutputInvariant
  BY <1>1, OutputAssumptions, OutP!OutputInit
<1>4. /\ windowStart = 0 /\ stash = [slot \in InP!Slots |-> InP!Empty]
      /\ buffer = <<>> /\ appData = <<>> /\ corrupt = FALSE /\ ackNet = <<>>
      /\ lastAckAll = -1
      /\ queue = <<>> /\ totalSequence = 0 /\ maxClient = 0 /\ dataNet = {}
      /\ MaxQueuedIncoming \in Nat
  BY <1>1, InputAssumptions DEF InP!Init, OutP!Init, InP!InputAssumption
<1>5. PacketsCarry
  BY <1>4 DEF PacketsCarry, InP!StashCarries
<1>6. ReceiverFollows
  <2>1. InP!Numbered(accepted, totalSequence)
    BY <1>1, <1>4 DEF InP!Numbered, InP!Start
  <2>2. InP!Follows(InP!Reassembly, accepted, totalSequence, windowStart)
    BY <1>1, <1>4 DEF InP!Follows, InP!Reassembly, InP!Start
  <2> QED
    BY <2>1, <2>2 DEF ReceiverFollows
<1> QED
  BY <1>2, <1>3, <1>5, <1>6 DEF StreamInv

LEMMA StreamNext ==
    ASSUME StreamInv, [Next]_vars
    PROVE  StreamInv'
<1>1. ASSUME NEW n \in 1 .. MaxFragments, Enqueue(n) PROVE StreamInv'
  BY <1>1, EnqueueStreams
<1>2. ASSUME NEW timedOut \in BOOLEAN, SenderTick(timedOut) PROVE StreamInv'
  BY <1>2, SenderTickStreams
<1>3. CASE ReceiverTick \/ Elapse
  <2>1. /\ InP!RunTick \/ InP!Elapse
        /\ UNCHANGED sender /\ UNCHANGED accepted /\ dataNet' \subseteq dataNet
    BY <1>3, SameInput DEF ReceiverTick, Elapse
  <2>2. InP!InputInv'
    BY <2>1, InputAssumptions, InP!NextKeeps DEF StreamInv, InP!Next
  <2>3. UNCHANGED <<windowStart, stash, buffer, expected, appData, corrupt>>
    BY <2>1 DEF InP!RunTick, InP!Elapse, InP!reassembly
  <2> QED
    BY <2>1, <2>2, <2>3, QuietStreams
<1>4. ASSUME NEW packet \in dataNet, DeliverData(packet) PROVE StreamInv'
  BY <1>4, DeliverDataStreams
<1>5. CASE DeliverAck
  BY <1>5, AcknowledgedStreams
<1>6. CASE LoseAck
  <2>1. /\ UNCHANGED receiver /\ UNCHANGED sender /\ UNCHANGED accepted
        /\ dataNet' \subseteq dataNet /\ ackNet # <<>> /\ ackNet' = Tail(ackNet)
    BY <1>6 DEF LoseAck
  <2>2. UNCHANGED <<windowStart, stash, InP!reassembly, lastAckAll, ackAge>>
    BY <2>1 DEF receiver, InP!reassembly
  <2>3. InP!InputInv'
    BY <2>1, <2>2, InputAssumptions, InP!AckTakenKeeps DEF StreamInv
  <2> QED
    BY <2>1, <2>3, QuietStreams DEF receiver
<1>7. CASE (\E packet \in dataNet : LoseData(packet)) \/ UNCHANGED vars
  <2>1. /\ UNCHANGED <<receiver, ackNet>> /\ UNCHANGED sender /\ UNCHANGED accepted
        /\ dataNet' \subseteq dataNet
    BY <1>7 DEF LoseData, vars
  <2>2. InP!InputInv'
    BY <2>1, ReceiverRests
  <2> QED
    BY <2>1, <2>2, QuietStreams DEF receiver
<1> QED
  BY <1>1, <1>2, <1>3, <1>4, <1>5, <1>6, <1>7 DEF Next

LEMMA StreamInvariant == Spec => []StreamInv
<1>1. Init => StreamInv
  BY StreamInit
<1>2. StreamInv /\ [Next]_vars => StreamInv'
  BY StreamNext
<1> QED
  BY <1>1, <1>2, PTL DEF Spec

\* What this sender fragments this receiver never finds malformed.
THEOREM ChannelStaysSound == Spec => []NeverCorrupt
<1>1. StreamInv => NeverCorrupt
  BY DEF StreamInv, ReceiverFollows, InP!Follows, InP!Reassembly, NeverCorrupt
<1> QED
  BY <1>1, StreamInvariant, PTL

-----------------------------------------------------------------------------
(* The channel implements a stream of messages.                            *)

LEMMA ChannelImplementsInit == Init => Stream!Init
BY DEF Init, In!Init, Stream!Init

LEMMA DeliveryImplements ==
    ASSUME StreamInv, StreamInv', UNCHANGED accepted,
           Len(appData) <= Len(appData')
    PROVE  [Stream!Next]_<<accepted, appData>>
<1> DEFINE d == Len(appData)
           e == Len(appData')
<1>1. /\ accepted \in Seq(Seq(Ids)) /\ appData \in Seq(Seq(Ids))
      /\ d \in Nat /\ Len(accepted) \in Nat
  BY ChannelTypes
<1>2. appData' \in Seq(Seq(Ids)) /\ e \in Nat
  <2>1. (InP!TypeOK)'
    BY DEF StreamInv, InP!InputInv
  <2>2. appData' \in Seq(Seq(Ids))
    BY <2>1 DEF InP!TypeOK
  <2> QED
    BY <2>2
<1>3. /\ d <= Len(accepted) /\ \A k \in 1 .. d : appData[k] = accepted[k]
  BY DEF StreamInv, ReceiverFollows, InP!Follows, InP!Reassembly
<1>4. /\ e <= Len(accepted) /\ \A k \in 1 .. e : appData'[k] = accepted[k]
  BY DEF StreamInv, ReceiverFollows, InP!Follows, InP!Reassembly
<1>5. /\ SubSeq(accepted, 1, e) \in Seq(Seq(Ids))
      /\ Len(SubSeq(accepted, 1, e)) = e
      /\ \A k \in 1 .. e : SubSeq(accepted, 1, e)[k] = accepted[k]
  BY <1>1, <1>2, <1>4
<1>6. appData' = SubSeq(accepted, 1, e)
  <2>1. \A k \in 1 .. e : appData'[k] = SubSeq(accepted, 1, e)[k]
    BY <1>4, <1>5
  <2> QED
    BY <2>1, <1>2, <1>5, SeqEqual
<1>7. CASE e = d
  <2>1. \A k \in 1 .. d : appData'[k] = appData[k]
    BY <1>3, <1>4, <1>7
  <2>2. appData' = appData
    BY <2>1, <1>1, <1>2, <1>7, SeqEqual
  <2> QED
    BY <2>2
<1>8. CASE e # d
  <2>1. e - d \in 1 .. Len(accepted) /\ d + (e - d) = e
    BY <1>1, <1>2, <1>3, <1>4, <1>8
  <2>2. Stream!Deliver(e - d)
    BY <2>1, <1>4, <1>6 DEF Stream!Deliver
  <2> QED
    BY <2>1, <2>2 DEF Stream!Next
<1> QED
  BY <1>7, <1>8

LEMMA ChannelImplementsNext ==
    ASSUME StreamInv, StreamInv', [Next]_vars
    PROVE  [Stream!Next]_<<accepted, appData>>
<1>1. ASSUME NEW n \in 1 .. MaxFragments, Enqueue(n)
      PROVE  [Stream!Next]_<<accepted, appData>>
  <2>1. totalSequence \in Nat /\ n \in Nat /\ 1 \in 1 .. n
    <3>1. MaxFragments \in Nat
      BY OutputAssumptions DEF OutP!OutputAssumption
    <3> QED
      BY <3>1, ChannelTypes
  <2>2. totalSequence \in Ids
    <3>1. \A i \in 1 .. n : totalSequence + i - 1 \in Ids
      BY <1>1 DEF Enqueue
    <3>2. totalSequence + 1 - 1 \in Ids
      BY <2>1, <3>1, Zenon
    <3> QED
      BY <2>1, <3>2
  <2>3. Stream!Accept([i \in 1 .. n |-> totalSequence + i - 1])
    BY <1>1 DEF Enqueue, receiver, Stream!Accept
  <2> QED
    BY <2>2, <2>3 DEF Stream!Next
<1>2. ASSUME NEW packet \in dataNet, DeliverData(packet)
      PROVE  [Stream!Next]_<<accepted, appData>>
  <2>1. UNCHANGED accepted /\ Len(appData) <= Len(appData')
    BY <1>2, DeliverDataStreams DEF DeliverData, InP!TakesIn
  <2> QED
    BY <2>1, DeliveryImplements
<1>3. CASE UNCHANGED <<accepted, appData>>
  BY <1>3
<1>4. \/ \E timedOut \in BOOLEAN : SenderTick(timedOut)
      \/ ReceiverTick \/ Elapse \/ DeliverAck \/ LoseAck
      \/ \E packet \in dataNet : LoseData(packet)
      \/ UNCHANGED vars
      => UNCHANGED <<accepted, appData>>
  BY DEF SenderTick, ReceiverTick, Elapse, DeliverAck, LoseAck, LoseData, vars,
         receiver, In!RunTick, In!Elapse, In!reassembly
<1> QED
  BY <1>1, <1>2, <1>3, <1>4 DEF Next

\* The application is given the messages that were enqueued, whole, in order
\* and each once, however packets are lost, repeated and reordered.
THEOREM ChannelIsAStream == Spec => ImplementsStream
<1>1. Init => Stream!Init
  BY ChannelImplementsInit
<1>2. StreamInv /\ StreamInv' /\ [Next]_vars
         => [Stream!Next]_<<accepted, appData>>
  BY ChannelImplementsNext
<1>3. Spec => []StreamInv
  BY StreamInvariant
<1> QED
  BY <1>1, <1>2, <1>3, PTL DEF Spec, Stream!Spec, ImplementsStream

-----------------------------------------------------------------------------
(* What the second part of the invariant says of the window.              *)

\* A packet of the first window of the queue lies within a window of maxClient.
LEMMA QueueWindow ==
    ASSUME StreamInv, WindowInv, NEW i \in 1 .. Len(queue), i <= MaxQueuedOutgoing
    PROVE  queue[i].packet.id <= maxClient + MaxQueuedOutgoing
<1>1. /\ totalSequence \in Nat /\ maxClient \in Nat /\ MaxQueuedOutgoing \in Nat
      /\ Len(queue) \in Nat /\ DOMAIN queue = 1 .. Len(queue)
      /\ queue[i].packet.id \in Nat /\ queue[i].packet.id < totalSequence
  BY ChannelTypes, QueueTypes
<1>2. SUFFICES ASSUME queue[i].packet.id > maxClient
               PROVE  queue[i].packet.id <= maxClient + MaxQueuedOutgoing
  BY <1>1
<1>3. queue[i].packet.id = totalSequence - Len(queue) + i - 1
  BY <1>1, <1>2 DEF WindowInv, QueueIsContiguous
<1>4. PICK j \in 1 .. Len(queue) : queue[j].packet.id = maxClient + 1
  <2>1. maxClient + 1 \in 0 .. totalSequence - 1 /\ maxClient + 1 > maxClient
    BY <1>1, <1>2
  <2> QED
    BY <2>1, <1>1
    DEF StreamInv, OutP!OutputInvariant, OutP!QueueIsOrderedTail, OutP!Queued
<1>5. maxClient + 1 = totalSequence - Len(queue) + j - 1
  <2>1. queue[j].packet.id > maxClient
    BY <1>1, <1>4
  <2> QED
    BY <2>1, <1>1, <1>4 DEF WindowInv, QueueIsContiguous
<1> QED
  BY <1>1, <1>3, <1>5

\* Whatever the receiver holds was numbered; a packet can be handed to it.
LEMMA WindowBelowTotal ==
    ASSUME StreamInv, WindowInv
    PROVE  windowStart <= totalSequence
           /\ windowStart <= maxClient + MaxQueuedOutgoing + 1
<1>1. /\ windowStart \in Nat /\ totalSequence \in Nat /\ maxClient \in Nat
      /\ MaxQueuedOutgoing \in Nat
  BY ChannelTypes
<1>2. CASE windowStart = 0
  BY <1>1, <1>2
<1>3. CASE windowStart # 0
  <2>1. windowStart - 1 \in Nat /\ windowStart - 1 < windowStart
    BY <1>1, <1>3
  <2>2. Seen(windowStart - 1)
    BY <2>1 DEF Seen, InP!Holds
  <2>3. windowStart - 1 < totalSequence
        /\ windowStart - 1 <= maxClient + MaxQueuedOutgoing
    BY <2>1, <2>2 DEF WindowInv, SeenWasSent
  <2> QED
    BY <2>3, <1>1
<1> QED
  BY <1>2, <1>3

\* A new acknowledgement is for the end of the window or ahead of it.
LEMMA AckSent ==
    ASSUME StreamInv, WindowInv, UNCHANGED maxClient,
           windowStart' \in Nat, windowStart <= windowStart',
           lastAckAll' = lastAckAll \/ lastAckAll' >= -1,
           \/ ackNet' = ackNet
           \/ \E ack \in InP!Ack : /\ ackNet' = Append(ackNet, ack)
                                   /\ ack.seq >= windowStart - 1 /\ ack.seq >= 0
    PROVE  AcksAreRecent'
<1>1. /\ windowStart \in Nat /\ maxClient \in Nat /\ MaxQueuedIncoming \in Nat
      /\ ackNet \in Seq(InP!Ack) /\ ~corrupt
      /\ stash \in [InP!Slots -> InP!Packet \cup {InP!Empty}]
  BY ChannelTypes DEF StreamInv, NeverCorrupt, ReceiverFollows, InP!Follows,
                      InP!Reassembly
<1>2. AcksAreRecent
  BY DEF StreamInv, WindowInv
<1>3. maxClient' <= windowStart' + MaxQueuedIncoming /\ lastAckAll' >= -1
  <2>1. maxClient <= windowStart + MaxQueuedIncoming /\ lastAckAll >= -1
    BY <1>2 DEF AcksAreRecent
  <2>2. \A w \in Nat : windowStart <= w => maxClient <= w + MaxQueuedIncoming
    BY <2>1, <1>1
  <2>3. maxClient' = maxClient
    OBVIOUS
  <2> QED
    BY <2>1, <2>2, <2>3
<1>4. CASE ackNet' = ackNet
  BY <1>2, <1>3, <1>4 DEF AcksAreRecent
<1>5. ASSUME NEW ack \in InP!Ack, ackNet' = Append(ackNet, ack),
             ack.seq >= windowStart - 1, ack.seq >= 0
      PROVE  AcksAreRecent'
  <2>1. ack.seq \in Int /\ \A i \in 1 .. Len(ackNet) : ackNet[i].seq \in Int
    <3>1. \A i \in 1 .. Len(ackNet) : ackNet[i] \in InP!Ack
      BY <1>1
    <3> QED
      BY <3>1 DEF InP!Ack
  <2>2. /\ Len(ackNet) \in Nat /\ DOMAIN ackNet = 1 .. Len(ackNet)
        /\ DOMAIN ackNet' = 1 .. Len(ackNet) + 1
        /\ \A i \in 1 .. Len(ackNet) : ackNet'[i] = ackNet[i]
        /\ ackNet'[Len(ackNet) + 1] = ack
    BY <1>1, <1>5
  <2>3. \A i \in 1 .. Len(ackNet) : ackNet[i].seq <= windowStart + MaxQueuedIncoming
    <3>1. SUFFICES ASSUME NEW i \in 1 .. Len(ackNet)
                   PROVE  ackNet[i].seq <= windowStart + MaxQueuedIncoming
      OBVIOUS
    <3>2. \/ ackNet[i].seq < windowStart
          \/ \E packet \in InP!Stashed : packet.id = ackNet[i].seq
      BY <1>1, <2>2 DEF StreamInv, InP!InputInv, InP!AcknowledgedIsHeld
    <3>3. \A packet \in InP!Stashed : packet.id <= windowStart + MaxQueuedIncoming
      BY DEF StreamInv, InP!InputInv, InP!StashAheadOfWindow, InP!Stashed
    <3> QED
      BY <3>2, <3>3, <1>1, <2>1
  <2>4. \A i \in 1 .. Len(ackNet) :
           ackNet[i].seq <= ack.seq + MaxQueuedIncoming + 1
    BY <2>1, <2>3, <1>1, <1>5
  <2>5. maxClient <= ack.seq + MaxQueuedIncoming + 1
    BY <2>1, <1>1, <1>2, <1>5 DEF AcksAreRecent
  <2>6. ASSUME NEW i \in 1 .. Len(ackNet) + 1
        PROVE  /\ ackNet'[i].seq >= 0
               /\ maxClient' <= ackNet'[i].seq + MaxQueuedIncoming + 1
    <3>1. CASE i \in 1 .. Len(ackNet)
      BY <3>1, <2>2, <1>2 DEF AcksAreRecent
    <3>2. CASE i = Len(ackNet) + 1
      BY <3>2, <2>2, <2>5, <1>5
    <3> QED
      BY <3>1, <3>2, <2>2
  <2>7. ASSUME NEW i \in 1 .. Len(ackNet) + 1, NEW j \in 1 .. Len(ackNet) + 1,
               i < j
        PROVE  ackNet'[i].seq <= ackNet'[j].seq + MaxQueuedIncoming + 1
    <3>1. CASE j \in 1 .. Len(ackNet)
      <4>1. i \in 1 .. Len(ackNet)
        BY <3>1, <2>7, <2>2
      <4> QED
        BY <3>1, <4>1, <2>7, <2>2, <1>2 DEF AcksAreRecent
    <3>2. CASE j = Len(ackNet) + 1
      <4>1. i \in 1 .. Len(ackNet)
        BY <3>2, <2>7, <2>2
      <4> QED
        BY <3>2, <4>1, <2>2, <2>4
    <3> QED
      BY <3>1, <3>2, <2>2
  <2> QED
    BY <2>2, <2>6, <2>7, <1>3 DEF AcksAreRecent
<1> QED
  BY <1>4, <1>5

\* The network lets go of the oldest acknowledgement, delivered or not.
LEMMA AckTaken ==
    ASSUME StreamInv, WindowInv, UNCHANGED receiver, ackNet # <<>>, ackNet' = Tail(ackNet),
           \/ maxClient' = maxClient
           \/ maxClient' = Head(ackNet).seq
              /\ maxClient' <= windowStart + MaxQueuedIncoming
    PROVE  /\ AcksAreRecent'
           /\ InP!Reassembly' = InP!Reassembly
           /\ \A s : InP!Holds(s)' <=> InP!Holds(s)
<1>1. AcksAreRecent'
  <2>1. /\ ackNet \in Seq(InP!Ack) /\ AcksAreRecent
    BY ChannelTypes DEF StreamInv, WindowInv
  <2> HIDE DEF InP!Ack
  <2>2. /\ 1 \in DOMAIN ackNet /\ Head(ackNet) = ackNet[1]
        /\ \A i \in DOMAIN ackNet' : /\ i \in Nat /\ i >= 1
                                     /\ i + 1 \in DOMAIN ackNet
                                     /\ ackNet'[i] = ackNet[i + 1]
    BY <2>1
  <2>3. ASSUME NEW i \in DOMAIN ackNet'
        PROVE  /\ ackNet'[i].seq >= 0
               /\ maxClient' <= ackNet'[i].seq + MaxQueuedIncoming + 1
    <3>1. 1 < i + 1
      BY <2>2
    <3> QED
      BY <3>1, <2>1, <2>2 DEF AcksAreRecent
  <2>4. ASSUME NEW i \in DOMAIN ackNet', NEW j \in DOMAIN ackNet', i < j
        PROVE  ackNet'[i].seq <= ackNet'[j].seq + MaxQueuedIncoming + 1
    <3>1. i + 1 < j + 1
      BY <2>2, <2>4
    <3> QED
      BY <3>1, <2>1, <2>2 DEF AcksAreRecent
  <2>5. windowStart' = windowStart /\ lastAckAll' = lastAckAll
    BY DEF receiver
  <2> QED
    BY <2>1, <2>3, <2>4, <2>5 DEF AcksAreRecent
<1> QED
  BY <1>1 DEF receiver, InP!Reassembly, InP!Holds

-----------------------------------------------------------------------------
(* The steps of the sender.                                                *)

LEMMA EnqueueKeeps ==
    ASSUME StreamInv, WindowInv, StreamInv', NEW n \in 1 .. MaxFragments, Enqueue(n)
    PROVE  WindowInv'
<1> DEFINE l == Len(queue)
<1>1. /\ n \in Nat \ {0} /\ totalSequence' = totalSequence + n
      /\ UNCHANGED <<maxClient, dispatchIndex, dataNet>>
      /\ UNCHANGED <<receiver, ackNet>>
  BY EnqueueStreams
<1>2. /\ totalSequence \in Nat /\ maxClient \in Nat /\ dispatchIndex \in Nat
      /\ l \in Nat /\ DOMAIN queue = 1 .. l /\ n \in Nat \ {0}
      /\ dispatchIndex <= l
  BY <1>1, ChannelTypes, QueueTypes
<1>3. \A s : InP!Holds(s)' <=> InP!Holds(s)
  BY <1>1, ReceiverRests
<1>4. /\ Len(queue') = l + n /\ DOMAIN queue' = 1 .. l + n
      /\ \A i \in 1 .. l : queue'[i] = queue[i]
  BY EnqueueStreams
<1>5. \A i \in l + 1 .. l + n :
         /\ queue'[i].packet.id = totalSequence + (i - l) - 1
         /\ queue'[i].sent = FALSE
  BY EnqueueStreams
<1> HIDE DEF l
<1>6. QueueIsContiguous'
  <2>1. SUFFICES ASSUME NEW i \in 1 .. l + n, queue'[i].packet.id > maxClient
                 PROVE  queue'[i].packet.id = (totalSequence + n) - (l + n) + i - 1
    BY <1>1, <1>4 DEF QueueIsContiguous
  <2>2. CASE i \in 1 .. l
    <3>1. queue[i].packet.id = totalSequence - l + i - 1
      BY <2>1, <2>2, <1>2, <1>4 DEF WindowInv, QueueIsContiguous, l
    <3> QED
      BY <3>1, <2>2, <1>2, <1>4
  <2>3. CASE i \in l + 1 .. l + n
    <3>1. queue'[i].packet.id = totalSequence + (i - l) - 1
      BY <2>3, <1>5
    <3>2. totalSequence + (i - l) - 1 = (totalSequence + n) - (l + n) + i - 1
      BY <1>2
    <3> QED
      BY <3>1, <3>2
  <2> QED
    BY <2>2, <2>3, <1>2
<1>7. SeenWasSent'
  <2>1. SUFFICES ASSUME NEW s \in Nat, Seen(s)'
                 PROVE  /\ s < totalSequence'
                        /\ s <= maxClient' + MaxQueuedOutgoing
                        /\ \A i \in DOMAIN queue' :
                              queue'[i].packet.id = s => queue'[i].sent
    BY DEF SeenWasSent
  <2>2. Seen(s)
    BY <2>1, <1>1, <1>3 DEF Seen
  <2>3. /\ s < totalSequence /\ s <= maxClient + MaxQueuedOutgoing
        /\ \A i \in DOMAIN queue : queue[i].packet.id = s => queue[i].sent
    BY <2>2 DEF WindowInv, SeenWasSent
  <2>4. ASSUME NEW i \in 1 .. l + n, queue'[i].packet.id = s
        PROVE  queue'[i].sent
    <3>1. CASE i \in 1 .. l
      BY <3>1, <2>3, <2>4, <1>2, <1>4
    <3>2. CASE i \in l + 1 .. l + n
      <4>1. queue'[i].packet.id = totalSequence + (i - l) - 1
        BY <3>2, <1>5
      <4>2. totalSequence + (i - l) - 1 >= totalSequence
        BY <3>2, <1>2
      <4> QED
        BY <4>1, <4>2, <2>3, <2>4, <1>2
    <3> QED
      BY <3>1, <3>2, <1>2
  <2>5. s < totalSequence'
    BY <2>3, <1>1, <1>2
  <2>6. s <= maxClient' + MaxQueuedOutgoing
    BY <2>3, <1>1
  <2>7. \A i \in DOMAIN queue' : queue'[i].packet.id = s => queue'[i].sent
    BY <2>4, <1>4
  <2> QED
    BY <2>5, <2>6, <2>7
<1>8. AcksAreRecent'
  BY <1>1 DEF WindowInv, AcksAreRecent, receiver
<1>9. DispatchIndexExact'
  <2>1. SUFFICES ASSUME NEW i \in 1 .. l + n
                 PROVE  queue'[i].sent <=> i <= dispatchIndex
    BY <1>1, <1>4 DEF DispatchIndexExact
  <2>2. CASE i \in 1 .. l
    BY <2>2, <1>2, <1>4 DEF WindowInv, DispatchIndexExact
  <2>3. CASE i \in l + 1 .. l + n
    <3>1. ~(i <= dispatchIndex)
      BY <2>3, <1>2
    <3> QED
      BY <2>3, <3>1, <1>5
  <2> QED
    BY <2>2, <2>3, <1>2
<1>10. MaxClientWasReceived'
  BY <1>1 DEF WindowInv, MaxClientWasReceived, Held, receiver
<1>11. NothingLost'
  <2>1. SUFFICES ASSUME NEW s \in 0 .. totalSequence' - 1, ~Held(s)'
                 PROVE  Out!Queued(s)'
    BY DEF NothingLost
  <2>2. CASE s < totalSequence
    <3>1. Out!Queued(s)
      <4>1. s \in 0 .. totalSequence - 1 /\ ~Held(s)
        BY <2>1, <2>2, <1>1, <1>2 DEF Held, receiver
      <4> QED
        BY <4>1 DEF WindowInv, NothingLost
    <3>2. PICK i \in 1 .. l : queue[i].packet.id = s
      BY <3>1, <1>2 DEF Out!Queued
    <3>3. i \in 1 .. l + n
      BY <1>2
    <3> QED
      BY <3>2, <3>3, <1>4 DEF Out!Queued
  <2>3. CASE s >= totalSequence
    <3>1. /\ s - totalSequence + 1 + l \in l + 1 .. l + n
          /\ s - totalSequence + 1 + l \in 1 .. l + n
          /\ totalSequence + ((s - totalSequence + 1 + l) - l) - 1 = s
      BY <2>1, <2>3, <1>1, <1>2
    <3> QED
      BY <3>1, <1>4, <1>5 DEF Out!Queued
  <2> QED
    BY <2>2, <2>3, <1>1, <1>2
<1> QED
  BY <1>6, <1>7, <1>8, <1>9, <1>10, <1>11 DEF WindowInv

LEMMA SenderTickKeeps ==
    ASSUME StreamInv, WindowInv, StreamInv', NEW timedOut \in BOOLEAN, SenderTick(timedOut)
    PROVE  WindowInv'
<1> DEFINE first == IF timedOut THEN 0 ELSE dispatchIndex
           limit == Out!Least(Len(queue), MaxQueuedOutgoing)
           due   == first + 1 .. limit
<1>1. /\ queue' = [i \in DOMAIN queue |->
                      IF i \in due THEN [queue[i] EXCEPT !.sent = TRUE]
                                   ELSE queue[i]]
      /\ dispatchIndex' = IF first < limit THEN limit ELSE first
      /\ dataNet' = dataNet \cup {queue[i].packet : i \in due}
      /\ UNCHANGED <<totalSequence, maxClient, accepted>>
      /\ UNCHANGED <<receiver, ackNet>>
      /\ OutP!RunTick(timedOut)
  BY SameOutput DEF SenderTick, Out!RunTick
<1>2. /\ totalSequence \in Nat /\ maxClient \in Nat /\ dispatchIndex \in Nat
      /\ MaxQueuedOutgoing \in Nat \ {0}
      /\ Len(queue) \in Nat /\ DOMAIN queue = 1 .. Len(queue)
      /\ queue \in Seq(OutP!Stashed)
  BY ChannelTypes, QueueTypes
<1>3. /\ limit \in Nat /\ limit <= Len(queue) /\ limit <= MaxQueuedOutgoing
      /\ dispatchIndex <= limit /\ first \in Nat
      /\ \A k \in Nat : k <= Len(queue) /\ k <= MaxQueuedOutgoing => k <= limit
  <2>1. dispatchIndex <= limit
    BY DEF StreamInv, OutP!OutputInvariant, OutP!NothingPassedOver,
           OutP!Least, Out!Least
  <2> QED
    BY <2>1, <1>2 DEF Out!Least
<1> HIDE DEF limit
<1>4. dispatchIndex' = limit
  BY <1>1, <1>2, <1>3
<1>5. DOMAIN queue' = 1 .. Len(queue) /\ Len(queue') = Len(queue)
      /\ \A i \in 1 .. Len(queue) :
            /\ queue'[i].packet = queue[i].packet
            /\ queue'[i].sent <=> i <= limit
  <2>1. DOMAIN queue' = 1 .. Len(queue) /\ Len(queue') = Len(queue)
    BY <1>1, <1>2
  <2>2. ASSUME NEW i \in 1 .. Len(queue)
        PROVE  /\ queue'[i].packet = queue[i].packet
               /\ queue'[i].sent <=> i <= limit
    <3>1. queue[i] \in OutP!Stashed
      BY <1>2
    <3>2. queue[i].sent <=> i <= dispatchIndex
      BY <1>2 DEF WindowInv, DispatchIndexExact
    <3>3. CASE i \in due
      <4>1. queue'[i] = [queue[i] EXCEPT !.sent = TRUE]
        BY <3>3, <1>1, <1>2
      <4>2. i <= limit
        BY <3>3, <1>2, <1>3
      <4> QED
        BY <4>1, <4>2, <3>1 DEF OutP!Stashed
    <3>4. CASE i \notin due
      <4>1. queue'[i] = queue[i]
        BY <3>4, <1>1, <1>2
      <4>2. ~(i <= limit) \/ i <= dispatchIndex
        BY <3>4, <1>2, <1>3
      <4>3. i <= dispatchIndex => i <= limit
        BY <1>2, <1>3
      <4> QED
        BY <4>1, <4>2, <4>3, <3>2
    <3> QED
      BY <3>3, <3>4
  <2> QED
    BY <2>1, <2>2
<1>6. /\ InP!InputInv'
      /\ InP!Reassembly' = InP!Reassembly
      /\ \A s : InP!Holds(s)' <=> InP!Holds(s)
  BY <1>1, ReceiverRests
<1>7. ASSUME NEW packet \in dataNet'
      PROVE  \/ packet \in dataNet
             \/ \E i \in 1 .. Len(queue) : i <= limit /\ packet = queue[i].packet
  <2>1. CASE packet \notin dataNet
    <3>1. PICK i \in due : packet = queue[i].packet
      BY <2>1, <1>1
    <3>2. i \in 1 .. Len(queue) /\ i <= limit
      BY <1>2, <1>3
    <3> QED
      BY <3>1, <3>2
  <2> QED
    BY <2>1
<1> HIDE DEF due, first
<1>8. QueueIsContiguous'
  BY <1>1, <1>2, <1>5 DEF WindowInv, QueueIsContiguous
<1>9. SeenWasSent'
  <2>1. SUFFICES ASSUME NEW s \in Nat, Seen(s)'
                 PROVE  /\ s < totalSequence
                        /\ s <= maxClient + MaxQueuedOutgoing
                        /\ \A i \in 1 .. Len(queue) :
                              queue[i].packet.id = s => i <= limit
    BY <1>1, <1>5 DEF SeenWasSent
  <2>2. CASE Seen(s)
    <3>1. /\ s < totalSequence
          /\ s <= maxClient + MaxQueuedOutgoing
          /\ \A i \in 1 .. Len(queue) :
                queue[i].packet.id = s => queue[i].sent
      BY <2>2, <1>2 DEF WindowInv, SeenWasSent
    <3>2. \A i \in 1 .. Len(queue) : queue[i].sent => i <= limit
      BY <1>2, <1>3 DEF WindowInv, DispatchIndexExact
    <3> QED
      BY <3>1, <3>2
  <2>3. CASE ~Seen(s)
    <3>1. PICK i \in 1 .. Len(queue) : i <= limit /\ s = queue[i].packet.id
      <4>1. PICK packet \in dataNet' : packet.id = s
        BY <2>1, <2>3, <1>6 DEF Seen
      <4>2. packet \notin dataNet
        BY <4>1, <2>3 DEF Seen
      <4> QED
        BY <4>1, <4>2, <1>7
    <3>2. i <= MaxQueuedOutgoing
      BY <3>1, <1>2, <1>3
    <3> QED
      BY <3>1, <3>2, QueueWindow, QueueTypes
  <2> QED
    BY <2>2, <2>3
<1>10. AcksAreRecent'
  BY <1>1 DEF WindowInv, AcksAreRecent, receiver
<1>11. DispatchIndexExact'
  BY <1>4, <1>5 DEF DispatchIndexExact
<1>12. MaxClientWasReceived'
  BY <1>1 DEF WindowInv, MaxClientWasReceived, Held, receiver
<1>13. NothingLost'
  <2>1. \A s : Out!Queued(s) => Out!Queued(s)'
    BY <1>2, <1>5 DEF Out!Queued
  <2> QED
    BY <2>1, <1>1 DEF WindowInv, NothingLost, Held, receiver
<1> QED
  BY <1>8, <1>9, <1>10, <1>11, <1>12, <1>13 DEF WindowInv

-----------------------------------------------------------------------------
(* The steps of the receiver and of the network.                           *)

\* What the receiver takes in leaves the sender and the messages alone.
LEMMA TakingIn ==
    ASSUME StreamInv, WindowInv, StreamInv', UNCHANGED sender, UNCHANGED accepted,
           dataNet' \subseteq dataNet, AcksAreRecent',
           \A s \in Nat : InP!Holds(s) => InP!Holds(s)',
           \A s \in Nat : InP!Holds(s)' => Seen(s)
    PROVE  WindowInv'
<1>1. /\ queue' = queue /\ totalSequence' = totalSequence
      /\ maxClient' = maxClient /\ dispatchIndex' = dispatchIndex
  BY DEF sender
<1>2. QueueIsContiguous' /\ DispatchIndexExact'
  BY <1>1 DEF WindowInv, QueueIsContiguous, DispatchIndexExact
<1>3. SeenWasSent'
  <2>1. \A s \in Nat : Seen(s)' => Seen(s)
    BY DEF Seen
  <2> QED
    BY <2>1, <1>1 DEF WindowInv, SeenWasSent
<1>4. \A s \in Nat : Held(s) => Held(s)'
  BY DEF Held, InP!Holds
<1>5. MaxClientWasReceived'
  BY <1>1, <1>4, ChannelTypes DEF WindowInv, MaxClientWasReceived
<1>6. NothingLost'
  <2>1. \A s \in 0 .. totalSequence - 1 : s \in Nat
    BY ChannelTypes
  <2>2. \A s : Out!Queued(s)' <=> Out!Queued(s)
    BY <1>1 DEF Out!Queued
  <2> QED
    BY <2>1, <2>2, <1>1, <1>4 DEF WindowInv, NothingLost
<1> QED
  BY <1>2, <1>3, <1>5, <1>6 DEF WindowInv

LEMMA DeliverDataKeeps ==
    ASSUME StreamInv, WindowInv, StreamInv',
           NEW packet \in dataNet, DeliverData(packet)
    PROVE  WindowInv'
<1>1. dataNet' \subseteq dataNet /\ UNCHANGED sender /\ UNCHANGED accepted
  BY DEF DeliverData
<1>2. /\ windowStart <= windowStart'
      /\ \A s \in Nat : InP!Holds(s) => InP!Holds(s)'
      /\ \A s \in Nat : InP!Holds(s)' => InP!Holds(s) \/ s = packet.id
      /\ \/ ackNet' = ackNet
         \/ \E ack \in InP!Ack : /\ ackNet' = Append(ackNet, ack)
                                 /\ ack.seq >= windowStart - 1 /\ ack.seq >= 0
      /\ lastAckAll' = lastAckAll \/ lastAckAll' >= -1
  BY DeliverDataStreams DEF InP!TakesIn
<1>3. \A s \in Nat : InP!Holds(s)' => Seen(s)
  BY <1>2 DEF Seen
<1>4. AcksAreRecent'
  <2>1. windowStart' \in Nat /\ maxClient' = maxClient
    BY <1>1 DEF StreamInv, InP!InputInv, InP!TypeOK, sender
  <2> QED
    BY <2>1, <1>2, AckSent
<1> QED
  BY <1>1, <1>2, <1>3, <1>4, TakingIn

\* The steps that leave the window, the stash and the reassembly as they are.
LEMMA QuietKeeps ==
    ASSUME StreamInv, WindowInv, StreamInv', AcksAreRecent',
           UNCHANGED <<windowStart, stash, buffer, expected, appData, corrupt>>,
           UNCHANGED sender, UNCHANGED accepted, dataNet' \subseteq dataNet
    PROVE  WindowInv'
<1>1. \A s \in Nat : InP!Holds(s)' <=> InP!Holds(s)
  BY DEF InP!Holds
<1> QED
  BY <1>1, TakingIn DEF Seen

LEMMA ReceiverTickKeeps ==
    ASSUME StreamInv, WindowInv, StreamInv', ReceiverTick
    PROVE  WindowInv'
<1>1. /\ InP!RunTick /\ UNCHANGED sender /\ UNCHANGED accepted
      /\ dataNet' \subseteq dataNet
  BY SameInput DEF ReceiverTick
<1>2. /\ UNCHANGED <<windowStart, stash, buffer, expected, appData, corrupt>>
      /\ ackNet' = Append(ackNet, [op |-> "AcknowledgeAll", seq |-> windowStart - 1])
      /\ lastAckAll' = windowStart - 1
      /\ windowStart - 1 > lastAckAll
  BY <1>1 DEF InP!RunTick, InP!SendAckAll, InP!reassembly
<1>3. AcksAreRecent'
  <2>1. windowStart \in Nat /\ lastAckAll \in Int /\ lastAckAll >= -1
    BY ChannelTypes DEF WindowInv, AcksAreRecent
  <2>2. /\ [op |-> "AcknowledgeAll", seq |-> windowStart - 1] \in InP!Ack
        /\ windowStart - 1 >= windowStart - 1 /\ windowStart - 1 >= 0
        /\ windowStart - 1 >= -1 /\ windowStart <= windowStart
    BY <2>1, <1>2 DEF InP!Ack
  <2>3. maxClient' = maxClient /\ windowStart' = windowStart
    BY <1>1, <1>2 DEF sender
  <2> QED
    BY <2>1, <2>2, <2>3, <1>2, AckSent
<1> QED
  BY <1>1, <1>2, <1>3, QuietKeeps

LEMMA ElapseKeeps ==
    ASSUME StreamInv, WindowInv, StreamInv', Elapse
    PROVE  WindowInv'
<1>1. /\ InP!Elapse /\ UNCHANGED sender /\ UNCHANGED accepted
      /\ dataNet' \subseteq dataNet
  BY SameInput DEF Elapse
<1>2. UNCHANGED <<windowStart, stash, buffer, expected, appData, corrupt,
                  ackNet, lastAckAll>>
  BY <1>1 DEF InP!Elapse, InP!reassembly
<1>3. AcksAreRecent'
  BY <1>1, <1>2 DEF WindowInv, AcksAreRecent, sender
<1> QED
  BY <1>1, <1>2, <1>3, QuietKeeps

LEMMA LoseDataKeeps ==
    ASSUME StreamInv, WindowInv, StreamInv', NEW packet \in dataNet, LoseData(packet)
    PROVE  WindowInv'
<1>1. /\ UNCHANGED <<receiver, ackNet>> /\ UNCHANGED sender /\ UNCHANGED accepted
      /\ dataNet' \subseteq dataNet
  BY DEF LoseData
<1>2. AcksAreRecent'
  BY <1>1 DEF WindowInv, AcksAreRecent, sender, receiver
<1> QED
  BY <1>1, <1>2, QuietKeeps DEF receiver

LEMMA LoseAckKeeps ==
    ASSUME StreamInv, WindowInv, StreamInv', LoseAck
    PROVE  WindowInv'
<1>1. /\ UNCHANGED receiver /\ UNCHANGED sender /\ UNCHANGED accepted
      /\ dataNet' \subseteq dataNet
      /\ ackNet # <<>> /\ ackNet' = Tail(ackNet) /\ maxClient' = maxClient
  BY DEF LoseAck, sender
<1>2. AcksAreRecent'
  BY <1>1, AckTaken
<1> QED
  BY <1>1, <1>2, QuietKeeps DEF receiver

-----------------------------------------------------------------------------
(* An acknowledgement reaches the sender.                                  *)

\* The sender reads the acknowledgement it is given as the one that was sent,
\* and the receiver holds what it names. The windows have to fit for it.
LEMMA AckIsRead ==
    ASSUME WindowsFit, StreamInv, WindowInv, ackNet # <<>>
    PROVE  LET sequence == Head(ackNet).seq
           IN  /\ sequence \in Nat
               /\ OutP!TrueIncoming(OutP!Wire(sequence)) = sequence
               /\ InP!Holds(sequence)
               /\ Head(ackNet).op = "AcknowledgeAll" => sequence < windowStart
               /\ sequence <= windowStart + MaxQueuedIncoming
<1> DEFINE a == Head(ackNet).seq
<1>1. /\ MaxQueuedIncoming \in Nat /\ MaxQueuedOutgoing \in Nat
      /\ maxClient \in Nat /\ windowStart \in Nat
      /\ ackNet \in Seq(InP!Ack)
      /\ stash \in [InP!Slots -> InP!Packet \cup {InP!Empty}]
      /\ MaxQueuedIncoming + 1 <= MaxQueuedOutgoing
      /\ ~corrupt
  BY ChannelTypes
  DEF WindowsFit, StreamInv, ReceiverFollows, InP!Follows, InP!Reassembly
<1>2. /\ 1 \in DOMAIN ackNet /\ Head(ackNet) = ackNet[1] /\ Head(ackNet) \in InP!Ack
  BY <1>1
<1>3. a \in Int
  BY <1>2 DEF InP!Ack
<1>4. /\ a >= 0 /\ maxClient <= a + MaxQueuedIncoming + 1
  BY <1>2 DEF WindowInv, AcksAreRecent
<1>5. a \in Nat /\ maxClient - MaxQueuedOutgoing <= a
  BY <1>1, <1>3, <1>4
<1>6. \/ a < windowStart
      \/ /\ Head(ackNet).op = "Acknowledge"
         /\ \E packet \in InP!Stashed : packet.id = a
  BY <1>1, <1>2 DEF StreamInv, InP!InputInv, InP!AcknowledgedIsHeld
<1> HIDE DEF a
<1>7. InP!Holds(a) /\ a <= windowStart + MaxQueuedIncoming
      /\ (Head(ackNet).op = "AcknowledgeAll" => a < windowStart)
  <2>1. CASE a < windowStart
    BY <2>1, <1>1, <1>5 DEF InP!Holds
  <2>2. CASE /\ Head(ackNet).op = "Acknowledge"
             /\ \E packet \in InP!Stashed : packet.id = a
    <3>1. PICK slot \in InP!Slots : stash[slot] # InP!Empty /\ stash[slot].id = a
      BY <2>2 DEF InP!Stashed
    <3>2. stash[slot].id <= windowStart + MaxQueuedIncoming
      BY <3>1 DEF StreamInv, InP!InputInv, InP!StashAheadOfWindow
    <3> QED
      BY <3>1, <3>2, <2>2, <1>1 DEF InP!Holds
  <2> QED
    BY <2>1, <2>2, <1>6
<1>8. a <= maxClient + MaxQueuedOutgoing
  BY <1>5, <1>7 DEF WindowInv, SeenWasSent, Seen
<1>9. OutP!TrueIncoming(OutP!Wire(a)) = a
  <2>1. 2 * MaxQueuedOutgoing < SeqSpace
    BY OutputAssumptions DEF OutP!OutputWindowAssumption
  <2>2. InP!TrueIncomingSequence(InP!Wire(a), maxClient, MaxQueuedOutgoing) = a
    BY <2>1, <1>1, <1>5, <1>8, InputAssumptions, OutputAssumptions,
       InP!DecodeInWindow DEF OutP!OutputAssumption
  <2> QED
    BY <2>2 DEF OutP!TrueIncoming, OutP!TrueIncomingSequence, OutP!Wire,
                InP!TrueIncomingSequence, InP!Wire
<1> QED
  BY <1>5, <1>7, <1>9 DEF a

\* What the two handlers have in common: what stays queued was queued.
LEMMA ReleaseKeeps ==
    ASSUME StreamInv, WindowInv, StreamInv', NEW a \in Nat, InP!Holds(a),
           a <= windowStart + MaxQueuedIncoming,
           ackNet # <<>>, ackNet' = Tail(ackNet), a = Head(ackNet).seq,
           UNCHANGED <<receiver, accepted, dataNet, totalSequence>>,
           OutP!RaiseMaxClient(a),
           \A i \in DOMAIN queue' : \E j \in DOMAIN queue : queue'[i] = queue[j],
           QueueIsContiguous', DispatchIndexExact',
           \A s \in 0 .. totalSequence - 1 :
              Out!Queued(s) => Out!Queued(s)' \/ InP!Holds(s)
    PROVE  WindowInv'
<1>1. /\ maxClient' = maxClient \/ maxClient' = a
      /\ maxClient \in Nat /\ MaxQueuedOutgoing \in Nat
      /\ maxClient <= maxClient'
  BY ChannelTypes DEF OutP!RaiseMaxClient
<1>2. \/ maxClient' = maxClient
      \/ maxClient' = Head(ackNet).seq
         /\ maxClient' <= windowStart + MaxQueuedIncoming
  BY <1>1
<1>3. /\ AcksAreRecent'
      /\ \A s : InP!Holds(s)' <=> InP!Holds(s)
  BY <1>2, AckTaken
<1>4. /\ windowStart' = windowStart /\ stash' = stash
  BY DEF receiver
<1>5. SeenWasSent'
  <2>1. SUFFICES ASSUME NEW s \in Nat, Seen(s)'
                 PROVE  /\ s < totalSequence
                        /\ s <= maxClient' + MaxQueuedOutgoing
                        /\ \A i \in DOMAIN queue' :
                              queue'[i].packet.id = s => queue'[i].sent
    BY DEF SeenWasSent
  <2>2. Seen(s)
    BY <2>1, <1>3 DEF Seen
  <2>3. /\ s < totalSequence
        /\ s <= maxClient + MaxQueuedOutgoing
        /\ \A i \in DOMAIN queue : queue[i].packet.id = s => queue[i].sent
    BY <2>2 DEF WindowInv, SeenWasSent
  <2>4. s <= maxClient' + MaxQueuedOutgoing
    <3>1. \A c \in Nat : maxClient <= c => s <= c + MaxQueuedOutgoing
      BY <2>3, <1>1
    <3>2. maxClient' \in Nat
      BY <1>1
    <3> QED
      BY <3>1, <3>2, <1>1
  <2> QED
    BY <2>3, <2>4
<1>6. \A s : Held(s)' <=> InP!Holds(s)
  BY <1>4 DEF Held, InP!Holds
<1>7. MaxClientWasReceived'
  BY <1>1, <1>6 DEF WindowInv, MaxClientWasReceived, Held, InP!Holds
<1>8. NothingLost'
  <2>1. \A s \in 0 .. totalSequence - 1 : Out!Queued(s) \/ InP!Holds(s)
    BY DEF WindowInv, NothingLost, Held, InP!Holds
  <2> QED
    BY <2>1, <1>6 DEF NothingLost
<1> QED
  BY <1>3, <1>5, <1>7, <1>8 DEF WindowInv

LEMMA AcknowledgeKeeps ==
    ASSUME WindowsFit, StreamInv, WindowInv, StreamInv',
           ackNet # <<>>, ackNet' = Tail(ackNet),
           Out!NotifyOfAcknowledge(Out!Wire(Head(ackNet).seq)),
           UNCHANGED <<receiver, accepted>>
    PROVE  WindowInv'
<1> DEFINE a == Head(ackNet).seq
           l == Len(queue)
           n == totalSequence
<1>1. a \in Nat /\ InP!Holds(a) /\ a <= windowStart + MaxQueuedIncoming
      /\ OutP!TrueIncoming(OutP!Wire(a)) = a
  BY AckIsRead
<1>2. OutP!NotifyOfAcknowledge(OutP!Wire(a))
  BY SameOutput
<1>3. /\ \/ \E i \in DOMAIN queue :
               /\ queue[i].packet.id = a
               /\ queue' = OutP!RemoveAt(queue, i)
               /\ dispatchIndex' = OutP!SaturatingSub(dispatchIndex, 1)
         \/ UNCHANGED <<queue, dispatchIndex>>
      /\ OutP!RaiseMaxClient(a)
      /\ UNCHANGED <<totalSequence, dataNet>>
  BY <1>1, <1>2 DEF OutP!NotifyOfAcknowledge
<1>4. /\ n \in Nat /\ maxClient \in Nat /\ dispatchIndex \in Nat
      /\ l \in Nat /\ DOMAIN queue = 1 .. l /\ queue \in Seq(OutP!Stashed)
      /\ \A i \in 1 .. l : queue[i].packet.id \in Nat
      /\ \A i, j \in 1 .. l : i < j => queue[i].packet.id < queue[j].packet.id
  BY ChannelTypes, QueueTypes
  DEF StreamInv, OutP!OutputInvariant, OutP!QueueIsOrderedTail
<1>5. /\ maxClient' \in Nat /\ a <= maxClient' /\ maxClient <= maxClient'
  BY <1>1, <1>3, <1>4 DEF OutP!RaiseMaxClient
<1>6. /\ \A i \in 1 .. l : queue[i].packet.id > maxClient =>
            queue[i].packet.id = n - l + i - 1
      /\ \A i \in 1 .. l : queue[i].sent <=> i <= dispatchIndex
  BY <1>4 DEF WindowInv, QueueIsContiguous, DispatchIndexExact
<1> HIDE DEF a, l, n
<1>7. ASSUME QueueIsContiguous', DispatchIndexExact',
             \A i \in DOMAIN queue' : \E j \in DOMAIN queue : queue'[i] = queue[j],
             \A s \in 0 .. n - 1 : Out!Queued(s) => Out!Queued(s)' \/ InP!Holds(s)
      PROVE  WindowInv'
  BY <1>1, <1>3, <1>7, ReleaseKeeps DEF a, n
<1>8. CASE UNCHANGED <<queue, dispatchIndex>>
  <2>1. QueueIsContiguous'
    <3>1. SUFFICES ASSUME NEW i \in 1 .. l, queue[i].packet.id > maxClient'
                   PROVE  queue[i].packet.id = n - l + i - 1
      BY <1>3, <1>4, <1>8 DEF QueueIsContiguous, n, l
    <3>2. \A c \in Nat : maxClient <= c /\ queue[i].packet.id > c
                          => queue[i].packet.id > maxClient
      BY <1>4
    <3>3. queue[i].packet.id > maxClient
      BY <3>1, <3>2, <1>5
    <3> QED
      BY <3>3, <1>6
  <2>2. DispatchIndexExact'
    BY <1>8 DEF WindowInv, DispatchIndexExact
  <2>3. \A s : Out!Queued(s) => Out!Queued(s)'
    BY <1>8 DEF Out!Queued
  <2> QED
    BY <2>1, <2>2, <2>3, <1>7, <1>8
<1>9. ASSUME NEW i \in 1 .. l, queue[i].packet.id = a,
              queue' = OutP!RemoveAt(queue, i),
              dispatchIndex' = OutP!SaturatingSub(dispatchIndex, 1)
       PROVE  WindowInv'
  <2>1. /\ Len(queue') = l - 1
        /\ \A j \in 1 .. l - 1 : queue'[j] = queue[IF j < i THEN j ELSE j + 1]
        /\ queue' \in Seq(OutP!Stashed)
    <3>1. i \in DOMAIN queue /\ queue \in Seq(OutP!Stashed)
      BY <1>4
    <3>2. /\ Len(OutP!RemoveAt(queue, i)) = l - 1
          /\ \A j \in 1 .. l - 1 :
                OutP!RemoveAt(queue, i)[j] = queue[IF j < i THEN j ELSE j + 1]
          /\ OutP!RemoveAt(queue, i) \in Seq(OutP!Stashed)
      BY <3>1, OutputAssumptions, OutP!RemoveAtType DEF l
    <3> QED
      BY <3>2, <1>9
  <2>2. DOMAIN queue' = 1 .. l - 1
    BY <2>1
  <2>3. i \in Nat /\ i >= 1 /\ i <= l
    BY <1>4
  <2>4. QueueIsContiguous'
    <3>1. SUFFICES ASSUME NEW j \in 1 .. l - 1, queue'[j].packet.id > maxClient'
                   PROVE  queue'[j].packet.id = n - (l - 1) + j - 1
      BY <1>3, <2>1, <2>2 DEF QueueIsContiguous, n
    <3>2. j \in 1 .. l /\ j + 1 \in 1 .. l
      BY <1>4
    <3>3. CASE j < i
      <4>1. queue[j].packet.id < a /\ queue'[j] = queue[j]
        BY <3>2, <3>3, <1>4, <1>9, <2>1
      <4>2. \A c \in Nat : a <= c => ~(queue[j].packet.id > c)
        BY <4>1, <3>2, <1>1, <1>4
      <4> QED
        BY <3>1, <4>1, <4>2, <1>5
    <3>4. CASE ~(j < i)
      <4>1. queue'[j] = queue[j + 1]
        BY <3>4, <2>1
      <4>2. \A c \in Nat : maxClient <= c /\ queue[j + 1].packet.id > c
                            => queue[j + 1].packet.id > maxClient
        BY <3>2, <1>4
      <4>3. queue[j + 1].packet.id > maxClient
        BY <3>1, <4>1, <4>2, <1>5
      <4>4. queue[j + 1].packet.id = n - l + (j + 1) - 1
        BY <3>2, <4>3, <1>6
      <4>5. n - l + (j + 1) - 1 = n - (l - 1) + j - 1
        BY <1>4
      <4> QED
        BY <4>1, <4>4, <4>5
    <3> QED
      BY <3>3, <3>4
  <2>5. i <= dispatchIndex
    <3>1. Seen(a)
      BY <1>1 DEF Seen
    <3>2. queue[i].sent
      BY <3>1, <1>1, <1>4, <1>9 DEF WindowInv, SeenWasSent
    <3> QED
      BY <3>2, <1>6
  <2>6. dispatchIndex' = dispatchIndex - 1
    BY <2>3, <2>5, <1>4, <1>9 DEF OutP!SaturatingSub
  <2>7. DispatchIndexExact'
    <3>1. SUFFICES ASSUME NEW j \in 1 .. l - 1
                   PROVE  queue'[j].sent <=> j <= dispatchIndex - 1
      BY <2>2, <2>6 DEF DispatchIndexExact
    <3>2. j \in 1 .. l /\ j + 1 \in 1 .. l
      BY <1>4
    <3>3. CASE j < i
      <4>1. j <= dispatchIndex /\ j <= dispatchIndex - 1
        BY <3>3, <2>3, <2>5, <1>4
      <4> QED
        BY <4>1, <3>2, <3>3, <2>1, <1>6
    <3>4. CASE ~(j < i)
      <4>1. j + 1 <= dispatchIndex <=> j <= dispatchIndex - 1
        BY <1>4
      <4> QED
        BY <4>1, <3>2, <3>4, <2>1, <1>6
    <3> QED
      BY <3>3, <3>4
  <2>8. ASSUME NEW s \in 0 .. n - 1, Out!Queued(s)
        PROVE  Out!Queued(s)' \/ InP!Holds(s)
    <3>1. PICK j \in 1 .. l : queue[j].packet.id = s
      BY <2>8, <1>4 DEF Out!Queued
    <3>2. CASE j = i
      BY <3>1, <3>2, <1>1, <1>9
    <3>3. CASE j < i
      <4>1. j \in 1 .. l - 1
        BY <3>3, <2>3, <1>4
      <4> QED
        BY <4>1, <3>1, <3>3, <2>1, <2>2 DEF Out!Queued
    <3>4. CASE j > i
      <4>1. j - 1 \in 1 .. l - 1 /\ ~(j - 1 < i) /\ (j - 1) + 1 = j
        BY <3>4, <2>3, <1>4
      <4>2. queue'[j - 1] = queue[j]
        BY <4>1, <2>1
      <4> QED
        BY <4>1, <4>2, <3>1, <2>2 DEF Out!Queued
    <3> QED
      BY <3>2, <3>3, <3>4, <2>3
  <2>9. ASSUME NEW j \in DOMAIN queue'
        PROVE  \E k \in DOMAIN queue : queue'[j] = queue[k]
    <3>1. j \in 1 .. l - 1 /\ j \in 1 .. l /\ j + 1 \in 1 .. l
      BY <2>2, <1>4
    <3> QED
      BY <3>1, <2>1, <1>4
  <2> QED
    BY <2>4, <2>7, <2>8, <2>9, <1>7
<1> QED
  BY <1>3, <1>4, <1>8, <1>9

LEMMA AcknowledgeAllKeeps ==
    ASSUME WindowsFit, StreamInv, WindowInv, StreamInv',
           ackNet # <<>>, ackNet' = Tail(ackNet),
           Head(ackNet).op = "AcknowledgeAll",
           Out!NotifyOfAcknowledgeAll(Out!Wire(Head(ackNet).seq)),
           UNCHANGED <<receiver, accepted>>
    PROVE  WindowInv'
<1> DEFINE a == Head(ackNet).seq
           l == Len(queue)
           n == totalSequence
<1>1. a \in Nat /\ InP!Holds(a) /\ a <= windowStart + MaxQueuedIncoming
      /\ OutP!TrueIncoming(OutP!Wire(a)) = a /\ a < windowStart
      /\ windowStart \in Nat
  BY AckIsRead, ChannelTypes
<1>2. OutP!NotifyOfAcknowledgeAll(OutP!Wire(a))
  BY SameOutput
<1>3. PICK k \in 0 .. Len(queue) :
         /\ \A i \in 1 .. k : queue[i].packet.id <= a
         /\ queue' = SubSeq(queue, k + 1, Len(queue))
         /\ dispatchIndex' = OutP!SaturatingSub(dispatchIndex, k)
  BY <1>1, <1>2 DEF OutP!NotifyOfAcknowledgeAll
<1>4. OutP!RaiseMaxClient(a) /\ UNCHANGED <<totalSequence, dataNet>>
  BY <1>1, <1>2 DEF OutP!NotifyOfAcknowledgeAll
<1>5. /\ n \in Nat /\ maxClient \in Nat /\ dispatchIndex \in Nat
      /\ l \in Nat /\ DOMAIN queue = 1 .. l /\ queue \in Seq(OutP!Stashed)
      /\ \A i \in 1 .. l : queue[i].packet.id \in Nat
      /\ k \in Nat /\ k <= l
  BY ChannelTypes, QueueTypes
<1>6. /\ maxClient' \in Nat /\ a <= maxClient' /\ maxClient <= maxClient'
  BY <1>1, <1>4, <1>5 DEF OutP!RaiseMaxClient
<1>7. /\ \A i \in 1 .. l : queue[i].packet.id > maxClient =>
            queue[i].packet.id = n - l + i - 1
      /\ \A i \in 1 .. l : queue[i].sent <=> i <= dispatchIndex
  BY <1>5 DEF WindowInv, QueueIsContiguous, DispatchIndexExact
<1>8. /\ Len(queue') = l - k
      /\ \A j \in 1 .. l - k : queue'[j] = queue[k + j]
      /\ queue' \in Seq(OutP!Stashed)
  BY <1>3, <1>5, OutputAssumptions, OutP!DroppedFirst
<1> HIDE DEF a, l, n
<1>9. DOMAIN queue' = 1 .. l - k
       /\ \A j \in 1 .. l - k : k + j \in 1 .. l
  BY <1>5, <1>8
<1>10. QueueIsContiguous'
  <2>1. SUFFICES ASSUME NEW j \in 1 .. l - k, queue'[j].packet.id > maxClient'
                 PROVE  queue'[j].packet.id = n - (l - k) + j - 1
    BY <1>4, <1>8, <1>9 DEF QueueIsContiguous, n
  <2>2. queue'[j] = queue[k + j] /\ k + j \in 1 .. l
    BY <1>8, <1>9
  <2>3. \A c \in Nat : maxClient <= c /\ queue[k + j].packet.id > c
                        => queue[k + j].packet.id > maxClient
    BY <2>2, <1>5
  <2>4. queue[k + j].packet.id > maxClient
    BY <2>1, <2>2, <2>3, <1>6
  <2>5. queue[k + j].packet.id = n - l + (k + j) - 1
    BY <2>2, <2>4, <1>7
  <2>6. n - l + (k + j) - 1 = n - (l - k) + j - 1
    BY <1>5
  <2> QED
    BY <2>2, <2>5, <2>6
<1>11. DispatchIndexExact'
  <2>1. SUFFICES ASSUME NEW j \in 1 .. l - k
                 PROVE  queue'[j].sent <=> j <= OutP!SaturatingSub(dispatchIndex, k)
    BY <1>3, <1>9 DEF DispatchIndexExact
  <2>2. queue'[j] = queue[k + j] /\ k + j \in 1 .. l
    BY <1>8, <1>9
  <2>3. k + j <= dispatchIndex <=> j <= OutP!SaturatingSub(dispatchIndex, k)
    BY <1>5 DEF OutP!SaturatingSub
  <2> QED
    BY <2>2, <2>3, <1>7
<1>12. ASSUME NEW s \in 0 .. n - 1, Out!Queued(s)
       PROVE  Out!Queued(s)' \/ InP!Holds(s)
  <2>1. PICK i \in 1 .. l : queue[i].packet.id = s
    BY <1>12, <1>5 DEF Out!Queued
  <2>2. CASE i <= k
    <3>1. i \in 1 .. k
      BY <2>2, <1>5
    <3>2. s <= a /\ s \in Nat
      BY <2>1, <3>1, <1>3, <1>5
    <3> QED
      BY <3>2, <1>1 DEF InP!Holds
  <2>3. CASE i > k
    <3>1. i - k \in 1 .. l - k /\ k + (i - k) = i
      BY <2>3, <1>5
    <3>2. queue'[i - k] = queue[i]
      BY <3>1, <1>8
    <3> QED
      BY <2>1, <3>1, <3>2, <1>9 DEF Out!Queued
  <2> QED
    BY <2>2, <2>3, <1>5
<1>13. \A i \in DOMAIN queue' : \E j \in DOMAIN queue : queue'[i] = queue[j]
  BY <1>5, <1>8, <1>9
<1> QED
  BY <1>1, <1>4, <1>10, <1>11, <1>12, <1>13, ReleaseKeeps DEF a, n

-----------------------------------------------------------------------------
(* Every step keeps the second part.                                       *)

LEMMA WindowInit == Init => WindowInv
<1> SUFFICES ASSUME Init PROVE WindowInv
  OBVIOUS
<1>1. InP!Init /\ OutP!Init /\ accepted = <<>>
  BY SameInput, SameOutput DEF Init
<1>2. /\ windowStart = 0 /\ stash = [slot \in InP!Slots |-> InP!Empty]
      /\ buffer = <<>> /\ appData = <<>> /\ corrupt = FALSE /\ ackNet = <<>>
      /\ lastAckAll = -1
      /\ queue = <<>> /\ totalSequence = 0 /\ maxClient = 0 /\ dataNet = {}
      /\ MaxQueuedIncoming \in Nat
  BY <1>1, InputAssumptions DEF InP!Init, OutP!Init, InP!InputAssumption
<1>3. SeenWasSent
  <2>1. ASSUME NEW s \in Nat PROVE ~Seen(s)
    BY <1>2 DEF Seen, InP!Holds, InP!Empty
  <2> QED
    BY <2>1 DEF SeenWasSent
<1>4. AcksAreRecent
  BY <1>2 DEF AcksAreRecent
<1>5. QueueIsContiguous /\ DispatchIndexExact /\ MaxClientWasReceived /\ NothingLost
  BY <1>2 DEF QueueIsContiguous, DispatchIndexExact, MaxClientWasReceived, NothingLost
<1> QED
  BY <1>3, <1>4, <1>5 DEF WindowInv

LEMMA WindowNext ==
    ASSUME WindowsFit, StreamInv, StreamInv', WindowInv, [Next]_vars
    PROVE  WindowInv'
<1>1. ASSUME NEW n \in 1 .. MaxFragments, Enqueue(n) PROVE WindowInv'
  BY <1>1, EnqueueKeeps
<1>2. ASSUME NEW timedOut \in BOOLEAN, SenderTick(timedOut) PROVE WindowInv'
  BY <1>2, SenderTickKeeps
<1>3. CASE ReceiverTick
  BY <1>3, ReceiverTickKeeps
<1>4. CASE Elapse
  BY <1>4, ElapseKeeps
<1>5. ASSUME NEW packet \in dataNet, DeliverData(packet) \/ LoseData(packet)
      PROVE  WindowInv'
  BY <1>5, DeliverDataKeeps, LoseDataKeeps
<1>6. CASE DeliverAck
  BY <1>6, AcknowledgeKeeps, AcknowledgeAllKeeps DEF DeliverAck
<1>7. CASE LoseAck
  BY <1>7, LoseAckKeeps
<1>8. CASE UNCHANGED vars
  <2>1. /\ UNCHANGED <<receiver, ackNet>> /\ UNCHANGED sender /\ UNCHANGED accepted
        /\ dataNet' \subseteq dataNet
    BY <1>8 DEF vars
  <2>3. AcksAreRecent'
    BY <2>1 DEF WindowInv, AcksAreRecent, sender, receiver
  <2> QED
    BY <2>1, <2>3, QuietKeeps DEF receiver
<1> QED
  BY <1>1, <1>2, <1>3, <1>4, <1>5, <1>6, <1>7, <1>8 DEF Next

LEMMA WindowInvariant ==
    ASSUME WindowsFit
    PROVE  Spec => []WindowInv
<1>1. Init => WindowInv
  BY WindowInit
<1>2. StreamInv /\ StreamInv' /\ WindowInv /\ [Next]_vars => WindowInv'
  BY WindowNext
<1> QED
  BY <1>1, <1>2, StreamInvariant, PTL DEF Spec

\* Every packet the sender gave up is held by the receiver.
THEOREM ChannelLosesNothing ==
    ASSUME WindowsFit
    PROVE  Spec => []NothingLost
<1>1. WindowInv => NothingLost
  BY DEF WindowInv
<1> QED
  BY <1>1, WindowInvariant, PTL

\* An acknowledgement is never taken for one of a packet the receiver has yet
\* to see.
THEOREM ChannelReadsAcks ==
    ASSUME WindowsFit
    PROVE  Spec => []MaxClientWasReceived
<1>1. WindowInv => MaxClientWasReceived
  BY DEF WindowInv
<1> QED
  BY <1>1, WindowInvariant, PTL

\* The dispatch index separates what was sent from what was not, so nothing is
\* sent again before it is overdue.
THEOREM ChannelKeepsItsIndex ==
    ASSUME WindowsFit
    PROVE  Spec => []DispatchIndexExact
<1>1. WindowInv => DispatchIndexExact
  BY DEF WindowInv
<1> QED
  BY <1>1, WindowInvariant, PTL

==============================================================================
