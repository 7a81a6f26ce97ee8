---------------------------- MODULE ReliableInput ----------------------------
(***************************************************************************)
(* The receiving end of one reliable channel (src/channel/input.rs): the   *)
(* window of sequences it accepts, the stash of packets that arrived ahead *)
(* of order, the reassembly of fragments, and the acknowledgements.        *)
(*                                                                         *)
(* A packet is [id, frag, total]: `id` is the count its sender gave it (a  *)
(* handler sees only Wire(id)), `frag` tells a ReliableDataFragment from a *)
(* ReliableData, and `total` is what its first four bytes would say as the *)
(* length prefix of a master fragment, NoPrefix when it has fewer than     *)
(* four. Lengths count fragments, each of which carries one unit of data.  *)
(* A decoded application buffer is the sequence of the ids it was built    *)
(* from. An acknowledgement is [op, seq], which travels as Wire(seq).      *)
(*                                                                         *)
(* Time is the age of the last AcknowledgeAll, in units of which           *)
(* MaxAckDelay make up max_ack_delay.                                      *)
(***************************************************************************)
EXTENDS Sequence, Sequences, FiniteSets

CONSTANTS
    MaxQueuedIncoming,   \* InputConfig::max_queued_incoming
    AcknowledgeAllData,  \* InputConfig::acknowledge_all_data
    DataAckWindow,       \* InputConfig::data_ack_window
    MaxAckDelay,         \* InputConfig::max_ack_delay
    Ids,                 \* the counts a remote gives its packets
    Totals               \* the length prefixes it writes

NoPrefix == -1

ASSUME InputAssumption ==
    /\ MaxQueuedIncoming \in Nat \ {0}
    /\ AcknowledgeAllData \in BOOLEAN
    /\ DataAckWindow \in Nat
    /\ MaxAckDelay \in Nat
    /\ Ids \subseteq Nat
    /\ Totals \subseteq Nat \cup {NoPrefix}
    /\ NoPrefix \in Totals

\* The number space holds both halves of the window: a condition the code
\* leaves to its configuration (max_queued_incoming is any u16).
ASSUME InputWindowAssumption == 2 * MaxQueuedIncoming < SeqSpace

\* Only a fragment can be read as a master with a length prefix.
Packet == {packet \in [id : Ids, frag : BOOLEAN, total : Totals] :
              packet.frag \/ packet.total = NoPrefix}
Ack == [op : {"Acknowledge", "AcknowledgeAll"}, seq : Int]

VARIABLES
    windowStart,   \* window_start_sequence
    stash,         \* slot -> packet, or Empty
    buffer,        \* current_buffer: the ids of its fragments, <<>> for None
    expected,      \* expected_data_length
    appData,       \* everything pushed to app_data so far
    corrupt,       \* CorruptData was returned; the session is terminated
    lastAckAll,    \* last_ack_all_sequence
    ackAge,        \* now - last_ack_all_time, up to just above MaxAckDelay
    outgoing       \* acknowledgements to be sent

reassembly == <<buffer, expected, appData, corrupt>>
vars == <<windowStart, stash, reassembly, lastAckAll, ackAge, outgoing>>

Empty == [id |-> -1, frag |-> FALSE, total |-> NoPrefix]
Slots == 0 .. MaxQueuedIncoming - 1
Slot(sequence) == sequence % MaxQueuedIncoming

Init ==
    /\ windowStart = 0
    /\ stash = [slot \in Slots |-> Empty]
    /\ buffer = <<>>
    /\ expected = 0
    /\ appData = <<>>
    /\ corrupt = FALSE
    /\ lastAckAll = -1
    /\ ackAge = 0
    /\ outgoing = <<>>

-----------------------------------------------------------------------------
(* Reassembly. *)

Reassembly == [buffer |-> buffer, expected |-> expected,
               appData |-> appData, corrupt |-> corrupt]

\* Mutants of Absorb. The length prefix is stored before it is checked.
AbsorbStoringFirst(r, packet) ==
    LET master == r.buffer = <<>>
        joined == Append(r.buffer, packet.id)
        length == IF master THEN packet.total ELSE r.expected
    IN  IF r.corrupt THEN r
        ELSE IF ~packet.frag
             THEN [r EXCEPT !.appData = Append(@, <<packet.id>>)]
        ELSE IF Len(joined) >= length /\ packet.total # NoPrefix
             THEN [buffer |-> <<>>, expected |-> 0,
                   appData |-> Append(r.appData, joined), corrupt |-> FALSE]
        ELSE [buffer |-> joined, expected |-> length,
              appData |-> r.appData, corrupt |-> master /\ length = NoPrefix]

\* The buffer is not cleared when it is complete.
AbsorbKeepingBuffer(r, packet) ==
    LET joined == Append(r.buffer, packet.id)
        length == IF r.buffer = <<>> THEN packet.total ELSE r.expected
    IN  IF r.corrupt THEN r
        ELSE IF ~packet.frag
             THEN [r EXCEPT !.appData = Append(@, <<packet.id>>)]
        ELSE IF Len(joined) >= length
             THEN [r EXCEPT !.appData = Append(@, joined), !.buffer = joined]
        ELSE [r EXCEPT !.buffer = joined, !.expected = length]

\* A message is complete only when it is longer than its prefix says.
AbsorbPastLength(r, packet) ==
    LET master == r.buffer = <<>>
        joined == Append(r.buffer, packet.id)
        length == IF master THEN packet.total ELSE r.expected
    IN  IF r.corrupt THEN r
        ELSE IF ~packet.frag
             THEN [r EXCEPT !.appData = Append(@, <<packet.id>>)]
        ELSE IF Len(joined) > length
             THEN [buffer |-> <<>>, expected |-> 0,
                   appData |-> Append(r.appData, joined), corrupt |-> FALSE]
        ELSE [buffer |-> joined, expected |-> length,
              appData |-> r.appData, corrupt |-> FALSE]

\* What processing one packet in order does to the reassembly state.
Absorb(r, packet) ==
    LET master == r.buffer = <<>>
        joined == Append(r.buffer, packet.id)
        length == IF master THEN packet.total ELSE r.expected
    IN  IF r.corrupt THEN r
        ELSE IF ~packet.frag
             THEN [r EXCEPT !.appData = Append(@, <<packet.id>>)]
        ELSE IF master /\ packet.total = NoPrefix
             THEN [r EXCEPT !.corrupt = TRUE]
        ELSE IF Len(joined) >= length
             THEN [buffer |-> <<>>, expected |-> 0,
                   appData |-> Append(r.appData, joined), corrupt |-> FALSE]
        ELSE [buffer |-> joined, expected |-> length,
              appData |-> r.appData, corrupt |-> FALSE]

\* The reassembly state after each of a sequence of packets, from r on.
Absorbed(r, packets) ==
    LET after[i \in 0 .. Len(packets)] ==
            IF i = 0 THEN r ELSE Absorb(after[i - 1], packets[i])
    IN  after

-----------------------------------------------------------------------------
(* Acknowledgements. *)

SendAckAll(sequence) ==
    /\ outgoing' = Append(outgoing, [op |-> "AcknowledgeAll", seq |-> sequence])
    /\ lastAckAll' = sequence
    /\ ackAge' = 0

\* The individual acknowledgement of a packet in the window: of every one in
\* ack-all-data mode, otherwise of those ahead of order.
AcknowledgePacket(sequence) ==
    /\ outgoing' = IF AcknowledgeAllData \/ sequence # windowStart
                   THEN Append(outgoing, [op |-> "Acknowledge", seq |-> sequence])
                   ELSE outgoing
    /\ UNCHANGED <<lastAckAll, ackAge>>

-----------------------------------------------------------------------------
(* handle_reliable_data and handle_reliable_data_fragment, by where the    *)
(* packet's sequence falls.                                                *)

SequenceOf(packet) ==
    TrueIncomingSequence(Wire(packet.id), windowStart, MaxQueuedIncoming)

DropTooFarAhead(packet) ==
    /\ SequenceOf(packet) > windowStart + MaxQueuedIncoming
    /\ UNCHANGED vars

DropAlreadyProcessed(packet) ==
    /\ SequenceOf(packet) < windowStart
    /\ IF ackAge < MaxAckDelay
       THEN SendAckAll(windowStart - 1)
       ELSE UNCHANGED <<lastAckAll, ackAge, outgoing>>
    /\ UNCHANGED <<windowStart, stash, reassembly>>

\* Mutants of StashAhead. Packets beyond the window are stashed too.
StashAnyAhead(packet) ==
    LET sequence == SequenceOf(packet)
    IN  /\ sequence > windowStart
        /\ AcknowledgePacket(sequence)
        /\ stash' = IF stash[Slot(sequence)] = Empty
                    THEN [stash EXCEPT ![Slot(sequence)] = packet]
                    ELSE stash
        /\ UNCHANGED <<windowStart, reassembly>>

\* A packet takes its slot whatever is in it.
StashAheadReplacing(packet) ==
    LET sequence == SequenceOf(packet)
    IN  /\ sequence > windowStart
        /\ sequence <= windowStart + MaxQueuedIncoming
        /\ AcknowledgePacket(sequence)
        /\ stash' = [stash EXCEPT ![Slot(sequence)] = packet]
        /\ UNCHANGED <<windowStart, reassembly>>

StashAhead(packet) ==
    LET sequence == SequenceOf(packet)
    IN  /\ sequence > windowStart
        /\ sequence <= windowStart + MaxQueuedIncoming
        /\ AcknowledgePacket(sequence)
        /\ stash' = IF stash[Slot(sequence)] = Empty
                    THEN [stash EXCEPT ![Slot(sequence)] = packet]
                    ELSE stash
        /\ UNCHANGED <<windowStart, reassembly>>

\* The n stashed packets that follow the window's start.
StashedRun(n) == [i \in 1 .. n |-> stash[Slot(windowStart + i)]]

\* Mutant of ProcessInOrder: the stash is consumed before the packet that came.
ProcessInOrderStashFirst(packet) ==
    /\ SequenceOf(packet) = windowStart
    /\ AcknowledgePacket(windowStart)
    /\ \E n \in 0 .. MaxQueuedIncoming :
          LET run   == StashedRun(n)
              after == Absorbed(Reassembly, run \o <<packet>>)
              r     == after[n + 1]
              freed == {Slot(windowStart + i) : i \in 1 .. n}
          IN  /\ \A i \in 1 .. n : run[i] # Empty
              /\ ~after[n].corrupt
              /\ n = MaxQueuedIncoming \/ stash[Slot(windowStart + n + 1)] = Empty
              /\ stash' = [slot \in Slots |->
                              IF slot \in freed THEN Empty ELSE stash[slot]]
              /\ windowStart' = windowStart + n + (IF r.corrupt THEN 0 ELSE 1)
              /\ buffer' = r.buffer
              /\ expected' = r.expected
              /\ appData' = r.appData
              /\ corrupt' = r.corrupt

\* A packet in order is processed, then the stashed packets that follow it,
\* up to the first free slot or the first malformed packet. The stash gives
\* up what it hands over; the window does not pass a malformed packet.
ProcessInOrder(packet) ==
    /\ SequenceOf(packet) = windowStart
    /\ AcknowledgePacket(windowStart)
    /\ \E n \in 0 .. MaxQueuedIncoming :
          LET run   == StashedRun(n)
              after == Absorbed(Reassembly, <<packet>> \o run)
              r     == after[n + 1]
              freed == {Slot(windowStart + i) : i \in 1 .. n}
          IN  /\ \A i \in 1 .. n : run[i] # Empty
              /\ ~after[n].corrupt
              /\ \/ r.corrupt
                 \/ n = MaxQueuedIncoming
                 \/ stash[Slot(windowStart + n + 1)] = Empty
              /\ stash' = [slot \in Slots |->
                              IF slot \in freed THEN Empty ELSE stash[slot]]
              /\ windowStart' = windowStart + n + (IF r.corrupt THEN 0 ELSE 1)
              /\ buffer' = r.buffer
              /\ expected' = r.expected
              /\ appData' = r.appData
              /\ corrupt' = r.corrupt

HandleReliable(packet) ==
    /\ ~corrupt
    /\ \/ DropTooFarAhead(packet)
       \/ DropAlreadyProcessed(packet)
       \/ StashAhead(packet)
       \/ ProcessInOrder(packet)

-----------------------------------------------------------------------------

\* Mutant of AckAllDue: the age of the last acknowledgement does not count.
AckAllDueByWindow == windowStart - 1 >= lastAckAll + DataAckWindow \div 2

AckAllDue ==
    \/ ackAge > MaxAckDelay
    \/ windowStart - 1 >= lastAckAll + DataAckWindow \div 2

\* Mutant of RunTick: it acknowledges the packet it waits for.
RunTickAckingNext ==
    /\ ~corrupt
    /\ ~AcknowledgeAllData
    /\ windowStart - 1 > lastAckAll
    /\ AckAllDue
    /\ SendAckAll(windowStart)
    /\ UNCHANGED <<windowStart, stash, reassembly>>

RunTick ==
    /\ ~corrupt
    /\ ~AcknowledgeAllData
    /\ windowStart - 1 > lastAckAll
    /\ AckAllDue
    /\ SendAckAll(windowStart - 1)
    /\ UNCHANGED <<windowStart, stash, reassembly>>

Elapse ==
    /\ ackAge <= MaxAckDelay
    /\ ackAge' = ackAge + 1
    /\ UNCHANGED <<windowStart, stash, reassembly, lastAckAll, outgoing>>

TakeOutgoing ==
    /\ outgoing # <<>>
    /\ outgoing' = <<>>
    /\ UNCHANGED <<windowStart, stash, reassembly, lastAckAll, ackAge>>

-----------------------------------------------------------------------------
(***************************************************************************)
(* Any remote: it gives any body to any sequence, and the network loses,   *)
(* repeats and reorders what it sends, but holds no packet so long, and    *)
(* the remote runs so little ahead, that a number could mean two counts    *)
(* around the window (SeqSpace is 65536 against windows of a few hundred).   *)
(***************************************************************************)
WithinLifetime(packet) ==
    /\ windowStart + MaxQueuedIncoming < packet.id + SeqSpace
    /\ packet.id < windowStart - MaxQueuedIncoming + SeqSpace

Receive(packet) == WithinLifetime(packet) /\ HandleReliable(packet)

Next ==
    \/ \E packet \in Packet : Receive(packet)
    \/ RunTick
    \/ Elapse
    \/ TakeOutgoing

Spec == Init /\ [][Next]_vars

-----------------------------------------------------------------------------
(* Correctness. *)

Stashed == {packet \in {stash[slot] : slot \in Slots} : packet # Empty}

\* Every variable stays in its range; slots are never lost or added.
TypeOK ==
    /\ windowStart \in Nat
    /\ stash \in [Slots -> Packet \cup {Empty}]
    /\ buffer \in Seq(Ids) /\ expected \in Nat
    /\ appData \in Seq(Seq(Ids)) /\ corrupt \in BOOLEAN
    /\ lastAckAll \in Int /\ ackAge \in 0 .. MaxAckDelay + 1
    /\ outgoing \in Seq(Ack)

\* The window is inclusive at both ends, so the sequences windowStart and
\* windowStart + MaxQueuedIncoming share a slot (input.rs:240-250 and 268).
\* Even so a stashed packet always lies strictly ahead of the window's start
\* and within the window, in its own slot: consume_stashed, which looks at
\* slots and never at sequences, hands packets over in sequence.
StashAheadOfWindow ==
    \A slot \in Slots : stash[slot] # Empty =>
        /\ windowStart < stash[slot].id
        /\ stash[slot].id <= windowStart + MaxQueuedIncoming
        /\ Slot(stash[slot].id) = slot

\* Whatever a remote sends, repeats or reorders, the sequences before the
\* window's start reached the application or the reassembly buffer exactly
\* once, and no others did.
UnitsHoldEachOnce(units, count) ==
    /\ \A m \in DOMAIN units : \A k \in DOMAIN units[m] :
          units[m][k] \in 0 .. count - 1
    /\ \A id \in 0 .. count - 1 :
          \E m \in DOMAIN units : \E k \in DOMAIN units[m] : units[m][k] = id
    /\ \A m, n \in DOMAIN units :
          \A j \in DOMAIN units[m], k \in DOMAIN units[n] :
              units[m][j] = units[n][k] => m = n /\ j = k

HoldsEachOnce(r, count) == UnitsHoldEachOnce(Append(r.appData, r.buffer), count)

EachSequenceOnce == HoldsEachOnce(Reassembly, windowStart)

\* The application is given data in the order of its sequences, however the
\* packets arrived: each unit, and what is held of the next, is built in the
\* order in which its packets were sent, and a unit comes after another only if
\* the packet that completed it was sent after all packets of the other. (Its
\* first packets need not be: a remote may send a packet of data between two
\* fragments, which is passed on before them.)
Ascends(unit) == \A j, k \in DOMAIN unit : j < k => unit[j] < unit[k]

UnitsInOrder(units) ==
    /\ \A m \in DOMAIN units : Ascends(units[m])
    /\ \A m, n \in DOMAIN units : m < n =>
          \E k \in DOMAIN units[n] : \A j \in DOMAIN units[m] :
              units[m][j] < units[n][k]

HoldsInOrder(r) == UnitsInOrder(r.appData) /\ Ascends(r.buffer)

DeliveredInOrder == HoldsInOrder(Reassembly)

\* An "ordered, lossless" channel (session.rs:72), at the receiver: whatever
\* arrives, each sequence is taken in once, and in order.
OnceInOrder == EachSequenceOnce /\ DeliveredInOrder

\* No acknowledgement waits to be sent for a packet the channel does not
\* hold: an individual one names a stashed or processed packet, a cumulative
\* one only processed packets (input.rs:170-176, 231-250, 277-280).
AcknowledgedIsHeld ==
    ~corrupt => \A i \in DOMAIN outgoing :
        LET ack == outgoing[i]
        IN  \/ ack.seq < windowStart
            \/ /\ ack.op = "Acknowledge"
               /\ \E packet \in Stashed : packet.id = ack.seq

\* What was stashed is only let go of when it is processed, or when the
\* session is over: neither a duplicate nor a packet one window further on
\* replaces it, and an acknowledged packet is never forgotten.
StashStays ==
    \A slot \in Slots :
        stash[slot] # Empty => \/ stash'[slot] = stash[slot]
                               \/ stash[slot].id < windowStart'
                               \/ corrupt'

StashedStaysUntilProcessed == [][StashStays]_vars
=============================================================================
