------------------------------- MODULE Session -------------------------------
(***************************************************************************)
(* One session (src/session.rs): negotiation, the packets it accepts and   *)
(* in which state, heartbeats and the inactivity timeout, termination and  *)
(* the order in which what it produces leaves it.                          *)
(*                                                                         *)
(* A session is a record, and every method of SoeSession an operator from  *)
(* that record to the next one. A reliable channel is what a session sees  *)
(* of it (ReliableInput and ReliableOutput are the channels themselves):   *)
(*   - an output counts the packets it has `queued`, how many of them it   *)
(*     has `sent`, and those `ready` to be flushed, and knows whether what *)
(*     it sent is `overdue`;                                               *)
(*   - an input holds the `acks` and the `app` data to be flushed, and     *)
(*     whether an AcknowledgeAll is `owed`.                                *)
(* What the channels make of a packet is the packet's to say: a reliable   *)
(* one has an `effect`, an acknowledgement `covers` some packets that were *)
(* sent. A channel not yet created behaves like an empty one.              *)
(* acknowledge_all_data is off, as it is by default.                       *)
(*                                                                         *)
(* A datagram that passes for a packet of the session carries the CRC seed *)
(* it was framed with: the session accepts its own `key` only. crc_length  *)
(* is never 0, so that the seed always counts.                             *)
(*                                                                         *)
(* A unit of time is longer than any retransmit timeout (at most eight     *)
(* seconds): after one, all that was sent is overdue. Ticks are further    *)
(* apart than max_ack_delay: each finds an acknowledgement due.            *)
(***************************************************************************)
EXTENDS Naturals, SequencesExt

CONSTANTS
    ChannelCount,        \* RELIABLE_CHANNEL_COUNT
    Window,              \* max_queued_outgoing_reliable
    HeartbeatAfter,      \* heartbeat_after, 0 when disabled
    InactivityTimeout,   \* inactivity_timeout, 0 when disabled
    Ids,                 \* session ids
    Keys                 \* CRC seeds a server may draw

NoKey == 0     \* the seed a session starts with
NoId == 0

ASSUME SessionAssumption ==
    /\ ChannelCount \in Nat \ {0}
    /\ Window \in Nat \ {0}
    /\ HeartbeatAfter \in Nat
    /\ InactivityTimeout \in Nat
    /\ Ids \subseteq Nat \ {NoId}
    /\ Keys \subseteq Nat

\* What packets are framed with: a session that negotiates accepts those of
\* the seed it starts with.
Seeds == Keys \cup {NoKey}

Channels == 0 .. ChannelCount - 1
Least(a, b) == IF a < b THEN a ELSE b

\* What a session sends.
SessionRequest(id) ==
    [op |-> "SessionRequest", id |-> id, body |-> "Matching"]
SessionResponse(id, key) ==
    [op |-> "SessionResponse", id |-> id, key |-> key, body |-> "Matching"]
Contextual(key, packet) ==
    [op |-> "Contextual", key |-> key, packets |-> <<packet>>]
Unreliable(key) == [op |-> "Unreliable", key |-> key, known |-> TRUE]

EmptyInput == [acks |-> <<>>, app |-> 0, owed |-> FALSE]
EmptyOutput == [queued |-> 0, sent |-> 0, ready |-> 0, overdue |-> FALSE]

New(mode) ==
    [mode |-> mode, state |-> "Negotiating", key |-> NoKey, id |-> NoId,
     openOnNextPacket |-> FALSE, idle |-> 0, reason |-> "None",
     byRemote |-> FALSE,
     inputs |-> [ch \in Channels |-> EmptyInput],
     outputs |-> [ch \in Channels |-> EmptyOutput],
     outgoing |-> <<>>, received |-> <<>>, events |-> <<>>]

-----------------------------------------------------------------------------
(* The channels, as run_tick and flush_channels drive them. *)

\* What a channel has to send, acknowledgements first.
Pending(s, ch) ==
    [i \in DOMAIN s.inputs[ch].acks |->
        Contextual(s.key, [op |-> s.inputs[ch].acks[i], channel |-> ch,
                           covers |-> 0])]
    \o [i \in 1 .. s.outputs[ch].ready |->
           Contextual(s.key, [op |-> "ReliableData", channel |-> ch,
                              effect |-> "Dropped"])]

FlushChannels(s) ==
    [s EXCEPT
        !.outgoing = @ \o FlattenSeq([i \in 1 .. ChannelCount |->
                                         Pending(s, i - 1)]),
        !.received = @ \o FlattenSeq([i \in 1 .. ChannelCount |->
                              [j \in 1 .. s.inputs[i - 1].app |-> i - 1]]),
        !.inputs   = [ch \in Channels |->
                         [@[ch] EXCEPT !.acks = <<>>, !.app = 0]],
        !.outputs  = [ch \in Channels |-> [@[ch] EXCEPT !.ready = 0]]]

TickInput(input) ==
    IF input.owed
    THEN [input EXCEPT !.acks = Append(@, "AcknowledgeAll"), !.owed = FALSE]
    ELSE input

\* Mutant of TickOutput: the end of the queue is forgotten.
TickOutputByWindow(output) ==
    [output EXCEPT !.ready = @ + Window - output.sent, !.sent = Window]

TickOutput(output) ==
    LET first == IF output.overdue /\ output.sent > 0 THEN 0 ELSE output.sent
        limit == Least(output.queued, Window)
    IN  [output EXCEPT !.ready   = @ + limit - first,
                       !.sent    = limit,
                       !.overdue = FALSE]

TickOutputs(s) ==
    [s EXCEPT !.outputs = [ch \in Channels |-> TickOutput(@[ch])]]
TickInputs(s) ==
    [s EXCEPT !.inputs = [ch \in Channels |-> TickInput(@[ch])]]

-----------------------------------------------------------------------------
(* Termination. *)

\* Mutant of Terminate: a session that has ended ends again.
TerminateAgain(s, reason, notifyRemote, byRemote) ==
    LET flushed == FlushChannels(TickOutputs(s))
    IN  [flushed EXCEPT !.state    = "Terminated",
                        !.reason   = reason,
                        !.byRemote = byRemote,
                        !.events   = Append(@, "Closed")]

Terminate(s, reason, notifyRemote, byRemote) ==
    LET flushed == FlushChannels(TickOutputs(s))
        notice  == Contextual(s.key, [op |-> "Disconnect", reason |-> reason])
    IN  IF s.state = "Terminated" THEN s
        ELSE [flushed EXCEPT
                 !.state    = "Terminated",
                 !.reason   = reason,
                 !.byRemote = byRemote,
                 !.events   = Append(@, "Closed"),
                 !.outgoing = IF notifyRemote /\ s.state = "Running"
                              THEN Append(@, notice) ELSE @]

Refuse(s, reason) == Terminate(s, reason, TRUE, FALSE)
Abandon(s, reason) == Terminate(s, reason, FALSE, FALSE)

-----------------------------------------------------------------------------
(* Negotiation. *)

SendSessionRequest(s, id) ==
    IF s.state # "Negotiating" \/ s.mode # "Client" THEN s
    ELSE [s EXCEPT !.id = id, !.outgoing = Append(@, SessionRequest(id))]

\* The id is taken over before the state is looked at.
HandleSessionRequest(s, request, key) ==
    LET named == [s EXCEPT !.id = request.id]
    IN  IF s.mode = "Client" THEN Abandon(s, "ConnectingToSelf")
        ELSE IF request.body = "Malformed" THEN Refuse(s, "CorruptPacket")
        ELSE IF s.state # "Negotiating" THEN Refuse(named, "ConnectError")
        ELSE IF request.body = "Mismatched"
             THEN Refuse(named, "ProtocolMismatch")
        ELSE [named EXCEPT
                 !.key = key,
                 !.outgoing = Append(@, SessionResponse(request.id, key)),
                 !.state = "Running",
                 !.openOnNextPacket = TRUE]

HandleSessionResponse(s, response) ==
    IF s.mode = "Server" THEN Abandon(s, "ConnectingToSelf")
    ELSE IF response.body = "Malformed" THEN Refuse(s, "CorruptPacket")
    ELSE IF s.state # "Negotiating" THEN Refuse(s, "ConnectError")
    ELSE IF response.body = "Mismatched" THEN Refuse(s, "ProtocolMismatch")
    ELSE [s EXCEPT !.key = response.key,
                   !.id = response.id,
                   !.state = "Running",
                   !.events = Append(@, "Opened")]

-----------------------------------------------------------------------------
(* Packets of a session. *)

\* A packet is a "Fragment" when it completes nothing, and "Malformed" when it
\* delivers data but releases a stashed fragment that is malformed.
HandleReliableData(s, packet) ==
    LET ch        == packet.channel
        delivered == [s EXCEPT !.inputs[ch].app = @ + 1]
    IN  CASE packet.effect = "InOrder" ->
                 [delivered EXCEPT !.inputs[ch].owed = TRUE]
          [] packet.effect = "Fragment" -> [s EXCEPT !.inputs[ch].owed = TRUE]
          [] packet.effect = "Ahead" ->
                 [s EXCEPT !.inputs[ch].acks = Append(@, "Acknowledge")]
          [] packet.effect = "Nudged" ->
                 [s EXCEPT !.inputs[ch].acks = Append(@, "AcknowledgeAll"),
                           !.inputs[ch].owed = FALSE]
          [] packet.effect = "Dropped" -> s
          [] packet.effect = "Malformed" -> Refuse(delivered, "CorruptPacket")

\* An acknowledgement releases packets that were sent.
Release(output, covers) ==
    LET n == Least(covers, output.sent)
    IN  [output EXCEPT !.queued = @ - n, !.sent = @ - n]

HandlePacket(s, packet) ==
    CASE packet.op = "Disconnect" ->
             Terminate(s, packet.reason, FALSE, TRUE)
      [] packet.op = "Heartbeat" ->
             IF s.mode = "Server"
             THEN [s EXCEPT !.outgoing =
                      Append(@, Contextual(s.key, [op |-> "Heartbeat"]))]
             ELSE s
      [] packet.op = "ReliableData" -> HandleReliableData(s, packet)
      [] packet.op \in {"Acknowledge", "AcknowledgeAll"} ->
             [s EXCEPT !.outputs[packet.channel] = Release(@, packet.covers)]
      [] packet.op = "Malformed" -> Refuse(s, "CorruptPacket")
      [] packet.op = "Other" -> s

\* Mutant of HandlePackets: a bundle is processed to its end.
HandleEveryPacket(s, packets) == FoldLeft(HandlePacket, s, packets)

\* A MultiPacket is its packets one after the other, up to the one that
\* terminates the session: what they leave of it, packet by packet.
HandleNext(r, packet) ==
    IF r.state = "Terminated" THEN r ELSE HandlePacket(r, packet)

Handled(s, packets) ==
    LET r[i \in 0 .. Len(packets)] ==
            IF i = 0 THEN s ELSE HandleNext(r[i - 1], packets[i])
    IN  r

HandlePackets(s, packets) == Handled(s, packets)[Len(packets)]

\* Mutant of HandleUnreliable: a packet of a wrong CRC counts as a sign of life.
HandleUnreliableRefreshing(s, datagram) ==
    IF s.state # "Running" THEN Refuse(s, "CorruptPacket")
    ELSE IF datagram.key # s.key THEN [s EXCEPT !.idle = 0]
    ELSE [s EXCEPT !.idle = 0, !.received = Append(@, ChannelCount)]

\* A datagram without an OP code. An unknown control packet is corruption; a
\* wrong CRC on a best-effort packet is not.
HandleUnreliable(s, datagram) ==
    IF s.state # "Running" THEN Refuse(s, "CorruptPacket")
    ELSE IF datagram.key # s.key THEN s
    ELSE IF ~datagram.known THEN Refuse(s, "CorruptPacket")
    ELSE [s EXCEPT !.idle = 0,
                   !.events = IF s.openOnNextPacket THEN Append(@, "Opened")
                                                    ELSE @,
                   !.openOnNextPacket = FALSE,
                   !.received = Append(@, ChannelCount)]

\* Mutant of Accept: the session opens after the packet was handled.
AcceptWithoutOpening(s) == [s EXCEPT !.idle = 0]

\* What every valid packet does before it is handled.
Accept(s) ==
    [s EXCEPT !.events = IF s.openOnNextPacket THEN Append(@, "Opened") ELSE @,
              !.openOnNextPacket = FALSE,
              !.idle = 0]

\* Mutant of ProcessIncoming: no CRC is verified.
ProcessIncomingAnySeed(s, datagram, key) ==
    IF s.state = "Terminated" THEN s
    ELSE CASE datagram.op = "Unreliable" ->
                  FlushChannels(HandleUnreliable(s, datagram))
           [] datagram.op = "Contextual" ->
                  FlushChannels(HandlePackets(Accept(s), datagram.packets))
           [] datagram.op = "SessionRequest" ->
                  FlushChannels(HandleSessionRequest(Accept(s), datagram, key))
           [] datagram.op = "SessionResponse" ->
                  FlushChannels(HandleSessionResponse(Accept(s), datagram))

\* `key` is the seed that the session's generator would draw next.
ProcessIncoming(s, datagram, key) ==
    IF s.state = "Terminated" THEN s
    ELSE CASE datagram.op = "Unreliable" ->
                  FlushChannels(HandleUnreliable(s, datagram))
           [] datagram.op = "Short" -> Refuse(s, "CorruptPacket")
           [] datagram.op = "Contextual" ->
                  IF datagram.key = s.key
                  THEN FlushChannels(HandlePackets(Accept(s), datagram.packets))
                  ELSE Refuse(s, "CorruptPacket")
           [] datagram.op = "SessionRequest" ->
                  FlushChannels(HandleSessionRequest(Accept(s), datagram, key))
           [] datagram.op = "SessionResponse" ->
                  FlushChannels(HandleSessionResponse(Accept(s), datagram))
           [] datagram.op = "UnknownSender" ->
                  FlushChannels(Abandon(Accept(s), "UnreachableConnection"))
           [] datagram.op = "RemapConnection" -> FlushChannels(Accept(s))

-----------------------------------------------------------------------------
(* Time. *)

\* Mutant of HeartbeatDue: the roles are swapped.
ServerHeartbeatDue(s) ==
    /\ s.mode = "Server"
    /\ s.state = "Running"
    /\ HeartbeatAfter # 0
    /\ s.idle > HeartbeatAfter

HeartbeatDue(s) ==
    /\ s.mode = "Client"
    /\ s.state = "Running"
    /\ HeartbeatAfter # 0
    /\ s.idle > HeartbeatAfter

SendHeartbeatIfRequired(s) ==
    IF HeartbeatDue(s)
    THEN [s EXCEPT !.outgoing =
             Append(@, Contextual(s.key, [op |-> "Heartbeat"]))]
    ELSE s

\* Mutants of Inactive: a session that is not running, or one that has not
\* opened, does not time out.
InactiveWhenRunning(s) ==
    /\ s.state = "Running"
    /\ InactivityTimeout # 0 /\ s.idle > InactivityTimeout
InactiveOnceOpened(s) ==
    /\ ~s.openOnNextPacket
    /\ InactivityTimeout # 0 /\ s.idle > InactivityTimeout

Inactive(s) == InactivityTimeout # 0 /\ s.idle > InactivityTimeout

RunTick(s) ==
    LET beaten == SendHeartbeatIfRequired(s)
    IN  IF s.state = "Terminated" THEN s
        ELSE IF Inactive(s) THEN Abandon(beaten, "Timeout")
        ELSE FlushChannels(TickOutputs(TickInputs(beaten)))

MaxIdle == 1 + IF HeartbeatAfter > InactivityTimeout THEN HeartbeatAfter
                                                     ELSE InactivityTimeout

Age(s) ==
    [s EXCEPT !.idle = Least(@ + 1, MaxIdle),
              !.outputs = [ch \in Channels |->
                              [@[ch] EXCEPT !.overdue = s.outputs[ch].sent > 0]]]

-----------------------------------------------------------------------------
(* The application. *)

EnqueueReliable(s, ch) ==
    IF s.state # "Running" THEN s
    ELSE [s EXCEPT !.outputs[ch].queued = @ + 1]

\* Best-effort data that does not fit a datagram goes on reliable channel 0.
EnqueueUnreliable(s, tooLarge) ==
    IF s.state # "Running" THEN s
    ELSE IF tooLarge THEN EnqueueReliable(s, 0)
    ELSE [s EXCEPT !.outgoing = Append(@, Unreliable(s.key))]
=============================================================================
