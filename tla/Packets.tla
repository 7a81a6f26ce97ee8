------------------------------- MODULE Packets -------------------------------
(***************************************************************************)
(* The packets of the protocol as bytes: OP codes (src/protocol.rs), the   *)
(* fields of each packet (src/packets.rs) and what a datagram must be to   *)
(* pass for one (src/packet_utils.rs).                                     *)
(***************************************************************************)
EXTENDS Bytes
LOCAL INSTANCE SequencesExt

OpCode ==
    [SessionRequest |-> 1, SessionResponse |-> 2, MultiPacket |-> 3,
     Disconnect |-> 5, Heartbeat |-> 6,
     NetStatusRequest |-> 7, NetStatusResponse |-> 8,
     ReliableData |-> 9, ReliableDataFragment |-> 13,
     Acknowledge |-> 17, AcknowledgeAll |-> 21,
     UnknownSender |-> 29, RemapConnection |-> 30]

Kinds == DOMAIN OpCode
ChannelKinds ==
    {"ReliableData", "ReliableDataFragment", "Acknowledge", "AcknowledgeAll"}
ChannelCount == 4
Contextless ==
    {"SessionRequest", "SessionResponse", "NetStatusRequest",
     "NetStatusResponse", "UnknownSender", "RemapConnection"}

Unknown == "Unknown"

\* Mutant of Span: the last channel is left out.
SpanShort(kind) == IF kind \in ChannelKinds THEN ChannelCount - 2 ELSE 0

\* A kind that has channels occupies the OP codes that follow its first one.
Span(kind) == IF kind \in ChannelKinds THEN ChannelCount - 1 ELSE 0

\* OpCode::from_u16 and reliable_channel.
KindOf(raw) ==
    IF \E kind \in Kinds : raw \in OpCode[kind] .. OpCode[kind] + Span(kind)
    THEN CHOOSE kind \in Kinds :
             raw \in OpCode[kind] .. OpCode[kind] + Span(kind)
    ELSE Unknown

ChannelOf(raw) ==
    IF KindOf(raw) \in ChannelKinds THEN raw - OpCode[KindOf(raw)] ELSE 0

\* The fields behind the OP code.
Widths(kind) ==
    CASE kind = "SessionRequest"  -> <<4, 4, 4, Text>>
      [] kind = "SessionResponse" -> <<4, 4, 1, 1, 1, 4, 4>>
      [] kind = "Disconnect"      -> <<4, 2>>
      [] kind = "RemapConnection" -> <<4, 4>>
      [] kind \in {"Acknowledge", "AcknowledgeAll"} -> <<2>>
      [] OTHER -> <<>>

\* MIN_SIZE and SIZE: an empty string is its terminator.
Size(kind) == FoldLeft(LAMBDA n, width : n + IF width = Text THEN 1 ELSE width,
                       0, Widths(kind))

\* packet_minimum_length: the shortest datagram that passes for the kind, when
\* `padding` bytes are neither OP code nor body.
MinimumLength(kind, padding) ==
    2 + CASE kind \in {"SessionRequest", "SessionResponse", "UnknownSender",
                       "RemapConnection"} -> Size(kind)
          [] kind = "MultiPacket" -> padding + 2
          [] kind \in {"ReliableData", "ReliableDataFragment"} -> padding + 3
          [] OTHER -> padding + Size(kind)
=============================================================================
