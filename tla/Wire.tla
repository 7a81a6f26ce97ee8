-------------------------------- MODULE Wire --------------------------------
(***************************************************************************)
(* What application data and packets become on the wire, byte by byte, and *)
(* what the other session makes of those bytes: encryption, fragments and  *)
(* data bundles (src/channel/output.rs, src/channel/input.rs), OP codes,   *)
(* checksums, escapes and MultiPackets (src/session.rs,                    *)
(* src/packet_utils.rs).                                                   *)
(*                                                                         *)
(* A running session sends to another, over a network that loses nothing   *)
(* and keeps the order, which is ReliableChannel's subject. The sender may *)
(* be a remote that bundles, as this one reads bundles though it does not  *)
(* write them. What a packet does to the session is Session's subject:     *)
(* here a packet that is none of data is only read.                        *)
(*                                                                         *)
(* zlib is left out: the flag says that nothing is compressed, as that of  *)
(* every packet this code sends.                                           *)
(***************************************************************************)
EXTENDS Packets, Rc4
LOCAL INSTANCE SequencesExt

CONSTANTS
    Configs,     \* [crcLength, compression, encrypted, udpLength, remoteUdpLength]
    Key,         \* ApplicationParameters' encryption key
    Seed,        \* the CRC seed the two sessions agreed on
    Data,        \* what applications send
    Pairs,       \* what a remote sends in one data bundle
    Controls,    \* [kind, channel, values] of packets that carry no data
    UsedChannels,
    MaxMessages

VARIABLES
    conf,
    cipher,      \* the sender's cipher of each channel
    sequence,    \* the sender's total_sequence on each channel
    net,         \* datagrams under way, oldest first
    sent,        \* what was sent: data by data, packet by packet
    receiver     \* the other session: [cipher, buffer, expected, got, corrupt]

vars == <<conf, cipher, sequence, net, sent, receiver>>

Nothing == <<>>    \* no current_buffer

Init ==
    /\ conf \in Configs
    /\ cipher = [ch \in UsedChannels |-> KeyState(Key)]
    /\ sequence = [ch \in UsedChannels |-> 0]
    /\ net = <<>> /\ sent = <<>>
    /\ receiver = [cipher   |-> cipher,
                   buffer   |-> [ch \in UsedChannels |-> Nothing],
                   expected |-> [ch \in UsedChannels |-> 0],
                   got      |-> <<>>,
                   corrupt  |-> FALSE]

-----------------------------------------------------------------------------
(* Datagrams. *)

Padding == (IF conf.compression THEN 1 ELSE 0) + conf.crcLength
MaxDataLength == conf.udpLength - 2 - Padding
MaxChunk == MaxDataLength - 2

\* Stands for the seeded CRC-32: which bytes it covers is what matters here.
Hash(bytes) == Seed + Len(bytes) + 3 * bytes[1] + 7 * bytes[Len(bytes)]

Checksum(bytes) == From(Digits(Hash(bytes), 4), 5 - conf.crcLength)

AppendCrc(bytes) == bytes \o Checksum(bytes)

Packet(raw, payload) == Digits(raw, 2) \o payload

\* frame_contextual_raw, of a packet as it stands in a MultiPacket too.
Frame(packet) ==
    AppendCrc(SubSeq(packet, 1, 2)
                  \o (IF conf.compression THEN <<0>> ELSE <<>>)
                  \o From(packet, 3))

\* Mutant of FrameUnreliable: no escape.
FrameUnreliablePlain(data) == AppendCrc(data)

FrameUnreliable(data) ==
    AppendCrc((IF data[1] = 0 THEN <<0>> ELSE <<>>) \o data)

-----------------------------------------------------------------------------
(* The sending side of a reliable channel. *)

\* Mutant of Encrypt: the padding byte is encrypted too.
EncryptPadding(state, data) ==
    LET t == Transform(state, data)
    IN  IF t.bytes[1] = 0
        THEN [state |-> Increment(t.state), bytes |-> <<0>> \o t.bytes] ELSE t

\* A ciphertext that starts with a zero gets another one in front.
Encrypt(state, data) ==
    LET t == Transform(state, data)
    IN  IF t.bytes[1] = 0 THEN [t EXCEPT !.bytes = <<0>> \o @] ELSE t

Encoded(state, data) ==
    IF conf.encrypted THEN Encrypt(state, data)
                      ELSE [state |-> state, bytes |-> data]

\* Mutant of Fragments: the prefix is not counted in the first packet.
FragmentsTooLong(ch, stream) ==
    LET raw   == OpCode.ReliableDataFragment + ch
        rest  == From(stream, MaxChunk + 1)
        count == (Len(rest) + MaxChunk - 1) \div MaxChunk
        Chunk(i) == SubSeq(rest, (i - 1) * MaxChunk + 1,
                           IF i = count THEN Len(rest) ELSE i * MaxChunk)
    IN  IF Len(stream) <= MaxChunk
        THEN <<Packet(OpCode.ReliableData + ch, Digits(sequence[ch], 2) \o stream)>>
        ELSE <<Packet(raw, Digits(sequence[ch], 2) \o Digits(Len(stream), 4)
                              \o SubSeq(stream, 1, MaxChunk))>>
             \o [i \in 1 .. count |-> Packet(raw, Digits(sequence[ch] + i, 2)
                                                    \o Chunk(i))]

\* enqueue_data: the packets of a stream of bytes. The first fragment spends
\* part of its chunk on the length of the whole.
Fragments(ch, stream) ==
    LET raw   == OpCode.ReliableDataFragment + ch
        first == SubSeq(stream, 1, MaxChunk - 4)
        rest  == From(stream, MaxChunk - 3)
        count == (Len(rest) + MaxChunk - 1) \div MaxChunk
        Chunk(i) == SubSeq(rest, (i - 1) * MaxChunk + 1,
                           IF i = count THEN Len(rest) ELSE i * MaxChunk)
    IN  IF Len(stream) <= MaxChunk
        THEN <<Packet(OpCode.ReliableData + ch, Digits(sequence[ch], 2) \o stream)>>
        ELSE <<Packet(raw, Digits(sequence[ch], 2) \o Digits(Len(stream), 4)
                              \o first)>>
             \o [i \in 1 .. count |-> Packet(raw, Digits(sequence[ch] + i, 2)
                                                    \o Chunk(i))]

-----------------------------------------------------------------------------
(* Sending. *)

Reliable(ch, data) == [kind |-> "Reliable", channel |-> ch, values |-> data]
BestEffort(data) == [kind |-> "Unreliable", channel |-> 0, values |-> data]

\* The packets go out as datagrams, or within one.
Bundled(packets) ==
    Frame(Packet(OpCode.MultiPacket, Pack("multi_packet", packets)))

Dispatch(packets) ==
    \/ net' = net \o [i \in DOMAIN packets |-> Frame(packets[i])]
    \/ /\ Len(packets) > 1
       /\ net' = Append(net, Bundled(packets))

SendStream(ch, state, stream, messages) ==
    LET packets == Fragments(ch, stream)
    IN  /\ Dispatch(packets)
        /\ sequence' = [sequence EXCEPT ![ch] = @ + Len(packets)]
        /\ cipher' = [cipher EXCEPT ![ch] = state]
        /\ sent' = sent \o messages
        /\ UNCHANGED <<conf, receiver>>

SendReliable(ch, data) ==
    LET encoded == Encoded(cipher[ch], data)
    IN  SendStream(ch, encoded.state, encoded.bytes, <<Reliable(ch, data)>>)

\* Several buffers behind one indicator, each encrypted by itself.
Indicator == <<0, 25>>

SendDataBundle(ch, pair) ==
    LET a == Encoded(cipher[ch], pair[1])
        b == Encoded(a.state, pair[2])
    IN  SendStream(ch, b.state,
                   Indicator \o Pack("data_bundle", <<a.bytes, b.bytes>>),
                   <<Reliable(ch, pair[1]), Reliable(ch, pair[2])>>)

\* What does not fit a datagram goes on reliable channel 0.
TooLarge(data) ==
    (IF data[1] = 0 THEN 1 ELSE 0) + Len(data) + conf.crcLength
        > conf.remoteUdpLength

SendUnreliable(data) ==
    IF TooLarge(data) THEN SendReliable(0, data)
    ELSE /\ net' = Append(net, FrameUnreliable(data))
         /\ sent' = Append(sent, BestEffort(data))
         /\ UNCHANGED <<conf, cipher, sequence, receiver>>

SendControl(control) ==
    LET packet == Packet(OpCode[control.kind] + control.channel,
                         WriteFields(control.values, Widths(control.kind)))
    IN  /\ net' = Append(net, IF control.kind \in Contextless THEN packet
                                                           ELSE Frame(packet))
        /\ sent' = Append(sent, control)
        /\ UNCHANGED <<conf, cipher, sequence, receiver>>

-----------------------------------------------------------------------------
(* The receiving side of a reliable channel. *)

Deliver(r, message) == [r EXCEPT !.got = Append(@, message)]

\* Mutant of DecryptAndHandle: a leading zero is taken for data.
DecryptAndHandleWhole(r, ch, data) ==
    LET t == Transform(r.cipher[ch], data)
    IN  IF conf.encrypted
        THEN Deliver([r EXCEPT !.cipher[ch] = t.state], Reliable(ch, t.bytes))
        ELSE Deliver(r, Reliable(ch, data))

DecryptAndHandle(r, ch, data) ==
    LET padded == Len(data) > 1 /\ data[1] = 0
        t == Transform(r.cipher[ch], IF padded THEN Tail(data) ELSE data)
    IN  IF conf.encrypted
        THEN Deliver([r EXCEPT !.cipher[ch] = t.state], Reliable(ch, t.bytes))
        ELSE Deliver(r, Reliable(ch, data))

LooksBundled(data) == Len(data) > 2 /\ SubSeq(data, 1, 2) = Indicator

ProcessData(r, ch, data) ==
    LET parts == IF LooksBundled(data)
                 THEN Unpack("data_bundle", From(data, 3), 0).parts
                 ELSE <<data>>
    IN  FoldLeft(LAMBDA s, part : DecryptAndHandle(s, ch, part), r, parts)

\* A fragment follows the others; a first one must hold its prefix.
WriteFragment(r, ch, data) ==
    IF r.buffer[ch] # Nothing
    THEN [r EXCEPT !.buffer[ch] = <<@[1] \o data>>]
    ELSE IF Len(data) < 4 THEN [r EXCEPT !.corrupt = TRUE]
    ELSE [r EXCEPT !.buffer[ch] = <<From(data, 5)>>,
                   !.expected[ch] = Number(SubSeq(data, 1, 4))]

TryProcess(r, ch) ==
    IF r.buffer[ch] # Nothing /\ Len(r.buffer[ch][1]) >= r.expected[ch]
    THEN LET emptied == [r EXCEPT !.buffer[ch] = Nothing, !.expected[ch] = 0]
         IN  ProcessData(emptied, ch, r.buffer[ch][1])
    ELSE r

-----------------------------------------------------------------------------
(* Reading a datagram. *)

Raw(datagram) == Number(SubSeq(datagram, 1, 2))

\* validate_packet.
Validate(datagram) ==
    LET kind == KindOf(Raw(datagram))
        body == SubSeq(datagram, 1, Len(datagram) - conf.crcLength)
    IN  IF Len(datagram) < 2 THEN "TooShort"
        ELSE IF kind = Unknown THEN "InvalidOpCode"
        ELSE IF MinimumLength(kind, Padding) > Len(datagram) THEN "TooShort"
        ELSE IF kind \in Contextless \/ AppendCrc(body) = datagram THEN "Valid"
        ELSE "CrcMismatch"

HandleUnreliable(r, datagram) ==
    LET body == SubSeq(datagram, 1, Len(datagram) - conf.crcLength)
    IN  IF Len(datagram) < conf.crcLength + 1 THEN [r EXCEPT !.corrupt = TRUE]
        ELSE IF AppendCrc(body) # datagram THEN r
        ELSE IF body[1] # 0 THEN Deliver(r, BestEffort(body))
        ELSE IF Len(body) < 2 \/ body[2] # 0 THEN [r EXCEPT !.corrupt = TRUE]
        ELSE Deliver(r, BestEffort(Tail(body)))

ReadControl(r, kind, ch, body) ==
    LET read == ReadFields(body, Widths(kind))
    IN  IF read.ok
        THEN Deliver(r, [kind |-> kind, channel |-> ch, values |-> read.values])
        ELSE r

\* A packet that is no MultiPacket.
HandlePacket(r, packet) ==
    LET kind == KindOf(Raw(packet))
        ch   == ChannelOf(Raw(packet))
        body == From(packet, 3)
    IN  CASE kind = "ReliableData" -> ProcessData(r, ch, From(body, 3))
          [] kind = "ReliableDataFragment" ->
                 TryProcess(WriteFragment(r, ch, From(body, 3)), ch)
          [] OTHER -> ReadControl(r, kind, ch, body)

\* A MultiPacket's packets, up to one that makes no sense.
HandleContextual(r, packet) ==
    LET bundle == Unpack("multi_packet", From(packet, 3), 2)
        unknown == SelectInSeq(bundle.parts, LAMBDA p : KindOf(Raw(p)) = Unknown)
        after == FoldLeft(HandlePacket, r,
                          IF unknown = 0 THEN bundle.parts
                          ELSE SubSeq(bundle.parts, 1, unknown - 1))
    IN  IF KindOf(Raw(packet)) # "MultiPacket" THEN HandlePacket(r, packet)
        ELSE IF bundle.ok /\ unknown = 0 THEN after
        ELSE [after EXCEPT !.corrupt = TRUE]

\* The packet within a datagram: without its flag and its checksum.
Unframed(datagram) ==
    SubSeq(datagram, 1, 2)
        \o SubSeq(datagram, 3 + (IF conf.compression THEN 1 ELSE 0),
                  Len(datagram) - conf.crcLength)

ProcessIncoming(r, datagram) ==
    LET result == Validate(datagram)
    IN  CASE r.corrupt -> r
          [] result = "InvalidOpCode" -> HandleUnreliable(r, datagram)
          [] result \in {"TooShort", "CrcMismatch"} ->
                 [r EXCEPT !.corrupt = TRUE]
          [] result = "Valid" ->
                 IF KindOf(Raw(datagram)) \in Contextless
                 THEN HandlePacket(r, datagram)
                 ELSE HandleContextual(r, Unframed(datagram))

Receive ==
    /\ net # <<>>
    /\ receiver' = ProcessIncoming(receiver, Head(net))
    /\ net' = Tail(net)
    /\ UNCHANGED <<conf, cipher, sequence, sent>>

Next ==
    \/ /\ Len(sent) < MaxMessages
       /\ \/ \E ch \in UsedChannels :
                \/ \E data \in Data : SendReliable(ch, data)
                \/ \E pair \in Pairs : SendDataBundle(ch, pair)
          \/ \E data \in Data : SendUnreliable(data)
          \/ \E control \in Controls : SendControl(control)
    \/ Receive

Spec == Init /\ [][Next]_vars

-----------------------------------------------------------------------------
(* Correctness. *)

\* Data the format cannot carry: without encryption, data that starts like a
\* bundle of data; without a checksum, one byte alone, which is too short for
\* a datagram.
Ambiguous(message) ==
    \/ /\ message.kind = "Reliable"
       /\ ~conf.encrypted
       /\ LooksBundled(message.values)
    \/ /\ message.kind = "Unreliable"
       /\ conf.crcLength = 0
       /\ Len(message.values) = 1 /\ message.values[1] # 0

Clear == \A i \in DOMAIN sent : ~Ambiguous(sent[i])

\* Every message arrives as it was sent, in its order, whatever bytes it holds:
\* leading zeros, the bytes of an indicator or of an OP code, 0xFF, ciphertext
\* that starts with a zero, lengths at the edge of an encoding or of a packet,
\* alone, in a bundle of data or in a MultiPacket.
DeliveredIntact ==
    Clear => /\ ~receiver.corrupt
             /\ IsPrefix(receiver.got, sent)
             /\ net = <<>> => receiver.got = sent

\* The two ends of a cipher stay in step: once all has arrived, both have
\* advanced by the same bytes, and no half-read message is left behind. One
\* byte more or less and everything after it would be noise.
KeysInStep ==
    (Clear /\ net = <<>>) =>
        /\ receiver.cipher = cipher
        /\ \A ch \in UsedChannels : receiver.buffer[ch] = Nothing

\* The sender keeps to what the remote said it can receive: no datagram, first
\* fragment, escaped or promoted, is longer than that (given that the sender's
\* own limit, from which it computes that of reliable data, is not larger; and
\* MultiPackets left out, which this code does not send).
FitsRemote ==
    conf.udpLength <= conf.remoteUdpLength =>
        \A i \in DOMAIN net :
            \/ Len(net[i]) <= conf.remoteUdpLength
            \/ Len(net[i]) > 1 /\ KindOf(Raw(net[i])) \in
                   {"MultiPacket"} \cup Contextless
=============================================================================
