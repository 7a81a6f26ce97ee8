-------------------------- MODULE ConnectionProofs --------------------------
(***************************************************************************)
(* Two hosts and the network between them, for any number of sessions, one *)
(* after the other, of second copies and of datagrams under way, and for   *)
(* every number of channels, window and timeout.                           *)
(*                                                                         *)
(* The invariant ties every datagram under way to the sessions that it may *)
(* meet: it was framed with a seed that some session was given, and a      *)
(* Disconnect tells of a session that its sender did close.                *)
(***************************************************************************)
EXTENDS Connection, SessionProofs, FiniteSetTheorems

-----------------------------------------------------------------------------
(* What a session says. *)

\* The reasons for which a session tells its remote that it ends.
Refusals == {"Application", "CorruptPacket", "ConnectError", "ProtocolMismatch"}

Notice(key, reason) ==
    Contextual(key, [op |-> "Disconnect", reason |-> reason])

\* A session says that it ended if it did, by itself and for such a reason.
Farewells(s) ==
    IF s.state = "Terminated" /\ ~s.byRemote /\ s.reason \in Refusals
    THEN {Notice(s.key, s.reason)} ELSE {}

\* The handshake and best-effort data apart, a session says no more.
Replies(s) == Words(s.key) \cup Farewells(s)

\* The channels of a session that negotiates have nothing to say.
Silent(s) ==
    \A ch \in Channels :
        /\ s.inputs[ch].acks = <<>> /\ s.inputs[ch].app = 0
        /\ s.inputs[ch].owed = FALSE
        /\ s.outputs[ch].queued = 0 /\ s.outputs[ch].sent = 0
        /\ s.outputs[ch].ready = 0

Proper(s) ==
    /\ s.outgoing \in Seq(Replies(s))
    /\ s.key = NoKey => Silent(s) /\ s.outgoing = <<>>
    /\ s.state = "Running" => s.key # NoKey
    /\ s.state # "Terminated" => ~s.byRemote

\* r is the session s, as far as what it may say goes.
Same(r, s) ==
    /\ r.mode = s.mode /\ r.key = s.key /\ r.state = s.state
    /\ r.reason = s.reason /\ r.byRemote = s.byRemote

LEMMA SameReplies ==
    ASSUME NEW r, NEW s, Same(r, s)
    PROVE  Replies(r) = Replies(s)
BY DEF Same, Replies, Farewells

\* Longer replies.
LEMMA SeqGrows ==
    ASSUME NEW S, NEW T, S \subseteq T, NEW seq \in Seq(S)
    PROVE  seq \in Seq(T)
OBVIOUS

LEMMA AppendGrows ==
    ASSUME NEW S, NEW seq \in Seq(S), NEW e \in S
    PROVE  /\ Append(seq, e) \in Seq(S)
           /\ Len(Append(seq, e)) = Len(seq) + 1
           /\ Append(seq, e)[Len(seq) + 1] = e
           /\ \A i \in 1 .. Len(seq) : Append(seq, e)[i] = seq[i]
OBVIOUS

LEMMA JoinGrows ==
    ASSUME NEW S, NEW seq \in Seq(S), NEW more \in Seq(S)
    PROVE  /\ seq \o more \in Seq(S)
           /\ more = <<>> => seq \o more = seq
           /\ seq = <<>> => seq \o more = more
           /\ \A i \in DOMAIN seq : /\ i \in DOMAIN (seq \o more)
                                    /\ (seq \o more)[i] = seq[i]
OBVIOUS

\* A session of which only the channels change stays proper,
LEMMA ChannelsChange ==
    ASSUME NEW r, NEW s, Proper(s), Same(r, s), r.outgoing = s.outgoing,
           s.key # NoKey \/ Silent(r)
    PROVE  Proper(r)
<1>1. Replies(r) = Replies(s)
  BY SameReplies
<1> QED
  BY <1>1 DEF Proper, Same

\* one that speaks,
LEMMA SpeakProper ==
    ASSUME NEW past, NEW s, Sound(past, s), Proper(s), s.key # NoKey,
           s.state # "Terminated", NEW message \in Words(s.key)
    PROVE  LET r == [s EXCEPT !.outgoing = Append(@, message)]
           IN  /\ Proper(r) /\ Same(r, s) /\ r.idle = s.idle
               /\ r.inputs = s.inputs /\ r.outputs = s.outputs
               /\ r.outgoing = Append(s.outgoing, message)
<1> DEFINE out == Append(s.outgoing, message)
           r == [s EXCEPT !.outgoing = out]
<1>1. s \in Sessions
  BY DEF Sound
<1>2. /\ Same(r, s) /\ r.idle = s.idle /\ r.outgoing = out
      /\ r.inputs = s.inputs /\ r.outputs = s.outputs
  <2> HIDE DEF out
  <2> QED
    BY <1>1 DEF Sessions, Same
<1>3. out \in Seq(Replies(s))
  <2>1. message \in Replies(s) /\ s.outgoing \in Seq(Replies(s))
    BY DEF Replies, Proper
  <2> QED
    BY <2>1, AppendGrows
<1> HIDE DEF r, out
<1>4. Proper(r)
  BY <1>2, <1>3, SameReplies DEF Proper, Same
<1> QED
  BY <1>2, <1>4 DEF r, out

\* one that is flushed,
LEMMA FlushProper ==
    ASSUME NEW s, s \in Sessions, Proper(s)
    PROVE  /\ Proper(FlushChannels(s)) /\ Same(FlushChannels(s), s)
           /\ FlushChannels(s).idle = s.idle
<1> DEFINE r == FlushChannels(s)
<1>1. /\ Same(r, s) /\ r.idle = s.idle
      /\ r.outgoing = s.outgoing \o FlushedOut(s)
      /\ \A ch \in Channels :
            /\ r.inputs[ch].acks = <<>> /\ r.inputs[ch].app = 0
            /\ r.inputs[ch].owed = s.inputs[ch].owed
            /\ r.outputs[ch].ready = 0
            /\ r.outputs[ch].sent = s.outputs[ch].sent
            /\ r.outputs[ch].queued = s.outputs[ch].queued
  BY FlushEffect DEF Same
<1>2. s.outgoing \o FlushedOut(s) \in Seq(Replies(s))
  <2>1. FlushedOut(s) \in Seq(Replies(s)) /\ s.outgoing \in Seq(Replies(s))
    <3>1. FlushedOut(s) \in Seq(Words(s.key))
      BY FlushBrings
    <3> QED
      BY <3>1, SeqGrows DEF Replies, Proper
  <2> QED
    BY <2>1, JoinGrows
<1>3. ASSUME s.key = NoKey
      PROVE  Silent(r) /\ s.outgoing \o FlushedOut(s) = <<>>
  <2>1. Silent(s) /\ s.outgoing = <<>>
    BY <1>3 DEF Proper
  <2>2. FlushedOut(s) = <<>>
    BY <2>1, FlushBrings DEF Silent, Flushed
  <2>3. Silent(r)
    BY <1>1, <2>1 DEF Silent
  <2> QED
    BY <2>1, <2>2, <2>3
<1> HIDE DEF r
<1>4. Proper(r)
  BY <1>1, <1>2, <1>3, SameReplies DEF Proper, Same
<1> QED
  BY <1>1, <1>4 DEF r

\* or whose outputs are driven.
LEMMA TickOutputsProper ==
    ASSUME NEW past, NEW s, Sound(past, s), Proper(s)
    PROVE  LET r == TickOutputs(s)
           IN  /\ Proper(r) /\ Same(r, s) /\ r.idle = s.idle
               /\ r.inputs = s.inputs /\ r.outgoing = s.outgoing
<1> DEFINE r == TickOutputs(s)
<1>1. s \in Sessions /\ WindowsHold(s)
  BY DEF Sound
<1>2. /\ Same(r, s) /\ r.idle = s.idle
      /\ r.inputs = s.inputs /\ r.outgoing = s.outgoing
      /\ r.outputs = [ch \in Channels |-> TickOutput(s.outputs[ch])]
  BY <1>1 DEF Sessions, Same, TickOutputs
<1>3. ASSUME Silent(s)
      PROVE  Silent(r)
  <2>1. ASSUME NEW ch \in Channels
        PROVE  /\ TickOutput(s.outputs[ch]).queued = 0
               /\ TickOutput(s.outputs[ch]).sent = 0
               /\ TickOutput(s.outputs[ch]).ready = 0
    <3>1. /\ s.outputs[ch] \in Outputs /\ s.outputs[ch].queued = 0
          /\ s.outputs[ch].sent = 0 /\ s.outputs[ch].ready = 0
      BY <1>1, <1>3 DEF Sessions, Silent
    <3>2. Least(0, Window) = 0
      BY SessionAssumption DEF Least, SessionAssumption
    <3> QED
      BY <3>1, <3>2 DEF Outputs, TickOutput
  <2> QED
    BY <1>2, <1>3, <2>1 DEF Silent
<1> HIDE DEF r
<1>4. Proper(r)
  BY <1>2, <1>3, ChannelsChange DEF Proper
<1> QED
  BY <1>2, <1>4 DEF r

-----------------------------------------------------------------------------
(* How a session ends. *)

\* What an ended session is.
EndedAs(r, s, reason, byRemote) ==
    /\ Proper(r) /\ r.state = "Terminated"
    /\ r.mode = s.mode /\ r.key = s.key
    /\ r.reason = reason /\ r.byRemote = byRemote

LEMMA TerminateProper ==
    ASSUME NEW past \in Pasts, NEW s, Sound(past, s), Proper(s),
           s.state # "Terminated", NEW reason \in Reasons,
           NEW notifyRemote \in BOOLEAN, NEW byRemote \in BOOLEAN,
           notifyRemote => reason \in Refusals /\ ~byRemote
    PROVE  EndedAs(Terminate(s, reason, notifyRemote, byRemote),
                   s, reason, byRemote)
<1> DEFINE t == TickOutputs(s)
           f == FlushChannels(t)
           notice == Notice(s.key, reason)
           out == IF notifyRemote /\ s.state = "Running"
                  THEN Append(f.outgoing, notice) ELSE f.outgoing
           told == Append(f.events, "Closed")
           r == [f EXCEPT !.state = "Terminated", !.reason = reason,
                          !.byRemote = byRemote, !.events = told,
                          !.outgoing = out]
<1>1. Terminate(s, reason, notifyRemote, byRemote) = r
  BY DEF Terminate, Notice
<1>2. Proper(t) /\ Same(t, s) /\ t \in Sessions
  BY TickOutputsProper, TickOutputsEffect DEF Sound
<1> HIDE DEF t
<1>3. Proper(f) /\ Same(f, s) /\ f \in Sessions
  BY <1>2, FlushProper, FlushEffect DEF Same
<1> HIDE DEF f
<1>4. /\ r.state = "Terminated" /\ r.reason = reason /\ r.byRemote = byRemote
      /\ r.mode = f.mode /\ r.key = f.key /\ r.outgoing = out
      /\ r.inputs = f.inputs /\ r.outputs = f.outputs
  <2> HIDE DEF out, told
  <2> QED
    BY <1>3 DEF Sessions
<1> HIDE DEF r
<1>5. out \in Seq(Replies(r))
  <2>1. Replies(f) = Words(s.key) /\ Words(s.key) \subseteq Replies(r)
    BY <1>3, <1>4 DEF Replies, Farewells, Same
  <2>2. f.outgoing \in Seq(Replies(r))
    BY <1>3, <2>1, SeqGrows DEF Proper
  <2>3. ASSUME notifyRemote
        PROVE  notice \in Replies(r)
    BY <1>3, <1>4, <2>3 DEF Replies, Farewells, Same
  <2> HIDE DEF notice
  <2> QED
    BY <2>2, <2>3, AppendGrows
<1>6. s.key = NoKey => Silent(r) /\ out = <<>>
  BY <1>3, <1>4 DEF Proper, Same, Silent
<1> HIDE DEF out
<1>7. Proper(r)
  BY <1>3, <1>4, <1>5, <1>6 DEF Proper, Same
<1> QED
  BY <1>1, <1>3, <1>4, <1>7 DEF Same, EndedAs

LEMMA RefuseProper ==
    ASSUME NEW past \in Pasts, NEW s, Sound(past, s), Proper(s),
           s.state # "Terminated", NEW reason \in Refusals
    PROVE  EndedAs(Refuse(s, reason), s, reason, FALSE)
<1>1. reason \in Reasons
  BY DEF Refusals, Reasons
<1>2. TRUE \in BOOLEAN /\ FALSE \in BOOLEAN /\ ~FALSE
  OBVIOUS
<1> QED
  BY <1>1, <1>2, TerminateProper DEF Refuse

LEMMA AbandonProper ==
    ASSUME NEW past \in Pasts, NEW s, Sound(past, s), Proper(s),
           s.state # "Terminated", NEW reason \in Reasons
    PROVE  EndedAs(Abandon(s, reason), s, reason, FALSE)
<1>1. FALSE \in BOOLEAN /\ ~FALSE
  OBVIOUS
<1> QED
  BY <1>1, TerminateProper DEF Abandon

-----------------------------------------------------------------------------
(* What a flush says. *)

LEMMA FlattenSpeaks ==
    ASSUME NEW T, NEW seqs, Len(seqs) \in Nat \ {0},
           \A i \in 1 .. Len(seqs) : seqs[i] \in Seq(T),
           NEW k \in 1 .. Len(seqs), seqs[k] # <<>>
    PROVE  FlattenSeq(seqs) # <<>>
<1>1. PICK f : /\ f[1] = seqs[1]
               /\ \A i \in 2 .. Len(seqs) : f[i] = Join(f[i - 1], seqs[i])
               /\ FlattenSeq(seqs) = f[Len(seqs)]
  BY FlattenSteps
<1> DEFINE S == {i \in Nat : i \in 1 .. Len(seqs) =>
                    f[i] \in Seq(T) /\ (k <= i => f[i] # <<>>)}
<1>2. 0 \in S
  OBVIOUS
<1>3. ASSUME NEW i \in Nat, i \in S
      PROVE  i + 1 \in S
  <2>1. SUFFICES ASSUME i + 1 \in 1 .. Len(seqs)
                 PROVE  /\ f[i + 1] \in Seq(T)
                        /\ k <= i + 1 => f[i + 1] # <<>>
    OBVIOUS
  <2>2. CASE i = 0
    <3>1. f[i + 1] = seqs[i + 1] /\ (k <= i + 1 => k = i + 1)
      BY <2>2, <1>1
    <3> QED
      BY <2>1, <3>1
  <2>3. CASE i # 0
    <3>1. i + 1 \in 2 .. Len(seqs) /\ i \in 1 .. Len(seqs) /\ (i + 1) - 1 = i
      BY <2>1, <2>3
    <3>2. f[i + 1] = f[i] \o seqs[i + 1]
      BY <3>1, <1>1 DEF Join
    <3>3. f[i] \in Seq(T) /\ seqs[i + 1] \in Seq(T) /\ (k <= i => f[i] # <<>>)
      BY <3>1, <1>3
    <3>4. f[i] # <<>> => f[i] \o seqs[i + 1] # <<>>
      BY <3>3
    <3>5. seqs[i + 1] # <<>> => f[i] \o seqs[i + 1] # <<>>
      BY <3>3
    <3>6. k <= i + 1 => k <= i \/ k = i + 1
      BY <2>1
    <3> QED
      BY <3>2, <3>3, <3>4, <3>5, <3>6
  <2> QED
    BY <2>2, <2>3
<1>4. Nat \subseteq S
  <2> HIDE DEF S
  <2> QED
    BY <1>2, <1>3, NatSetInduction
<1> QED
  BY <1>1, <1>4

\* Reliable data under a seed.
Data(key) ==
    {Contextual(key, [op |-> "ReliableData", channel |-> ch,
                      effect |-> "Dropped"]) : ch \in Channels}

\* An acknowledgement that waits is said; without one there is only data.
LEMMA FlushSays ==
    ASSUME NEW s, s \in Sessions
    PROVE  /\ \A ch \in Channels :
                 s.inputs[ch].acks # <<>> => FlushedOut(s) # <<>>
           /\ (\A ch \in Channels : s.inputs[ch].acks = <<>>) =>
                 FlushedOut(s) \in Seq(Data(s.key))
<1> DEFINE outs == [i \in 1 .. ChannelCount |-> Pending(s, i - 1)]
           Notes(ch) == [i \in DOMAIN s.inputs[ch].acks |->
                            Contextual(s.key, [op |-> s.inputs[ch].acks[i],
                                               channel |-> ch, covers |-> 0])]
           Load(ch) == [i \in 1 .. s.outputs[ch].ready |->
                           Contextual(s.key, [op |-> "ReliableData",
                                              channel |-> ch,
                                              effect |-> "Dropped"])]
<1>1. ChannelCount \in Nat \ {0}
  BY SessionAssumption DEF SessionAssumption
<1>2. /\ \A i \in 1 .. ChannelCount : i - 1 \in Channels
      /\ \A ch \in Channels : ch + 1 \in 1 .. ChannelCount /\ (ch + 1) - 1 = ch
  BY <1>1 DEF Channels
<1>3. /\ Len(outs) = ChannelCount
      /\ \A i \in 1 .. ChannelCount : outs[i] = Pending(s, i - 1)
  BY <1>1
<1>4. FlushedOut(s) = FlattenSeq(outs)
  BY DEF FlushedOut
<1> HIDE DEF outs
<1>5. \A ch \in Channels : Pending(s, ch) = Notes(ch) \o Load(ch)
  BY DEF Pending
<1>6. ASSUME NEW ch \in Channels
      PROVE  /\ Load(ch) \in Seq(Data(s.key))
             /\ s.inputs[ch].acks = <<>> => Notes(ch) = <<>>
             /\ s.inputs[ch].acks # <<>> => Pending(s, ch) # <<>>
  <2>1. /\ s.outputs[ch].ready \in Nat
        /\ s.inputs[ch].acks \in Seq({"Acknowledge", "AcknowledgeAll"})
    BY DEF Sessions, Inputs, Outputs
  <2>2. Load(ch) \in Seq(Data(s.key))
    <3>1. Load(ch) \in [1 .. s.outputs[ch].ready -> Data(s.key)]
      BY DEF Data
    <3> HIDE DEF Load
    <3> QED
      BY <2>1, <3>1, FunctionIsSequence
  <2>3. ASSUME s.inputs[ch].acks # <<>>
        PROVE  Notes(ch) \o Load(ch) # <<>>
    <3> DEFINE n == Len(s.inputs[ch].acks)
    <3>1. n \in Nat \ {0} /\ DOMAIN s.inputs[ch].acks = 1 .. n
      BY <2>1, <2>3
    <3> DEFINE T == {Notes(ch)[i] : i \in 1 .. n} \cup Data(s.key)
    <3>2. Notes(ch) \in [1 .. n -> T]
      BY <3>1
    <3>3. Load(ch) \in Seq(T)
      <4>1. Data(s.key) \subseteq T
        OBVIOUS
      <4> HIDE DEF T, Load
      <4> QED
        BY <2>2, <4>1, SeqGrows
    <3> HIDE DEF T, Load, Notes, n
    <3>4. Notes(ch) \in Seq(T) /\ Len(Notes(ch)) = n
      BY <3>1, <3>2
    <3> QED
      BY <3>1, <3>3, <3>4
  <2>4. s.inputs[ch].acks = <<>> => Notes(ch) = <<>>
    OBVIOUS
  <2> HIDE DEF Notes, Load
  <2> QED
    BY <1>5, <2>2, <2>3, <2>4
<1> HIDE DEF Notes, Load
<1>7. ASSUME NEW ch \in Channels, s.inputs[ch].acks # <<>>
      PROVE  FlattenSeq(outs) # <<>>
  <2>1. outs[ch + 1] # <<>> /\ ch + 1 \in 1 .. Len(outs)
    BY <1>2, <1>3, <1>6, <1>7
  <2>2. \A i \in 1 .. Len(outs) : outs[i] \in Seq(Words(s.key))
    BY <1>2, <1>3, PendingIsQuiet
  <2> QED
    BY <1>1, <1>3, <2>1, <2>2, FlattenSpeaks
<1>8. ASSUME \A ch \in Channels : s.inputs[ch].acks = <<>>
      PROVE  FlattenSeq(outs) \in Seq(Data(s.key))
  <2>1. ASSUME NEW i \in 1 .. Len(outs)
        PROVE  outs[i] \in Seq(Data(s.key))
    <3>1. i - 1 \in Channels /\ outs[i] = Notes(i - 1) \o Load(i - 1)
      BY <1>2, <1>3, <1>5
    <3>2. Notes(i - 1) = <<>> /\ Load(i - 1) \in Seq(Data(s.key))
      BY <1>6, <1>8, <3>1
    <3>3. <<>> \o Load(i - 1) = Load(i - 1)
      BY <3>2
    <3> QED
      BY <3>1, <3>2, <3>3
  <2> QED
    BY <1>1, <1>3, <2>1, FlattenType
<1> QED
  BY <1>4, <1>7, <1>8

-----------------------------------------------------------------------------
(* What a session makes of what it hears. *)

LEMMA AcceptProper ==
    ASSUME NEW past \in Pasts, NEW s, Sound(past, s), Proper(s),
           s.state # "Terminated"
    PROVE  /\ Proper(Accept(s)) /\ Same(Accept(s), s) /\ Accept(s).idle = 0
           /\ Accept(s).inputs = s.inputs /\ Accept(s).outgoing = s.outgoing
<1>1. /\ Same(Accept(s), s) /\ Accept(s).idle = 0
      /\ Accept(s).inputs = s.inputs /\ Accept(s).outgoing = s.outgoing
      /\ Accept(s).outputs = s.outputs
  BY AcceptSound DEF Same
<1>2. Silent(s) => Silent(Accept(s))
  BY <1>1 DEF Silent
<1>3. Proper(Accept(s))
  BY <1>1, <1>2, ChannelsChange DEF Proper
<1> QED
  BY <1>1, <1>3

\* The packets of a datagram under way, as the channels may take them.
Heard ==
    [op : {"Heartbeat"}]
    \cup [op : {"ReliableData"}, channel : Channels,
          effect : Effects \ {"Malformed"}]
    \cup [op : {"Acknowledge", "AcknowledgeAll"}, channel : Channels,
          covers : Nat]
    \cup [op : {"Disconnect"}, reason : Refusals]

LEMMA HeardArrives == Heard \subseteq Arrivals
<1>1. Refusals \subseteq Reasons
  BY DEF Refusals, Reasons
<1> QED
  BY <1>1 DEF Heard, Arrivals

Beat(key) == Contextual(key, [op |-> "Heartbeat"])

LEMMA ReliableDataProper ==
    ASSUME NEW past \in Pasts, NEW s, Sound(past, s), Proper(s),
           s.key # NoKey, NEW packet, packet.channel \in Channels,
           packet.effect \in Effects \ {"Malformed"}
    PROVE  LET r == HandleReliableData(s, packet)
               ch == packet.channel
           IN  /\ Proper(r) /\ Same(r, s) /\ r.idle = s.idle
               /\ packet.effect \in {"InOrder", "Fragment"} =>
                     r.inputs[ch].owed = TRUE
               /\ packet.effect = "Ahead" => r.inputs[ch].acks # <<>>
<1> DEFINE ch == packet.channel
           input == s.inputs[ch]
           r == HandleReliableData(s, packet)
           Kept(t) == /\ Same(t, s) /\ t.idle = s.idle
                      /\ t.outgoing = s.outgoing
<1>1. s \in Sessions /\ input \in Inputs
  BY DEF Sound, Sessions
<1>2. ASSUME NEW new
      PROVE  /\ Kept([s EXCEPT !.inputs[ch] = new])
             /\ [s EXCEPT !.inputs[ch] = new].inputs[ch] = new
  BY <1>1 DEF Sessions, Same
<1>3. CASE packet.effect = "InOrder"
  <2> DEFINE new == [input EXCEPT !.app = @ + 1, !.owed = TRUE]
  <2>1. r = [s EXCEPT !.inputs[ch] = new]
    BY <1>1, <1>3 DEF HandleReliableData, Sessions
  <2>2. new.owed = TRUE
    BY <1>1 DEF Inputs
  <2> HIDE DEF new
  <2>3. Kept(r) /\ r.inputs[ch].owed = TRUE
    BY <1>2, <2>1, <2>2
  <2> QED
    BY <1>3, <2>3, ChannelsChange
<1>4. CASE packet.effect = "Fragment"
  <2> DEFINE new == [input EXCEPT !.owed = TRUE]
  <2>1. r = [s EXCEPT !.inputs[ch] = new]
    BY <1>4 DEF HandleReliableData
  <2>2. new.owed = TRUE
    BY <1>1 DEF Inputs
  <2> HIDE DEF new
  <2>3. Kept(r) /\ r.inputs[ch].owed = TRUE
    BY <1>2, <2>1, <2>2
  <2> QED
    BY <1>4, <2>3, ChannelsChange
<1>5. CASE packet.effect = "Ahead"
  <2> DEFINE more == Append(input.acks, "Acknowledge")
             new == [input EXCEPT !.acks = more]
  <2>1. r = [s EXCEPT !.inputs[ch] = new]
    BY <1>5 DEF HandleReliableData
  <2>2. more # <<>>
    <3>1. input.acks \in Seq({"Acknowledge", "AcknowledgeAll"})
      BY <1>1 DEF Inputs
    <3> QED
      BY <3>1
  <2> HIDE DEF more
  <2>3. new.acks # <<>>
    BY <1>1, <2>2 DEF Inputs
  <2> HIDE DEF new
  <2>4. Kept(r) /\ r.inputs[ch] = new
    BY <1>2, <2>1
  <2> QED
    BY <1>5, <2>3, <2>4, ChannelsChange
<1>6. CASE packet.effect = "Nudged"
  <2> DEFINE more == Append(input.acks, "AcknowledgeAll")
             new == [input EXCEPT !.acks = more, !.owed = FALSE]
  <2>1. r = [s EXCEPT !.inputs[ch] = new]
    BY <1>1, <1>6 DEF HandleReliableData, Sessions
  <2> HIDE DEF new
  <2>2. Kept(r)
    BY <1>2, <2>1
  <2> QED
    BY <1>6, <2>2, ChannelsChange
<1>7. CASE packet.effect = "Dropped"
  <2>1. r = s
    BY <1>7 DEF HandleReliableData
  <2> QED
    BY <1>7, <2>1 DEF Same
<1> QED
  BY <1>3, <1>4, <1>5, <1>6, <1>7 DEF Effects

\* A Disconnect ends the session for the reason it gives; anything else keeps
\* it, and a server echoes a heartbeat.
Reacts(r, s, packet) ==
    /\ Proper(r)
    /\ packet.op = "Disconnect" => EndedAs(r, s, packet.reason, TRUE)
    /\ packet.op # "Disconnect" => Same(r, s) /\ r.idle = s.idle
    /\ (packet.op = "Heartbeat" /\ s.mode = "Server") =>
          \E i \in DOMAIN r.outgoing : r.outgoing[i] = Beat(s.key)
    /\ packet.op = "ReliableData" =>
          /\ packet.effect \in {"InOrder", "Fragment"} =>
                r.inputs[packet.channel].owed = TRUE
          /\ packet.effect = "Ahead" => r.inputs[packet.channel].acks # <<>>

LEMMA PacketProper ==
    ASSUME NEW past \in Pasts, NEW s, Sound(past, s), Proper(s),
           s.state = "Running", NEW packet \in Heard
    PROVE  Reacts(HandlePacket(s, packet), s, packet)
<1> DEFINE r == HandlePacket(s, packet)
<1>1. s \in Sessions /\ s.key # NoKey
  BY DEF Sound, Proper
<1>2. CASE packet.op = "Disconnect"
  <2>1. packet.reason \in Reasons
    BY <1>2 DEF Heard, Reasons, Refusals
  <2>2. r = Terminate(s, packet.reason, FALSE, TRUE)
    BY <1>2 DEF HandlePacket
  <2>3. FALSE \in BOOLEAN /\ TRUE \in BOOLEAN
    OBVIOUS
  <2>4. EndedAs(r, s, packet.reason, TRUE)
    BY <2>1, <2>2, <2>3, TerminateProper
  <2> QED
    BY <1>2, <2>4 DEF Reacts, EndedAs
<1>3. CASE packet.op = "Heartbeat"
  <2>1. r = IF s.mode = "Server"
            THEN [s EXCEPT !.outgoing = Append(@, Beat(s.key))] ELSE s
    BY <1>3 DEF HandlePacket, Beat
  <2>2. CASE s.mode = "Server"
    <3>1. Beat(s.key) \in Words(s.key)
      BY DEF Words, Carried, Beat
    <3>2. /\ Proper(r) /\ Same(r, s) /\ r.idle = s.idle
          /\ r.outgoing = Append(s.outgoing, Beat(s.key))
      BY <1>1, <2>1, <2>2, <3>1, SpeakProper
    <3>3. s.outgoing \in Seq(Quiet \cup Notices)
      BY <1>1 DEF Sessions
    <3>4. \E i \in DOMAIN r.outgoing : r.outgoing[i] = Beat(s.key)
      BY <3>2, <3>3
    <3> QED
      BY <1>3, <3>2, <3>4 DEF Reacts
  <2>3. CASE s.mode # "Server"
    BY <1>3, <2>1, <2>3 DEF Reacts, Same
  <2> QED
    BY <2>2, <2>3
<1>4. CASE packet.op = "ReliableData"
  <2>1. /\ packet.channel \in Channels
        /\ packet.effect \in Effects \ {"Malformed"}
    BY <1>4 DEF Heard
  <2>2. r = HandleReliableData(s, packet)
    BY <1>4 DEF HandlePacket
  <2> QED
    BY <1>1, <1>4, <2>1, <2>2, ReliableDataProper DEF Reacts
<1>5. CASE packet.op \in {"Acknowledge", "AcknowledgeAll"}
  <2> DEFINE output == Release(s.outputs[packet.channel], packet.covers)
  <2>1. r = [s EXCEPT !.outputs[packet.channel] = output]
    BY <1>5 DEF HandlePacket
  <2> HIDE DEF output
  <2>2. Same(r, s) /\ r.idle = s.idle /\ r.outgoing = s.outgoing
    BY <1>1, <2>1 DEF Sessions, Same
  <2>3. Proper(r)
    BY <1>1, <2>2, ChannelsChange
  <2> QED
    BY <1>5, <2>2, <2>3 DEF Reacts
<1> QED
  BY <1>2, <1>3, <1>4, <1>5 DEF Heard

\* The same of a datagram of the session's own: it takes the packet for a sign
\* of life, and flushes what it has to say.
Responds(r, s, packet) ==
    /\ Proper(r) /\ r.mode = s.mode /\ r.key = s.key
    /\ packet.op = "Disconnect" => EndedAs(r, s, packet.reason, TRUE)
    /\ packet.op # "Disconnect" => Same(r, s) /\ r.idle = 0
    /\ (packet.op = "Heartbeat" /\ s.mode = "Server") =>
          \E i \in DOMAIN r.outgoing : r.outgoing[i] = Beat(s.key)
    /\ packet.op = "ReliableData" =>
          /\ packet.effect \in {"InOrder", "Fragment"} =>
                r.inputs[packet.channel].owed = TRUE
          /\ packet.effect = "Ahead" => r.outgoing # <<>>

LEMMA OnePacket ==
    ASSUME NEW s, s.state # "Terminated", NEW packet
    PROVE  HandlePackets(s, <<packet>>) = HandlePacket(s, packet)
<1> DEFINE packets == <<packet>>
           f == Handled(s, packets)
<1>1. Len(packets) = 1 /\ packets[1] = packet
  OBVIOUS
<1> HIDE DEF packets
<1>2. /\ f[0] = s
      /\ \A i \in 1 .. Len(packets) : f[i] = HandleNext(f[i - 1], packets[i])
  BY <1>1, HandledSteps
<1> HIDE DEF f
<1>3. f[1] = HandleNext(s, packet)
  BY <1>1, <1>2
<1>4. HandlePackets(s, packets) = HandlePacket(s, packet)
  BY <1>1, <1>3 DEF HandlePackets, HandleNext, f
<1> QED
  BY <1>4 DEF packets

LEMMA ContextualProper ==
    ASSUME NEW past \in Pasts, NEW s, Sound(past, s), Proper(s),
           s.state = "Running", NEW packet \in Heard, NEW key
    PROVE  Responds(ProcessIncoming(s, Contextual(s.key, packet), key),
                    s, packet)
<1> DEFINE a == Accept(s)
           t == HandlePacket(a, packet)
           r == FlushChannels(t)
<1>1. /\ Sound(past, a) /\ Entitled(past, a) /\ a.state = "Running"
      /\ Proper(a) /\ Same(a, s) /\ a.idle = 0
  BY AcceptSound, AcceptProper
<1> HIDE DEF a
<1>2. ProcessIncoming(s, Contextual(s.key, packet), key) = r
  <2>1. ProcessIncoming(s, Contextual(s.key, packet), key)
           = FlushChannels(HandlePackets(a, <<packet>>))
    BY DEF ProcessIncoming, Contextual, a
  <2> QED
    BY <1>1, <2>1, OnePacket
<1>3. packet \in Arrivals
  BY HeardArrives
<1>4. t \in Sessions /\ Reacts(t, a, packet)
  BY <1>1, <1>3, PacketSound, PacketProper DEF Sound
<1>5. /\ packet.op = "Disconnect" => EndedAs(t, s, packet.reason, TRUE)
      /\ packet.op # "Disconnect" => Same(t, s) /\ t.idle = 0
      /\ a.mode = s.mode /\ a.key = s.key
  <2>1. packet.op = "Disconnect" => EndedAs(t, s, packet.reason, TRUE)
    BY <1>1, <1>4 DEF Reacts, EndedAs, Same
  <2>2. packet.op # "Disconnect" => Same(t, s) /\ t.idle = 0
    BY <1>1, <1>4 DEF Reacts, Same
  <2>3. a.mode = s.mode /\ a.key = s.key
    BY <1>1 DEF Same
  <2> QED
    BY <2>1, <2>2, <2>3
<1> HIDE DEF t
<1>6. /\ Proper(r) /\ Same(r, t) /\ r.idle = t.idle
      /\ r.outgoing = t.outgoing \o FlushedOut(t)
      /\ \A ch \in Channels : r.inputs[ch].owed = t.inputs[ch].owed
  BY <1>4, FlushProper, FlushEffect DEF Reacts
<1>7. /\ t.outgoing \in Seq(Quiet \cup Notices)
      /\ FlushedOut(t) \in Seq(Quiet \cup Notices)
  <2>1. FlushedOut(t) \in Seq(Quiet)
    BY <1>4, FlushBrings
  <2> QED
    BY <1>4, <2>1, SeqGrows DEF Sessions
<1>8. \A i \in DOMAIN t.outgoing : /\ i \in DOMAIN r.outgoing
                                   /\ r.outgoing[i] = t.outgoing[i]
  BY <1>6, <1>7, JoinGrows
<1>9. FlushedOut(t) # <<>> => r.outgoing # <<>>
  BY <1>6, <1>7
<1> HIDE DEF r
<1>10. packet.op = "Disconnect" => EndedAs(r, s, packet.reason, TRUE)
  BY <1>5, <1>6 DEF EndedAs, Same
<1>11. packet.op # "Disconnect" => Same(r, s) /\ r.idle = 0
  BY <1>5, <1>6 DEF Same
<1>12. (packet.op = "Heartbeat" /\ s.mode = "Server") =>
          \E i \in DOMAIN r.outgoing : r.outgoing[i] = Beat(s.key)
  BY <1>4, <1>5, <1>8 DEF Reacts
<1>13. ASSUME packet.op = "ReliableData"
       PROVE  /\ packet.effect \in {"InOrder", "Fragment"} =>
                    r.inputs[packet.channel].owed = TRUE
              /\ packet.effect = "Ahead" => r.outgoing # <<>>
  <2>1. packet.channel \in Channels
    BY <1>13 DEF Heard
  <2> QED
    BY <1>4, <1>6, <1>9, <1>13, <2>1, FlushSays DEF Reacts
<1> QED
  BY <1>2, <1>6, <1>10, <1>11, <1>12, <1>13 DEF Responds, EndedAs, Same

LEMMA EndedFlushes ==
    ASSUME NEW t, t \in Sessions, NEW s, NEW reason, NEW byRemote,
           EndedAs(t, s, reason, byRemote)
    PROVE  EndedAs(FlushChannels(t), s, reason, byRemote)
BY FlushProper DEF EndedAs, Same

LEMMA MismatchProper ==
    ASSUME NEW past \in Pasts, NEW s, Sound(past, s), Proper(s),
           s.state # "Terminated", NEW key, key # s.key, NEW packet, NEW drawing
    PROVE  EndedAs(ProcessIncoming(s, Contextual(key, packet), drawing),
                   s, "CorruptPacket", FALSE)
<1>1. ProcessIncoming(s, Contextual(key, packet), drawing)
         = Refuse(s, "CorruptPacket")
  BY DEF ProcessIncoming, Contextual
<1> QED
  BY <1>1, RefuseProper DEF Refusals

\* Best-effort data of the session's own is a sign of life; of another it is
\* nothing to a session that runs.
TakesBestEffort(r, s, key) ==
    /\ Proper(r) /\ Same(r, s)
    /\ key = s.key => r.idle = 0
    /\ key # s.key => r.idle = s.idle
    /\ \A ch \in Channels : r.inputs[ch].owed = s.inputs[ch].owed
    /\ key # s.key => r.outgoing = s.outgoing \o FlushedOut(s)

LEMMA UnreliableProper ==
    ASSUME NEW past \in Pasts, NEW s, Sound(past, s), Proper(s),
           s.state # "Terminated", NEW key, NEW drawing,
           NEW r, r = ProcessIncoming(s, Unreliable(key), drawing)
    PROVE  /\ s.state # "Running" => EndedAs(r, s, "CorruptPacket", FALSE)
           /\ s.state = "Running" => TakesBestEffort(r, s, key)
<1> DEFINE t == HandleUnreliable(s, Unreliable(key))
<1>1. r = FlushChannels(t)
  BY DEF ProcessIncoming, Unreliable
<1>2. Sound(past, t) /\ t \in Sessions
  <2>1. Unreliable(key).known \in BOOLEAN
    BY DEF Unreliable
  <2>2. Sound(past, t)
    BY <2>1, UnreliableSound
  <2> QED
    BY <2>2 DEF Sound
<1>3. CASE s.state # "Running"
  <2>1. t = Refuse(s, "CorruptPacket")
    BY <1>3 DEF HandleUnreliable
  <2>2. EndedAs(t, s, "CorruptPacket", FALSE)
    BY <2>1, RefuseProper DEF Refusals
  <2> HIDE DEF t
  <2>3. EndedAs(r, s, "CorruptPacket", FALSE)
    BY <1>1, <1>2, <2>2, EndedFlushes
  <2> QED
    BY <1>3, <2>3
<1>4. CASE s.state = "Running"
  <2> DEFINE told == IF s.openOnNextPacket THEN Append(s.events, "Opened")
                                           ELSE s.events
             up == Append(s.received, ChannelCount)
  <2>1. s \in Sessions /\ s.key # NoKey
    BY <1>4 DEF Sound, Proper
  <2>2. t = IF key # s.key THEN s
            ELSE [s EXCEPT !.idle = 0, !.events = told,
                           !.openOnNextPacket = FALSE, !.received = up]
    BY <1>4 DEF HandleUnreliable, Unreliable
  <2> HIDE DEF told, up, t
  <2>3. /\ Same(t, s)
        /\ (key = s.key => t.idle = 0)
        /\ (key # s.key => t.idle = s.idle)
        /\ t.inputs = s.inputs /\ t.outgoing = s.outgoing
    BY <2>1, <2>2 DEF Sessions, Same
  <2>4. Proper(t)
    BY <2>1, <2>3, ChannelsChange
  <2>5. /\ Proper(r) /\ Same(r, t) /\ r.idle = t.idle
        /\ \A ch \in Channels : r.inputs[ch].owed = t.inputs[ch].owed
    BY <1>1, <1>2, <2>4, FlushProper, FlushEffect
  <2>6. ASSUME key # s.key
        PROVE  r.outgoing = s.outgoing \o FlushedOut(s)
    BY <1>1, <2>1, <2>2, <2>6, FlushEffect
  <2> QED
    BY <1>4, <2>3, <2>5, <2>6 DEF Same, TakesBestEffort
<1> QED
  BY <1>3, <1>4

\* A session that runs ends by a request or a response; a client by a request
\* at any time, which no client hears here.
LEMMA HandshakeEnds ==
    ASSUME NEW past \in Pasts, NEW s, Sound(past, s), Proper(s),
           s.state = "Running", NEW id \in Ids, NEW key, NEW drawing
    PROVE  /\ s.mode = "Server" =>
                 EndedAs(ProcessIncoming(s, SessionRequest(id), drawing),
                         s, "ConnectError", FALSE)
           /\ s.mode = "Client" =>
                 EndedAs(ProcessIncoming(s, SessionResponse(id, key), drawing),
                         s, "ConnectError", FALSE)
<1> DEFINE a == Accept(s)
           named == [a EXCEPT !.id = id]
<1>1. /\ Sound(past, a) /\ a.state = "Running"
      /\ Proper(a) /\ Same(a, s) /\ a \in Sessions
  BY AcceptSound, AcceptProper DEF Sound
<1> HIDE DEF a
<1>2. Sound(past, named) /\ Proper(named) /\ Same(named, s)
  <2>1. Same(named, a) /\ named.outgoing = a.outgoing /\ a.key # NoKey
    BY <1>1 DEF Sessions, Same, Proper
  <2>2. Proper(named)
    BY <1>1, <2>1, ChannelsChange
  <2> QED
    BY <1>1, <2>1, <2>2, NamedSound DEF Same
<1>3. ASSUME s.mode = "Server"
      PROVE  EndedAs(ProcessIncoming(s, SessionRequest(id), drawing),
                     s, "ConnectError", FALSE)
  <2>1. ProcessIncoming(s, SessionRequest(id), drawing)
           = FlushChannels(Refuse(named, "ConnectError"))
    <3>1. ProcessIncoming(s, SessionRequest(id), drawing)
             = FlushChannels(HandleSessionRequest(a, SessionRequest(id),
                                                  drawing))
      BY DEF ProcessIncoming, SessionRequest, a
    <3>2. /\ SessionRequest(id).body = "Matching" /\ SessionRequest(id).id = id
          /\ a.mode = "Server"
      BY <1>1, <1>3 DEF SessionRequest, Same
    <3>3. HandleSessionRequest(a, SessionRequest(id), drawing)
             = Refuse(named, "ConnectError")
      BY <1>1, <3>2 DEF HandleSessionRequest
    <3> QED
      BY <3>1, <3>3
  <2> HIDE DEF named
  <2> DEFINE t == Refuse(named, "ConnectError")
  <2>2. EndedAs(t, named, "ConnectError", FALSE) /\ t \in Sessions
    <3>1. named.state # "Terminated"
      BY <1>2 DEF Same
    <3>2. Sound(past, t)
      BY <1>2, RefuseSound DEF Reasons
    <3> QED
      BY <1>2, <3>1, <3>2, RefuseProper DEF Refusals, Sound
  <2> HIDE DEF t
  <2>3. EndedAs(t, s, "ConnectError", FALSE)
    BY <1>2, <2>2 DEF EndedAs, Same
  <2> QED
    BY <2>1, <2>2, <2>3, EndedFlushes DEF t
<1>4. ASSUME s.mode = "Client"
      PROVE  EndedAs(ProcessIncoming(s, SessionResponse(id, key), drawing),
                     s, "ConnectError", FALSE)
  <2> DEFINE t == Refuse(a, "ConnectError")
  <2>1. ProcessIncoming(s, SessionResponse(id, key), drawing)
           = FlushChannels(t)
    <3>1. ProcessIncoming(s, SessionResponse(id, key), drawing)
             = FlushChannels(HandleSessionResponse(a, SessionResponse(id, key)))
      BY DEF ProcessIncoming, SessionResponse, a
    <3>2. SessionResponse(id, key).body = "Matching" /\ a.mode = "Client"
      BY <1>1, <1>4 DEF SessionResponse, Same
    <3>3. HandleSessionResponse(a, SessionResponse(id, key)) = t
      BY <1>1, <3>2 DEF HandleSessionResponse
    <3> QED
      BY <3>1, <3>3
  <2>2. EndedAs(t, a, "ConnectError", FALSE) /\ t \in Sessions
    <3>1. Sound(past, t)
      BY <1>1, RefuseSound DEF Reasons
    <3> QED
      BY <1>1, <3>1, RefuseProper DEF Refusals, Sound
  <2> HIDE DEF t
  <2>3. EndedAs(t, s, "ConnectError", FALSE)
    BY <1>1, <2>2 DEF EndedAs, Same
  <2> QED
    BY <2>1, <2>2, <2>3, EndedFlushes
<1> QED
  BY <1>3, <1>4

\* A session that starts running by a handshake, under the seed agreed on.
Started(r, mode, key) ==
    /\ r.state = "Running" /\ r.mode = mode /\ r.key = key
    /\ r.byRemote = FALSE /\ r.idle = 0 /\ Silent(r)

\* A flush that has nothing to say.
LEMMA SilentFlush ==
    ASSUME NEW t, t \in Sessions, Silent(t)
    PROVE  /\ Silent(FlushChannels(t)) /\ Same(FlushChannels(t), t)
           /\ FlushChannels(t).idle = t.idle
           /\ FlushChannels(t).outgoing = t.outgoing
<1>1. Flushed(t)
  BY DEF Silent, Flushed
<1>2. FlushedOut(t) = <<>> /\ t.outgoing \in Seq(Quiet \cup Notices)
  BY <1>1, FlushBrings DEF Sessions
<1>3. t.outgoing \o FlushedOut(t) = t.outgoing
  BY <1>2
<1>4. Silent(FlushChannels(t))
  BY FlushEffect DEF Silent
<1> QED
  BY <1>3, <1>4, FlushEffect DEF Same

LEMMA RequestStarts ==
    ASSUME NEW past \in Pasts, NEW s, Sound(past, s), Silent(s),
           s.state = "Negotiating", s.mode = "Server", s.byRemote = FALSE,
           s.outgoing = <<>>, ~Surfacing(s), NEW id \in Ids, NEW key \in Keys
    PROVE  LET r == ProcessIncoming(s, SessionRequest(id), key)
           IN  /\ Started(r, "Server", key)
               /\ r.outgoing = <<SessionResponse(id, key)>>
<1> DEFINE a == Accept(s)
           t == HandleSessionRequest(a, SessionRequest(id), key)
           r == ProcessIncoming(s, SessionRequest(id), key)
           out == Append(a.outgoing, SessionResponse(id, key))
<1>1. /\ a \in Sessions /\ a.state = "Negotiating" /\ a.mode = "Server"
      /\ a.byRemote = FALSE /\ a.idle = 0 /\ a.outgoing = <<>>
      /\ a.inputs = s.inputs /\ a.outputs = s.outputs /\ Sound(past, a)
      /\ a.openOnNextPacket = FALSE
  BY AcceptSound DEF Sound
<1>2. r = FlushChannels(t)
  BY DEF ProcessIncoming, SessionRequest
<1> HIDE DEF a
<1>3. t = [a EXCEPT !.id = id, !.key = key, !.outgoing = out,
                    !.state = "Running", !.openOnNextPacket = TRUE]
  <2>1. /\ SessionRequest(id).body = "Matching" /\ SessionRequest(id).id = id
    BY DEF SessionRequest
  <2> DEFINE named == [a EXCEPT !.id = id]
  <2>2. t = [named EXCEPT
                !.key = key,
                !.outgoing = Append(named.outgoing, SessionResponse(id, key)),
                !.state = "Running", !.openOnNextPacket = TRUE]
    BY <1>1, <2>1 DEF HandleSessionRequest
  <2>3. named.outgoing = a.outgoing
    BY <1>1 DEF Sessions
  <2> QED
    BY <1>1, <2>2, <2>3 DEF Sessions
<1>4. t \in Sessions
  <2>1. ~Surfacing(a)
    BY <1>1, AcceptSound DEF Surfacing, a
  <2>2. /\ SessionRequest(id).id \in Ids
        /\ SessionRequest(id).body \in Bodies
    BY DEF SessionRequest, Bodies
  <2>3. Sound(past, t)
    BY <1>1, <2>1, <2>2, RequestSound
  <2> QED
    BY <2>3 DEF Sound
<1>5. /\ t.state = "Running" /\ t.mode = "Server" /\ t.key = key
      /\ t.byRemote = FALSE /\ t.idle = 0 /\ t.outgoing = out
      /\ t.inputs = s.inputs /\ t.outputs = s.outputs
  <2> HIDE DEF out, t
  <2> QED
    BY <1>1, <1>3 DEF Sessions
<1>6. out = <<SessionResponse(id, key)>>
  BY <1>1
<1> HIDE DEF t, out, r
<1>7. Silent(t)
  BY <1>5 DEF Silent
<1>8. /\ Silent(r) /\ Same(r, t) /\ r.idle = t.idle
      /\ r.outgoing = t.outgoing
  BY <1>2, <1>4, <1>7, SilentFlush
<1> QED
  BY <1>5, <1>6, <1>8 DEF Started, Same, r

LEMMA ResponseStarts ==
    ASSUME NEW past \in Pasts, NEW s, Sound(past, s), Silent(s),
           s.state = "Negotiating", s.mode = "Client", s.byRemote = FALSE,
           s.outgoing = <<>>, ~Surfacing(s),
           NEW id \in Ids, NEW key \in Keys, NEW drawing
    PROVE  LET r == ProcessIncoming(s, SessionResponse(id, key), drawing)
           IN  Started(r, "Client", key) /\ r.outgoing = <<>>
<1> DEFINE a == Accept(s)
           t == HandleSessionResponse(a, SessionResponse(id, key))
           r == ProcessIncoming(s, SessionResponse(id, key), drawing)
           told == Append(a.events, "Opened")
<1>1. /\ a \in Sessions /\ a.state = "Negotiating" /\ a.mode = "Client"
      /\ a.byRemote = FALSE /\ a.idle = 0 /\ a.outgoing = <<>>
      /\ a.inputs = s.inputs /\ a.outputs = s.outputs /\ Sound(past, a)
  BY AcceptSound DEF Sound
<1>2. r = FlushChannels(t)
  BY DEF ProcessIncoming, SessionResponse
<1>3. ~Surfacing(a)
  BY <1>1, AcceptSound DEF Surfacing, a
<1> HIDE DEF a
<1>4. t = [a EXCEPT !.key = key, !.id = id, !.state = "Running",
                    !.events = told]
  <2>1. /\ SessionResponse(id, key).body = "Matching"
        /\ SessionResponse(id, key).id = id /\ SessionResponse(id, key).key = key
    BY DEF SessionResponse
  <2> QED
    BY <1>1, <2>1 DEF HandleSessionResponse
<1>5. t \in Sessions
  <2>1. /\ SessionResponse(id, key).id \in Ids
        /\ SessionResponse(id, key).key \in Keys
        /\ SessionResponse(id, key).body \in Bodies
    BY DEF SessionResponse, Bodies
  <2>2. Sound(past, t)
    BY <1>1, <1>3, <2>1, ResponseSound
  <2> QED
    BY <2>2 DEF Sound
<1>6. /\ t.state = "Running" /\ t.mode = "Client" /\ t.key = key
      /\ t.byRemote = FALSE /\ t.idle = 0 /\ t.outgoing = <<>>
      /\ t.inputs = s.inputs /\ t.outputs = s.outputs
  <2> HIDE DEF told, t
  <2> QED
    BY <1>1, <1>4 DEF Sessions
<1> HIDE DEF t, r
<1>7. Silent(t)
  BY <1>6 DEF Silent
<1>8. /\ Silent(r) /\ Same(r, t) /\ r.idle = t.idle
      /\ r.outgoing = t.outgoing
  BY <1>2, <1>5, <1>7, SilentFlush
<1> QED
  BY <1>6, <1>8 DEF Started, Same, r

-----------------------------------------------------------------------------
(* Time, and the application. *)

LEMMA AgeProper ==
    ASSUME NEW past \in Pasts, NEW s, Sound(past, s), Proper(s),
           s.state # "Terminated"
    PROVE  LET r == Age(s)
           IN  /\ Proper(r) /\ Same(r, s)
               /\ r.idle = Least(s.idle + 1, MaxIdle)
               /\ r.inputs = s.inputs /\ r.outgoing = s.outgoing
               /\ r.received = s.received /\ r.events = s.events
<1> DEFINE old == Least(s.idle + 1, MaxIdle)
           outs == [ch \in Channels |->
                       [s.outputs[ch] EXCEPT !.overdue = s.outputs[ch].sent > 0]]
           r == [s EXCEPT !.idle = old, !.outputs = outs]
<1>1. s \in Sessions
  BY DEF Sound
<1>2. Age(s) = r
  BY <1>1 DEF Age, Sessions
<1>3. \A ch \in Channels : /\ outs[ch].queued = s.outputs[ch].queued
                           /\ outs[ch].sent = s.outputs[ch].sent
                           /\ outs[ch].ready = s.outputs[ch].ready
  BY <1>1 DEF Sessions, Outputs
<1> HIDE DEF old, outs
<1>4. /\ Same(r, s) /\ r.idle = old /\ r.inputs = s.inputs
      /\ r.outputs = outs /\ r.outgoing = s.outgoing
      /\ r.received = s.received /\ r.events = s.events
  BY <1>1 DEF Sessions, Same
<1> HIDE DEF r
<1>5. Silent(s) => Silent(r)
  BY <1>3, <1>4 DEF Silent
<1>6. Proper(r)
  BY <1>4, <1>5, ChannelsChange DEF Proper
<1> QED
  BY <1>2, <1>4, <1>6 DEF old

\* The heartbeat that a tick sends.
LEMMA BeatProper ==
    ASSUME NEW past \in Pasts, NEW s, Sound(past, s), Proper(s),
           s.state # "Terminated"
    PROVE  LET b == SendHeartbeatIfRequired(s)
           IN  /\ Sound(past, b) /\ Proper(b) /\ Same(b, s)
               /\ b.idle = s.idle /\ b.inputs = s.inputs
               /\ b.outgoing = IF HeartbeatDue(s)
                               THEN Append(s.outgoing, Beat(s.key))
                               ELSE s.outgoing
<1> DEFINE b == SendHeartbeatIfRequired(s)
<1>1. CASE HeartbeatDue(s)
  <2>1. b = [s EXCEPT !.outgoing = Append(@, Beat(s.key))]
    BY <1>1 DEF SendHeartbeatIfRequired, Beat
  <2>2. s.key # NoKey
    BY <1>1 DEF HeartbeatDue, Proper
  <2>3. Beat(s.key) \in Words(s.key) /\ s.key \in Seeds
    BY DEF Words, Carried, Beat, Sound, Sessions
  <2>4. Beat(s.key) \in Quiet
    BY <2>3, WordsAreQuiet
  <2>5. /\ Proper(b) /\ Same(b, s) /\ b.idle = s.idle
        /\ b.inputs = s.inputs /\ b.outgoing = Append(s.outgoing, Beat(s.key))
    BY <2>1, <2>2, <2>3, SpeakProper
  <2>6. Sound(past, b)
    BY <2>1, <2>4, SendSound
  <2> QED
    BY <1>1, <2>5, <2>6
<1>2. CASE ~HeartbeatDue(s)
  <2>1. b = s
    BY <1>2 DEF SendHeartbeatIfRequired
  <2> QED
    BY <1>2, <2>1 DEF Same
<1> QED
  BY <1>1, <1>2

LEMMA TickEnds ==
    ASSUME NEW past \in Pasts, NEW s, Sound(past, s), Proper(s),
           s.state # "Terminated", Inactive(s)
    PROVE  EndedAs(RunTick(s), s, "Timeout", FALSE)
<1> DEFINE b == SendHeartbeatIfRequired(s)
<1>1. Sound(past, b) /\ Proper(b) /\ Same(b, s)
  BY BeatProper
<1>2. RunTick(s) = Abandon(b, "Timeout")
  BY DEF RunTick
<1> HIDE DEF b
<1>3. EndedAs(Abandon(b, "Timeout"), b, "Timeout", FALSE)
  BY <1>1, AbandonProper DEF Reasons, Same
<1> QED
  BY <1>1, <1>2, <1>3 DEF EndedAs, Same

\* A tick of a session that is not inactive says what is owed and beats if that
\* is due; a server that owes nothing sends data only.
Ticks(r, s) ==
    /\ Proper(r) /\ Same(r, s) /\ r.idle = s.idle
    /\ \A ch \in Channels : r.inputs[ch].owed = FALSE
    /\ HeartbeatDue(s) =>
          \E i \in DOMAIN r.outgoing : r.outgoing[i] = Beat(s.key)
    /\ (\E ch \in Channels : s.inputs[ch].owed) => r.outgoing # <<>>
    /\ (s.mode = "Server" /\ \A ch \in Channels : ~s.inputs[ch].owed) =>
          r.outgoing \in Seq(Data(s.key))

LEMMA TickKeeps ==
    ASSUME NEW past \in Pasts, NEW s, Sound(past, s), Proper(s), Flushed(s),
           s.state # "Terminated", s.outgoing = <<>>, ~Inactive(s)
    PROVE  Ticks(RunTick(s), s)
<1> DEFINE b == SendHeartbeatIfRequired(s)
           t == TickInputs(b)
           o == TickOutputs(t)
           r == FlushChannels(o)
<1>1. RunTick(s) = r
  BY DEF RunTick
<1>2. /\ Sound(past, b) /\ Proper(b) /\ Same(b, s)
      /\ b.idle = s.idle /\ b.inputs = s.inputs
      /\ b.outgoing = IF HeartbeatDue(s) THEN Append(s.outgoing, Beat(s.key))
                                         ELSE s.outgoing
      /\ b \in Sessions
  BY BeatProper DEF Sound
<1> HIDE DEF b
<1>3. /\ Same(t, b) /\ t.idle = b.idle /\ t.outgoing = b.outgoing
      /\ t.outputs = b.outputs
      /\ t.inputs = [ch \in Channels |-> TickInput(b.inputs[ch])]
  BY <1>2 DEF Sessions, Same, TickInputs
<1>4. ASSUME NEW ch \in Channels
      PROVE  /\ t.inputs[ch].owed = FALSE
             /\ b.inputs[ch].owed => t.inputs[ch].acks # <<>>
             /\ ~b.inputs[ch].owed => t.inputs[ch] = b.inputs[ch]
  <2> DEFINE input == b.inputs[ch]
             more == Append(input.acks, "AcknowledgeAll")
  <2>1. /\ input \in Inputs
        /\ input.acks \in Seq({"Acknowledge", "AcknowledgeAll"})
        /\ input.owed \in BOOLEAN
    BY <1>2 DEF Sessions, Inputs
  <2>2. more # <<>>
    BY <2>1
  <2>3. t.inputs[ch] = IF input.owed
                       THEN [input EXCEPT !.acks = more, !.owed = FALSE]
                       ELSE input
    BY <1>3, <2>1 DEF TickInput, Inputs
  <2> HIDE DEF input, more
  <2> QED
    BY <2>1, <2>2, <2>3 DEF Inputs, input
<1>5. Proper(t) /\ Sound(past, t)
  <2>1. t.state # "Terminated" /\ Sound(past, t)
    BY <1>2, <1>3, TickInputsSound DEF Same
  <2>2. Silent(b) => Silent(t)
    BY <1>3, <1>4 DEF Silent
  <2> HIDE DEF t
  <2>3. Proper(t)
    BY <1>2, <1>3, <2>2, ChannelsChange DEF Proper
  <2> QED
    BY <2>1, <2>3
<1> HIDE DEF t
<1>6. /\ Proper(o) /\ Same(o, t) /\ o.idle = t.idle
      /\ o.inputs = t.inputs /\ o.outgoing = t.outgoing /\ o \in Sessions
  BY <1>5, TickOutputsProper, TickOutputsEffect DEF Sound
<1> HIDE DEF o
<1>7. /\ Proper(r) /\ Same(r, o) /\ r.idle = o.idle
      /\ r.outgoing = o.outgoing \o FlushedOut(o)
      /\ \A ch \in Channels : r.inputs[ch].owed = o.inputs[ch].owed
  BY <1>6, FlushProper, FlushEffect
<1>8. /\ o.outgoing \in Seq(Quiet \cup Notices)
      /\ FlushedOut(o) \in Seq(Quiet \cup Notices)
  <2>1. FlushedOut(o) \in Seq(Quiet)
    BY <1>6, FlushBrings
  <2> QED
    BY <1>6, <2>1, SeqGrows DEF Sessions
<1>9. /\ \A i \in DOMAIN o.outgoing : /\ i \in DOMAIN r.outgoing
                                      /\ r.outgoing[i] = o.outgoing[i]
      /\ FlushedOut(o) # <<>> => r.outgoing # <<>>
      /\ o.outgoing = <<>> => r.outgoing = FlushedOut(o)
  <2> HIDE DEF r
  <2> DEFINE S == Quiet \cup Notices
             before == o.outgoing
             more == FlushedOut(o)
  <2>1. before \in Seq(S) /\ more \in Seq(S)
    BY <1>8
  <2>2. r.outgoing = before \o more
    BY <1>7
  <2> HIDE DEF S, before, more
  <2>3. more # <<>> => before \o more # <<>>
    BY <2>1
  <2>4. /\ before = <<>> => before \o more = more
        /\ \A i \in DOMAIN before : /\ i \in DOMAIN (before \o more)
                                    /\ (before \o more)[i] = before[i]
    BY <2>1, JoinGrows
  <2> QED
    BY <2>2, <2>3, <2>4 DEF before, more
<1> HIDE DEF r
<1>10. ASSUME HeartbeatDue(s)
       PROVE  \E i \in DOMAIN r.outgoing : r.outgoing[i] = Beat(s.key)
  <2>1. o.outgoing = <<Beat(s.key)>>
    BY <1>2, <1>3, <1>6, <1>10
  <2>2. 1 \in DOMAIN o.outgoing /\ o.outgoing[1] = Beat(s.key)
    BY <2>1
  <2> QED
    BY <1>9, <2>2
<1>11. ASSUME NEW ch \in Channels, s.inputs[ch].owed
       PROVE  r.outgoing # <<>>
  <2>1. o.inputs[ch].acks # <<>>
    BY <1>2, <1>4, <1>6, <1>11
  <2> QED
    BY <1>6, <1>9, <2>1, FlushSays
<1>12. ASSUME s.mode = "Server", \A ch \in Channels : ~s.inputs[ch].owed
       PROVE  r.outgoing \in Seq(Data(s.key))
  <2>1. o.outgoing = <<>>
    BY <1>2, <1>3, <1>6, <1>12 DEF HeartbeatDue
  <2>2. \A ch \in Channels : o.inputs[ch].acks = <<>>
    BY <1>2, <1>4, <1>6, <1>12 DEF Flushed
  <2>3. o.key = s.key
    BY <1>2, <1>3, <1>6 DEF Same
  <2> QED
    BY <1>6, <1>9, <2>1, <2>2, <2>3, FlushSays
<1>13. Same(r, s) /\ r.idle = s.idle
  BY <1>2, <1>3, <1>6, <1>7 DEF Same
<1>14. \A ch \in Channels : r.inputs[ch].owed = FALSE
  BY <1>4, <1>6, <1>7
<1> QED
  BY <1>1, <1>7, <1>10, <1>11, <1>12, <1>13, <1>14 DEF Ticks

\* What a session puts on a channel waits there,
LEMMA EnqueueKeeps ==
    ASSUME NEW past, NEW s, Sound(past, s), Proper(s), s.state = "Running",
           NEW ch
    PROVE  LET r == EnqueueReliable(s, ch)
           IN  /\ Proper(r) /\ Same(r, s) /\ r.idle = s.idle
               /\ r.inputs = s.inputs /\ r.outgoing = s.outgoing
<1> DEFINE r == EnqueueReliable(s, ch)
           output == [s.outputs[ch] EXCEPT !.queued = @ + 1]
<1>1. s \in Sessions /\ s.key # NoKey
  BY DEF Sound, Proper
<1>2. r = [s EXCEPT !.outputs[ch] = output]
  BY DEF EnqueueReliable
<1> HIDE DEF output
<1>3. /\ Same(r, s) /\ r.idle = s.idle
      /\ r.inputs = s.inputs /\ r.outgoing = s.outgoing
  BY <1>1, <1>2 DEF Sessions, Same
<1> HIDE DEF r
<1>4. Proper(r)
  BY <1>1, <1>3, ChannelsChange
<1> QED
  BY <1>3, <1>4 DEF r

\* and its best-effort data does not.
LEMMA BestEffortSays ==
    ASSUME NEW past, NEW s, Sound(past, s), s.state = "Running",
           s.outgoing = <<>>
    PROVE  LET r == EnqueueUnreliable(s, FALSE)
           IN  /\ Same(r, s) /\ r.idle = s.idle /\ r.inputs = s.inputs
               /\ r.outgoing = <<Unreliable(s.key)>>
<1> DEFINE r == EnqueueUnreliable(s, FALSE)
           out == Append(s.outgoing, Unreliable(s.key))
<1>1. r = [s EXCEPT !.outgoing = out] /\ s \in Sessions
  BY DEF EnqueueUnreliable, Sound
<1>2. out = <<Unreliable(s.key)>>
  OBVIOUS
<1> HIDE DEF out
<1> QED
  BY <1>1, <1>2 DEF Sessions, Same

\* A session that is new.
LEMMA NewIs ==
    ASSUME NEW mode \in {"Client", "Server"}
    PROVE  LET s == New(mode)
           IN  /\ s.state = "Negotiating" /\ s.mode = mode /\ s.key = NoKey
               /\ s.byRemote = FALSE /\ s.idle = 0 /\ Silent(s)
               /\ s.outgoing = <<>> /\ s.received = <<>> /\ s.events = <<>>
               /\ ~Surfacing(s) /\ Proper(s)
<1> DEFINE s == New(mode)
<1>1. /\ s.state = "Negotiating" /\ s.mode = mode /\ s.key = NoKey
      /\ s.byRemote = FALSE /\ s.idle = 0 /\ s.outgoing = <<>>
      /\ s.received = <<>> /\ s.events = <<>>
      /\ s.inputs = [ch \in Channels |-> EmptyInput]
      /\ s.outputs = [ch \in Channels |-> EmptyOutput]
  BY DEF New
<1>2. /\ EmptyInput.acks = <<>> /\ EmptyInput.app = 0
      /\ EmptyInput.owed = FALSE /\ EmptyOutput.queued = 0
      /\ EmptyOutput.sent = 0 /\ EmptyOutput.ready = 0
  BY DEF EmptyInput, EmptyOutput
<1> HIDE DEF s
<1>3. Silent(s) /\ ~Surfacing(s)
  BY <1>1, <1>2 DEF Silent, Surfacing
<1>4. s.outgoing \in Seq(Replies(s))
  BY <1>1
<1> QED
  BY <1>1, <1>3, <1>4 DEF Proper, s

LEMMA ConnectSays ==
    ASSUME NEW id \in Ids
    PROVE  LET r == SendSessionRequest(New("Client"), id)
           IN  /\ r.state = "Negotiating" /\ r.mode = "Client"
               /\ r.key = NoKey /\ r.byRemote = FALSE /\ r.idle = 0
               /\ Silent(r) /\ r.outgoing = <<SessionRequest(id)>>
<1> DEFINE s == New("Client")
           r == SendSessionRequest(s, id)
           out == Append(s.outgoing, SessionRequest(id))
<1>1. /\ s.state = "Negotiating" /\ s.mode = "Client" /\ s.key = NoKey
      /\ s.byRemote = FALSE /\ s.idle = 0 /\ Silent(s)
      /\ s.outgoing = <<>>
  BY NewIs
<1>2. s \in Sessions
  BY NewSound DEF Sound, Pasts
<1> HIDE DEF s
<1>3. r = [s EXCEPT !.id = id, !.outgoing = out]
  BY <1>1 DEF SendSessionRequest
<1>4. out = <<SessionRequest(id)>>
  BY <1>1
<1> HIDE DEF out
<1>5. /\ r.state = s.state /\ r.mode = s.mode /\ r.key = s.key
      /\ r.byRemote = s.byRemote /\ r.idle = s.idle /\ r.outgoing = out
      /\ r.inputs = s.inputs /\ r.outputs = s.outputs
  BY <1>2, <1>3 DEF Sessions
<1>6. Silent(r)
  BY <1>1, <1>5 DEF Silent
<1> QED
  BY <1>1, <1>4, <1>5, <1>6 DEF s

-----------------------------------------------------------------------------
(* What an application was given. *)

GivenEvents ==
    [event : {"Opened", "Data"}, key : Seeds]
    \cup [event : {"Closed"}, key : Seeds, reason : Reasons,
          byRemote : BOOLEAN]

\* No session is open.
Ended(l) == l = <<>> \/ l[Len(l)].event = "Closed"

PastOf(l) == IF Ended(l) THEN "Fresh" ELSE "Open"

\* EventsInOrder, of one application.
InOrder(l) ==
    \A i \in DOMAIN l :
        /\ l[i].event = "Data" =>
              \E j \in 1 .. i - 1 : /\ l[j].event = "Opened"
                                    /\ \A k \in j .. i : l[k].event # "Closed"
        /\ l[i].event = "Opened" => i = 1 \/ l[i - 1].event = "Closed"

\* longer is l, and what came after it.
Extends(longer, l) ==
    /\ Len(l) <= Len(longer)
    /\ \A i \in 1 .. Len(l) : longer[i] = l[i]

LEMMA OneMoreEvent ==
    ASSUME NEW l \in Seq(GivenEvents), InOrder(l), NEW e \in GivenEvents
    PROVE  /\ Append(l, e) \in Seq(GivenEvents)
           /\ Len(Append(l, e)) = Len(l) + 1
           /\ Append(l, e)[Len(l) + 1] = e
           /\ Extends(Append(l, e), l)
           /\ Ended(Append(l, e)) <=> e.event = "Closed"
           /\ e.event = "Closed" => InOrder(Append(l, e))
           /\ e.event = "Opened" /\ Ended(l) => InOrder(Append(l, e))
           /\ e.event = "Data" /\ ~Ended(l) => InOrder(Append(l, e))
<1> DEFINE n == Len(l)
           m == Append(l, e)
<1>1. /\ m \in Seq(GivenEvents) /\ Len(m) = n + 1 /\ m[n + 1] = e
      /\ \A i \in 1 .. n : m[i] = l[i]
      /\ DOMAIN m = 1 .. n + 1 /\ DOMAIN l = 1 .. n /\ n \in Nat
      /\ Len(m) # 0
  OBVIOUS
<1>2. m # <<>>
  BY <1>1
<1> HIDE DEF m
<1>3. Ended(m) <=> e.event = "Closed"
  BY <1>1, <1>2 DEF Ended
<1>4. ASSUME NEW i \in 1 .. n
      PROVE  /\ m[i].event = "Data" =>
                   \E j \in 1 .. i - 1 :
                       /\ m[j].event = "Opened"
                       /\ \A k \in j .. i : m[k].event # "Closed"
             /\ m[i].event = "Opened" => i = 1 \/ m[i - 1].event = "Closed"
  <2>1. ASSUME m[i].event = "Data"
        PROVE  \E j \in 1 .. i - 1 :
                   /\ m[j].event = "Opened"
                   /\ \A k \in j .. i : m[k].event # "Closed"
    <3>1. PICK j \in 1 .. i - 1 :
                   /\ l[j].event = "Opened"
                   /\ \A k \in j .. i : l[k].event # "Closed"
      BY <1>1, <2>1 DEF InOrder
    <3>2. j \in 1 .. n /\ j .. i \subseteq 1 .. n
      BY <1>1
    <3> QED
      BY <1>1, <3>1, <3>2
  <2>2. ASSUME m[i].event = "Opened", i # 1
        PROVE  m[i - 1].event = "Closed"
    <3>1. n \in Nat /\ i \in DOMAIN l /\ l[i].event = "Opened"
      BY <1>1, <2>2
    <3>2. i - 1 \in 1 .. n
      BY <2>2, <3>1
    <3>3. l[i - 1].event = "Closed"
      BY <2>2, <3>1 DEF InOrder
    <3> QED
      BY <1>1, <3>2, <3>3
  <2> QED
    BY <2>1, <2>2
<1>5. ASSUME e.event = "Opened", Ended(l)
      PROVE  n + 1 = 1 \/ m[(n + 1) - 1].event = "Closed"
  <2>1. n = 0 \/ (n \in 1 .. n /\ l[n].event = "Closed" /\ (n + 1) - 1 = n)
    BY <1>1, <1>5 DEF Ended
  <2> QED
    BY <1>1, <2>1
<1>6. ASSUME e.event = "Data", ~Ended(l)
      PROVE  \E j \in 1 .. (n + 1) - 1 :
                 /\ m[j].event = "Opened"
                 /\ \A k \in j .. n + 1 : m[k].event # "Closed"
  <2>1. n \in 1 .. n /\ l[n].event # "Closed"
    BY <1>1, <1>6 DEF Ended
  <2>2. l[n] \in GivenEvents
    BY <2>1
  <2>3. CASE l[n].event = "Opened"
    <3>1. m[n] = l[n] /\ n \in 1 .. (n + 1) - 1
      BY <1>1, <2>1
    <3>2. \A k \in n .. n + 1 : m[k].event # "Closed"
      <4>1. \A k \in n .. n + 1 : k = n \/ k = n + 1
        <5>1. n \in Nat
          BY <1>1
        <5> HIDE DEF n
        <5> QED
          BY <5>1
      <4> QED
        BY <1>1, <1>6, <2>1, <3>1, <4>1
    <3> QED
      BY <2>3, <3>1, <3>2
  <2>4. CASE l[n].event = "Data"
    <3>1. PICK j \in 1 .. n - 1 :
                   /\ l[j].event = "Opened"
                   /\ \A k \in j .. n : l[k].event # "Closed"
      BY <1>1, <2>1, <2>4 DEF InOrder
    <3>2. j \in 1 .. (n + 1) - 1 /\ m[j].event = "Opened"
      BY <1>1, <3>1
    <3>3. ASSUME NEW k \in j .. n + 1
          PROVE  m[k].event # "Closed"
      <4>1. k = n + 1 \/ (k \in j .. n /\ k \in 1 .. n)
        BY <1>1
      <4> QED
        BY <1>1, <1>6, <3>1, <4>1
    <3> QED
      BY <3>2, <3>3
  <2>5. l[n].event \in {"Opened", "Data", "Closed"}
    BY <2>2 DEF GivenEvents
  <2> QED
    BY <2>1, <2>3, <2>4, <2>5
<1>7. ASSUME \/ e.event = "Closed"
             \/ e.event = "Opened" /\ Ended(l)
             \/ e.event = "Data" /\ ~Ended(l)
      PROVE  InOrder(m)
  <2>1. ASSUME NEW i \in DOMAIN m
        PROVE  /\ m[i].event = "Data" =>
                     \E j \in 1 .. i - 1 :
                         /\ m[j].event = "Opened"
                         /\ \A k \in j .. i : m[k].event # "Closed"
               /\ m[i].event = "Opened" => i = 1 \/ m[i - 1].event = "Closed"
    <3>1. CASE i \in 1 .. n
      BY <1>4, <3>1
    <3>2. CASE i = n + 1
      <4>1. m[i] = e
        BY <1>1, <3>2
      <4>2. CASE e.event = "Closed"
        BY <4>1, <4>2
      <4>3. CASE e.event = "Opened" /\ Ended(l)
        BY <1>5, <3>2, <4>1, <4>3
      <4>4. CASE e.event = "Data" /\ ~Ended(l)
        BY <1>6, <3>2, <4>1, <4>4
      <4> QED
        BY <1>7, <4>2, <4>3, <4>4
    <3> QED
      BY <1>1, <3>1, <3>2
  <2> QED
    BY <2>1 DEF InOrder
<1>8. Extends(m, l)
  BY <1>1 DEF Extends
<1> QED
  BY <1>1, <1>3, <1>7, <1>8 DEF m

LEMMA JoinOne ==
    ASSUME NEW T, NEW l \in Seq(T), NEW e
    PROVE  l \o <<>> = l /\ l \o <<e>> = Append(l, e)
<1> DEFINE S == T \cup {e}
<1>1. l \in Seq(S) /\ <<e>> \in Seq(S) /\ e \in S
  BY SeqGrows
<1>2. l \o <<>> = l
  OBVIOUS
<1> HIDE DEF S
<1>3. /\ l \o <<e>> \in Seq(S) /\ Append(l, e) \in Seq(S)
      /\ Len(l \o <<e>>) = Len(l) + 1 /\ Len(Append(l, e)) = Len(l) + 1
      /\ \A i \in 1 .. Len(l) + 1 : (l \o <<e>>)[i] = Append(l, e)[i]
  BY <1>1
<1> QED
  BY <1>2, <1>3

LEMMA ExtendsFurther ==
    ASSUME NEW T, NEW a \in Seq(T), NEW b \in Seq(T), NEW c \in Seq(T),
           Extends(b, a), Extends(c, b)
    PROVE  Extends(c, a)
BY DEF Extends

\* The events that a session holds.
LEMMA EventsHeld ==
    ASSUME NEW past, NEW t, Told(past, t),
           t.state \in {"Negotiating", "Running", "Terminated"}
    PROVE  /\ Has(t, "Opened") <=>
                 t.events \in {<<"Opened">>, <<"Opened", "Closed">>}
           /\ Has(t, "Closed") <=> t.state = "Terminated"
           /\ Has(t, "Opened") => past # "Open"
<1>1. CASE t.events = <<>>
  <2>1. ~Has(t, "Opened") /\ ~Has(t, "Closed")
    BY <1>1 DEF Has
  <2>2. <<>> # <<"Opened">> /\ <<>> # <<"Opened", "Closed">> /\ <<>> # <<"Closed">>
    OBVIOUS
  <2>3. t.state # "Terminated"
    BY <1>1, <2>2 DEF Told
  <2> QED
    BY <1>1, <2>1, <2>2, <2>3
<1>2. CASE t.events = <<"Opened">>
  <2>1. <<"Opened">> # <<"Closed">> /\ <<"Opened">> # <<"Opened", "Closed">>
    OBVIOUS
  <2>2. Has(t, "Opened") /\ ~Has(t, "Closed")
    BY <1>2 DEF Has
  <2>3. t.state # "Terminated"
    BY <1>2, <2>1 DEF Told
  <2>4. <<"Opened">> # <<>>
    OBVIOUS
  <2>5. past # "Open"
    BY <1>2, <2>3, <2>4 DEF Told
  <2> QED
    BY <1>2, <2>2, <2>3, <2>5
<1>3. CASE t.events = <<"Closed">>
  <2>1. /\ <<"Closed">> # <<"Opened">> /\ <<"Closed">> # <<"Opened", "Closed">>
        /\ <<"Closed">> # <<>>
    OBVIOUS
  <2>2. ~Has(t, "Opened") /\ Has(t, "Closed")
    BY <1>3 DEF Has
  <2>3. t.state = "Terminated"
    BY <1>3, <2>1 DEF Told
  <2> QED
    BY <1>3, <2>1, <2>2, <2>3
<1>4. CASE t.events = <<"Opened", "Closed">>
  <2>1. /\ <<"Opened", "Closed">> # <<"Opened">>
        /\ <<"Opened", "Closed">> # <<>>
        /\ <<"Opened", "Closed">> # <<"Closed">>
    OBVIOUS
  <2>2. Has(t, "Opened") /\ Has(t, "Closed")
    <3>1. /\ DOMAIN <<"Opened", "Closed">> = 1 .. 2
          /\ <<"Opened", "Closed">>[1] = "Opened"
          /\ <<"Opened", "Closed">>[2] = "Closed"
      OBVIOUS
    <3> QED
      BY <1>4, <3>1 DEF Has
  <2>3. t.state = "Terminated" /\ past # "Open"
    BY <1>4, <2>1 DEF Told
  <2> QED
    BY <1>4, <2>2, <2>3
<1> QED
  BY <1>1, <1>2, <1>3, <1>4 DEF Told

Closing(t) ==
    [event |-> "Closed", key |-> t.key, reason |-> t.reason,
     byRemote |-> t.byRemote]

\* What a host's application was given after a call, and what becomes of the
\* session.
SurfacedWell(m, l, t) ==
    /\ m \in Seq(GivenEvents) /\ InOrder(m) /\ Extends(m, l)
    /\ \A i \in Len(l) + 1 .. Len(m) :
          m[i].event = "Closed" => t.state = "Terminated" /\ m[i] = Closing(t)
    /\ t.state = "Terminated" =>
          Ended(m) /\ Len(m) \in 1 .. Len(m) /\ m[Len(m)] = Closing(t)
    /\ t.state # "Terminated" => (Ended(m) <=> ~Opened(PastOf(l), t))

LEMMA SurfacedKeeps ==
    ASSUME NEW l \in Seq(GivenEvents), InOrder(l), NEW t, Sound(PastOf(l), t)
    PROVE  SurfacedWell(Surfaced(l, t), l, t)
<1> DEFINE past == PastOf(l)
           opening == [event |-> "Opened", key |-> t.key]
           data == [event |-> "Data", key |-> t.key]
           open == l \o OpenedEvents(t)
           mid == open \o DataEvents(t, open)
           all == mid \o ClosedEvents(t)
<1>1. /\ t \in Sessions /\ t.key \in Seeds /\ t.reason \in Reasons
      /\ t.byRemote \in BOOLEAN
      /\ t.state \in {"Negotiating", "Running", "Terminated"}
  BY DEF Sound, Sessions
<1>2. /\ opening \in GivenEvents /\ data \in GivenEvents
      /\ Closing(t) \in GivenEvents
      /\ opening.event = "Opened" /\ data.event = "Data"
      /\ Closing(t).event = "Closed"
  BY <1>1 DEF GivenEvents, Closing
<1>3. /\ Has(t, "Opened") <=>
            t.events \in {<<"Opened">>, <<"Opened", "Closed">>}
      /\ Has(t, "Closed") <=> t.state = "Terminated"
      /\ Has(t, "Opened") => past # "Open"
  BY <1>1, EventsHeld DEF Sound
<1>4. Opened(past, t) <=> past = "Open" \/ Has(t, "Opened")
  BY <1>3 DEF Opened
<1>5. past = "Open" <=> ~Ended(l)
  BY DEF PastOf
<1>6. Extends(l, l)
  BY DEF Extends
<1> HIDE DEF past
<1>7. /\ open \in Seq(GivenEvents) /\ InOrder(open) /\ Extends(open, l)
      /\ Ended(open) <=> ~Opened(past, t)
      /\ \A i \in Len(l) + 1 .. Len(open) : open[i].event # "Closed"
  <2>1. CASE Has(t, "Opened")
    <3>1. open = Append(l, opening)
      BY <2>1, JoinOne DEF OpenedEvents
    <3> HIDE DEF opening, open
    <3>2. Ended(l)
      BY <1>3, <1>5, <2>1
    <3>3. \A i \in Len(l) + 1 .. Len(l) + 1 : i = Len(l) + 1
      OBVIOUS
    <3>4. /\ Append(l, opening) \in Seq(GivenEvents)
          /\ Len(Append(l, opening)) = Len(l) + 1
          /\ Append(l, opening)[Len(l) + 1] = opening
          /\ Extends(Append(l, opening), l)
          /\ ~Ended(Append(l, opening))
          /\ InOrder(Append(l, opening))
      BY <1>2, <3>2, OneMoreEvent
    <3> QED
      BY <1>2, <1>4, <2>1, <3>1, <3>3, <3>4
  <2>2. CASE ~Has(t, "Opened")
    <3>1. open = l
      BY <2>2, JoinOne DEF OpenedEvents
    <3>2. \A i \in Len(l) + 1 .. Len(l) : FALSE
      OBVIOUS
    <3> HIDE DEF open
    <3> QED
      BY <1>4, <1>5, <1>6, <2>2, <3>1, <3>2
  <2> QED
    BY <2>1, <2>2
<1>8. /\ mid \in Seq(GivenEvents) /\ InOrder(mid) /\ Extends(mid, l)
      /\ Ended(mid) <=> ~Opened(past, t)
      /\ \A i \in Len(l) + 1 .. Len(mid) : mid[i].event # "Closed"
  <2> HIDE DEF open, data
  <2>1. CASE DataEvents(t, open) = <<>>
    <3>1. mid = open
      BY <1>7, <2>1, JoinOne
    <3> QED
      BY <1>7, <3>1
  <2>2. CASE DataEvents(t, open) # <<>>
    <3>1. DataEvents(t, open) = <<data>> /\ t.received # <<>>
      BY <2>2 DEF DataEvents, data
    <3>2. Opened(past, t)
      <4>1. Entitled(past, t)
        BY <3>1 DEF Sound, Surfacing, past
      <4>2. past # "Lax"
        BY DEF past, PastOf
      <4> QED
        BY <4>1, <4>2 DEF Entitled
    <3>3. mid = Append(open, data)
      BY <1>7, <3>1, JoinOne
    <3> HIDE DEF mid
    <3>4. /\ mid \in Seq(GivenEvents) /\ Len(mid) = Len(open) + 1
          /\ mid[Len(open) + 1] = data /\ Extends(mid, open)
          /\ ~Ended(mid) /\ InOrder(mid)
      BY <1>2, <1>7, <3>2, <3>3, OneMoreEvent
    <3>5. Extends(mid, l)
      BY <1>7, <3>4, ExtendsFurther
    <3>6. ASSUME NEW i \in Len(l) + 1 .. Len(mid)
          PROVE  mid[i].event # "Closed"
      <4>1. Len(l) \in Nat /\ Len(open) \in Nat /\ Len(l) <= Len(open)
        BY <1>7 DEF Extends
      <4>2. i \in Len(l) + 1 .. Len(open) \/ i = Len(open) + 1
        BY <3>4, <4>1
      <4>3. CASE i \in Len(l) + 1 .. Len(open)
        <5>1. i \in 1 .. Len(open)
          BY <4>1, <4>3
        <5>2. mid[i] = open[i]
          BY <3>4, <5>1 DEF Extends
        <5> QED
          BY <1>7, <4>3, <5>2
      <4>4. CASE i = Len(open) + 1
        BY <1>2, <3>4, <4>4
      <4> QED
        BY <4>2, <4>3, <4>4
    <3> QED
      BY <3>2, <3>4, <3>5, <3>6
  <2> QED
    BY <2>1, <2>2
<1>9. Surfaced(l, t) = all
  BY DEF Surfaced
<1> HIDE DEF open, mid
<1>10. CASE t.state # "Terminated"
  <2>1. all = mid
    BY <1>3, <1>8, <1>10, JoinOne DEF ClosedEvents
  <2> QED
    BY <1>8, <1>9, <1>10, <2>1 DEF SurfacedWell, past
<1>11. CASE t.state = "Terminated"
  <2>1. all = Append(mid, Closing(t))
    BY <1>3, <1>8, <1>11, JoinOne DEF ClosedEvents, Closing
  <2> HIDE DEF all
  <2>2. /\ all \in Seq(GivenEvents) /\ Len(all) = Len(mid) + 1
        /\ all[Len(mid) + 1] = Closing(t) /\ Extends(all, mid)
        /\ Ended(all) /\ InOrder(all)
    BY <1>2, <1>8, <2>1, OneMoreEvent
  <2>3. Extends(all, l)
    BY <1>8, <2>2, ExtendsFurther
  <2>4. Len(all) \in 1 .. Len(all)
    BY <1>8, <2>2
  <2>5. ASSUME NEW i \in Len(l) + 1 .. Len(all), all[i].event = "Closed"
        PROVE  all[i] = Closing(t)
    <3>1. Len(l) \in Nat /\ Len(mid) \in Nat /\ Len(l) <= Len(mid)
      BY <1>8 DEF Extends
    <3>2. i \in Len(l) + 1 .. Len(mid) \/ i = Len(mid) + 1
      BY <2>2, <3>1
    <3>3. CASE i \in Len(l) + 1 .. Len(mid)
      <4>1. i \in 1 .. Len(mid)
        BY <3>1, <3>3
      <4>2. all[i] = mid[i]
        BY <2>2, <4>1 DEF Extends
      <4> QED
        BY <1>8, <2>5, <3>3, <4>2
    <3> QED
      BY <2>2, <3>2, <3>3
  <2> QED
    BY <1>9, <1>11, <2>2, <2>3, <2>4, <2>5 DEF SurfacedWell
<1> QED
  BY <1>10, <1>11

-----------------------------------------------------------------------------
(* The invariant. *)

Role(h) == IF h = "client" THEN "Client" ELSE "Server"

\* The application that was given l closed the session of that seed itself.
Closes(l, key, reason) ==
    \E j \in DOMAIN l :
        l[j] = [event |-> "Closed", key |-> key, reason |-> reason,
                byRemote |-> FALSE]

\* What host h may send of its session s, when n sessions were asked for and
\* d seeds drawn.
Says(h, s, datagram, n, d) ==
    \/ s.key # NoKey /\ datagram \in Replies(s) \cup {Unreliable(s.key)}
    \/ h = "client" /\ \E id \in 1 .. n : datagram = SessionRequest(id)
    \/ h = "server" /\ \E id \in 1 .. n, key \in 1 .. d :
                          datagram = SessionResponse(id, key)

\* A session as a call leaves it, to be drained, where l is what each
\* application was given;
Called(h, s, l, n, d) ==
    /\ Sound(PastOf(l[h]), s) /\ Flushed(s)
    /\ s.mode = Role(h)
    /\ s.key \in 0 .. d
    /\ s.state = "Running" => s.key # NoKey
    /\ s.key = NoKey => Silent(s)
    /\ h = "server" => s.state # "Negotiating"
    /\ s.state # "Terminated" => ~s.byRemote
    /\ s.byRemote => Closes(l[Other(h)], s.key, s.reason)
    /\ \A i \in DOMAIN s.outgoing : Says(h, s, s.outgoing[i], n, d)

\* as it rests between calls;
Rests(h, s, l, n, d) ==
    /\ Called(h, s, l, n, d)
    /\ s.state # "Terminated"
    /\ s.outgoing = <<>> /\ s.received = <<>> /\ s.events = <<>>

\* or that there is none, and the application knows.
Houses(h, s, l, n, d) ==
    \/ s = NoSession /\ Ended(l[h])
    \/ Rests(h, s, l, n, d)

\* A datagram under way.
Allowed(m, l, n, d) ==
    /\ m.to \in Host
    /\ \/ m.to = "server" /\ \E id \in 1 .. n : m.datagram = SessionRequest(id)
       \/ m.to = "client" /\ \E id \in 1 .. n, key \in 1 .. d :
                                m.datagram = SessionResponse(id, key)
       \/ \E key \in 1 .. d : m.datagram \in Words(key) \cup {Unreliable(key)}
       \/ \E key \in 1 .. d, reason \in Refusals :
              /\ m.datagram = Notice(key, reason)
              /\ Closes(l[Other(m.to)], key, reason)

\* ByRemoteIsTrue, of what each application was given.
Truthful(l) ==
    \A h \in Host : \A i \in DOMAIN l[h] :
        (l[h][i].event = "Closed" /\ l[h][i].byRemote)
            => Closes(l[Other(h)], l[h][i].key, l[h][i].reason)

Asking(datagrams) ==
    {m \in datagrams : m.datagram.op = "SessionRequest"}

ConnTypes ==
    /\ link \in Links
    /\ sess \in [Host -> Sessions \cup {NoSession}]
    /\ IsFiniteSet(net)
    /\ copies \in 0 .. MaxCopies
    /\ log \in [Host -> Seq(GivenEvents)]
    /\ requests \in 0 .. MaxSessions
    /\ drawn \in Nat

\* What the network and the hosts hold.
Consistent(s, ms, l, n, d) ==
    /\ \A h \in Host : InOrder(l[h])
    /\ \A h \in Host : Houses(h, s[h], l, n, d)
    /\ \A m \in ms : Allowed(m, l, n, d)
    /\ Truthful(l)

ConnInv ==
    /\ ConnTypes
    /\ Consistent(sess, net, log, requests, drawn)
    \* Every seed was drawn for a request, or for the second copy of one.
    /\ drawn + Cardinality(Asking(net)) <= requests + copies

LEMMA NoSessionIs ==
    /\ NoSession.state = "None" /\ NoSession.events = <<>>
    /\ NoSession.received = <<>> /\ NoSession.outgoing = <<>>
    /\ Drained(NoSession) = NoSession
    /\ \A s \in Sessions : s.state # "None" /\ s # NoSession
<1>1. /\ NoSession.state = "None" /\ NoSession.events = <<>>
      /\ NoSession.received = <<>> /\ NoSession.outgoing = <<>>
  BY DEF NoSession, New
<1>2. Drained(NoSession) = NoSession
  <2> DEFINE Nothing == [mode : {"Client"}, state : {"None"}, key : {NoKey},
                         id : {NoId}, openOnNextPacket : {FALSE}, idle : {0},
                         reason : {"None"}, byRemote : {FALSE},
                         inputs : {New("Client").inputs},
                         outputs : {New("Client").outputs},
                         outgoing : {<<>>}, received : {<<>>}, events : {<<>>}]
  <2>1. NoSession \in Nothing
    BY DEF NoSession, New
  <2>2. \A s \in Nothing : Drained(s) = s
    BY DEF Drained
  <2> QED
    BY <2>1, <2>2
<1>3. \A s \in Sessions : s.state # "None"
  BY DEF Sessions
<1> QED
  BY <1>1, <1>2, <1>3

LEMMA HostsAre ==
    /\ \A h \in Host : Other(h) \in Host /\ Other(Other(h)) = h /\ Other(h) # h
    /\ \A h, o \in Host : o = h \/ o = Other(h)
    /\ Role("client") = "Client" /\ Role("server") = "Server"
BY DEF Host, Other, Role

\* What was closed stays closed, and what was allowed allowed.
LEMMA ClosesStays ==
    ASSUME NEW l \in Seq(GivenEvents), NEW m \in Seq(GivenEvents),
           Extends(m, l), NEW key, NEW reason, Closes(l, key, reason)
    PROVE  Closes(m, key, reason)
<1>1. PICK j \in DOMAIN l :
          l[j] = [event |-> "Closed", key |-> key, reason |-> reason,
                  byRemote |-> FALSE]
  BY DEF Closes
<1>2. j \in 1 .. Len(l) /\ j \in DOMAIN m
  BY DEF Extends
<1>3. m[j] = l[j]
  BY <1>2 DEF Extends
<1> QED
  BY <1>1, <1>2, <1>3 DEF Closes

LEMMA AllowedStays ==
    ASSUME NEW l \in [Host -> Seq(GivenEvents)],
           NEW k \in [Host -> Seq(GivenEvents)],
           \A h \in Host : Extends(k[h], l[h]),
           NEW n \in Nat, NEW d \in Nat, NEW n2 \in Nat, NEW d2 \in Nat,
           n <= n2, d <= d2, NEW m, Allowed(m, l, n, d)
    PROVE  Allowed(m, k, n2, d2)
<1>1. 1 .. n \subseteq 1 .. n2 /\ 1 .. d \subseteq 1 .. d2
  OBVIOUS
<1>2. m.to \in Host /\ Other(m.to) \in Host
  BY HostsAre DEF Allowed
<1>3. CASE m.to = "server" /\ \E id \in 1 .. n : m.datagram = SessionRequest(id)
  BY <1>1, <1>3 DEF Allowed, Host
<1>4. CASE m.to = "client" /\ \E id \in 1 .. n, key \in 1 .. d :
                                 m.datagram = SessionResponse(id, key)
  BY <1>1, <1>4 DEF Allowed, Host
<1>5. CASE \E key \in 1 .. d : m.datagram \in Words(key) \cup {Unreliable(key)}
  BY <1>1, <1>2, <1>5 DEF Allowed
<1>6. CASE \E key \in 1 .. d, reason \in Refusals :
               /\ m.datagram = Notice(key, reason)
               /\ Closes(l[Other(m.to)], key, reason)
  <2>1. PICK key \in 1 .. d, reason \in Refusals :
               /\ m.datagram = Notice(key, reason)
               /\ Closes(l[Other(m.to)], key, reason)
    BY <1>6
  <2>2. Closes(k[Other(m.to)], key, reason)
    BY <1>2, <2>1, ClosesStays
  <2> QED
    BY <1>1, <1>2, <2>1, <2>2 DEF Allowed
<1> QED
  BY <1>3, <1>4, <1>5, <1>6 DEF Allowed

\* A session that was called is drained, or it is gone and the application has
\* been told why.
LEMMA DrainRests ==
    ASSUME NEW l \in [Host -> Seq(GivenEvents)], NEW h \in Host,
           NEW k \in [Host -> Seq(GivenEvents)],
           \A o \in Host : Extends(k[o], l[o]),
           NEW n, NEW d, NEW t, Called(h, t, l, n, d),
           SurfacedWell(k[h], l[h], t), t.state # "Terminated"
    PROVE  Rests(h, Drained(t), k, n, d)
<1> DEFINE r == Drained(t)
           past == PastOf(l[h])
           now == PastOf(k[h])
<1>1. /\ t \in Sessions /\ Sound(past, t) /\ Flushed(t)
      /\ t.state \in {"Negotiating", "Running"}
  BY DEF Called, Sound, Sessions
<1>2. /\ <<>> \in Seq(Quiet \cup Notices) /\ <<>> \in Seq(0 .. ChannelCount)
      /\ <<>> \in Seq({"Opened", "Closed"}) /\ <<>> \in Seq(Quiet)
  OBVIOUS
<1>3. /\ r \in Sessions /\ r.outgoing = <<>> /\ r.received = <<>>
      /\ r.events = <<>> /\ r.mode = t.mode /\ r.state = t.state
      /\ r.key = t.key /\ r.openOnNextPacket = t.openOnNextPacket
      /\ r.byRemote = t.byRemote /\ r.inputs = t.inputs
      /\ r.outputs = t.outputs /\ r.reason = t.reason
  BY <1>1, <1>2 DEF Drained, Sessions
<1>4. now = "Open" <=> Opened(past, t)
  BY DEF SurfacedWell, PastOf
<1> HIDE DEF r
<1>5. Told(now, r)
  <2>1. past \in {"Fresh", "Open"} /\ now \in {"Fresh", "Open"}
    BY DEF PastOf
  <2>2. CASE t.state = "Negotiating"
    <3>1. /\ past # "Open" /\ t.events = <<>> /\ t.openOnNextPacket = FALSE
          /\ t.key = NoKey
      BY <1>1, <2>2 DEF Sound, Told
    <3>2. now # "Open"
      BY <1>4, <3>1, EventSequences DEF Opened
    <3> QED
      BY <1>3, <2>2, <3>1, <3>2 DEF Told
  <2>3. CASE t.state = "Running"
    <3>1. \/ /\ past # "Open" /\ t.events = <<>>
             /\ t.openOnNextPacket = TRUE
          \/ /\ past # "Open" /\ t.events = <<"Opened">>
             /\ t.openOnNextPacket = FALSE
          \/ /\ past = "Open" /\ t.events = <<>>
             /\ t.openOnNextPacket = FALSE
      BY <1>1, <2>3 DEF Sound, Told
    <3>2. <<>> # <<"Opened">> /\ <<>> # <<"Opened", "Closed">>
      BY EventSequences
    <3> HIDE DEF past, now
    <3>3. now = "Open" <=> t.openOnNextPacket = FALSE
      BY <1>4, <3>1, <3>2 DEF Opened
    <3>4. t.openOnNextPacket \in BOOLEAN
      BY <1>1 DEF Sessions
    <3> QED
      BY <1>3, <2>3, <3>3, <3>4 DEF Told
  <2> QED
    BY <1>1, <2>2, <2>3
<1>6. /\ WindowsHold(r) /\ ~Surfacing(r) /\ Flushed(r)
  BY <1>1, <1>3 DEF Sound, WindowsHold, Surfacing, Flushed
<1>7. LastWords(r)
  BY <1>1, <1>2, <1>3 DEF LastWords
<1>8. Sound(now, r)
  BY <1>3, <1>5, <1>6, <1>7 DEF Sound
<1>9. r.key = NoKey => Silent(r)
  BY <1>3 DEF Called, Silent
<1>10. ~r.byRemote
  BY <1>3 DEF Called
<1>11. \A i \in DOMAIN r.outgoing : Says(h, r, r.outgoing[i], n, d)
  BY <1>3
<1>12. Called(h, r, k, n, d)
  BY <1>3, <1>6, <1>8, <1>9, <1>10, <1>11 DEF Called
<1> QED
  BY <1>1, <1>3, <1>12 DEF Rests, r

\* What the datagrams of a call are.
LEMMA SentAllowed ==
    ASSUME NEW l \in [Host -> Seq(GivenEvents)], NEW h \in Host,
           NEW k \in [Host -> Seq(GivenEvents)],
           NEW n \in Nat, NEW d \in Nat, NEW t, Called(h, t, l, n, d),
           SurfacedWell(k[h], l[h], t), NEW m \in Sent(h, t)
    PROVE  Allowed(m, k, n, d)
<1>1. PICK i \in DOMAIN t.outgoing :
          m = [to |-> Other(h), datagram |-> t.outgoing[i]]
  BY DEF Sent
<1>2. m.to = Other(h) /\ m.datagram = t.outgoing[i] /\ m.to \in Host
      /\ Other(m.to) = h
  BY <1>1, HostsAre
<1>3. Says(h, t, m.datagram, n, d)
  BY <1>2 DEF Called
<1>4. CASE t.key # NoKey /\ m.datagram \in Replies(t) \cup {Unreliable(t.key)}
  <2>1. t.key \in 1 .. d
    BY <1>4 DEF Called, NoKey
  <2>2. CASE m.datagram \in Words(t.key) \cup {Unreliable(t.key)}
    BY <1>2, <2>1, <2>2 DEF Allowed
  <2>3. CASE m.datagram \in Farewells(t)
    <3>1. /\ t.state = "Terminated" /\ t.byRemote = FALSE
          /\ t.reason \in Refusals /\ m.datagram = Notice(t.key, t.reason)
      <4>1. t.byRemote \in BOOLEAN
        BY DEF Called, Sound, Sessions
      <4> QED
        BY <2>3, <4>1 DEF Farewells
    <3>2. Len(k[h]) \in DOMAIN k[h] /\ k[h][Len(k[h])] = Closing(t)
      BY <3>1 DEF SurfacedWell
    <3>3. Closes(k[h], t.key, t.reason)
      BY <3>1, <3>2 DEF Closes, Closing
    <3> QED
      BY <1>2, <2>1, <3>1, <3>3 DEF Allowed
  <2> QED
    BY <1>4, <2>2, <2>3 DEF Replies
<1>5. CASE h = "client" /\ \E id \in 1 .. n : m.datagram = SessionRequest(id)
  BY <1>2, <1>5 DEF Allowed, Other
<1>6. CASE h = "server" /\ \E id \in 1 .. n, key \in 1 .. d :
                              m.datagram = SessionResponse(id, key)
  BY <1>2, <1>6 DEF Allowed, Other
<1> QED
  BY <1>3, <1>4, <1>5, <1>6 DEF Says

\* The last event of an ended session tells of its remote what is true.
LEMMA StaysTruthful ==
    ASSUME NEW l \in [Host -> Seq(GivenEvents)], Truthful(l),
           NEW k \in [Host -> Seq(GivenEvents)],
           \A h \in Host :
               /\ Extends(k[h], l[h])
               /\ \A i \in Len(l[h]) + 1 .. Len(k[h]) :
                     (k[h][i].event = "Closed" /\ k[h][i].byRemote) =>
                         Closes(l[Other(h)], k[h][i].key, k[h][i].reason)
    PROVE  Truthful(k)
<1>1. SUFFICES ASSUME NEW h \in Host, NEW i \in DOMAIN k[h],
                      k[h][i].event = "Closed", k[h][i].byRemote
               PROVE  Closes(k[Other(h)], k[h][i].key, k[h][i].reason)
  BY DEF Truthful
<1>2. Len(l[h]) \in Nat /\ Len(k[h]) \in Nat /\ i \in 1 .. Len(k[h])
  OBVIOUS
<1>3. Other(h) \in Host
  BY HostsAre
<1>4. Closes(l[Other(h)], k[h][i].key, k[h][i].reason)
  <2>1. CASE i \in 1 .. Len(l[h])
    <3>1. k[h][i] = l[h][i] /\ i \in DOMAIN l[h]
      BY <2>1 DEF Extends
    <3> QED
      BY <1>1, <3>1 DEF Truthful
  <2>2. CASE i \in Len(l[h]) + 1 .. Len(k[h])
    BY <1>1, <2>2
  <2> QED
    BY <1>2, <2>1, <2>2
<1> QED
  BY <1>3, <1>4, ClosesStays

-----------------------------------------------------------------------------
(* What Settle leaves. *)

LEMMA SentFinite ==
    ASSUME NEW h, NEW s, NEW T, s.outgoing \in Seq(T)
    PROVE  IsFiniteSet(Sent(h, s))
<1> DEFINE f == [i \in DOMAIN s.outgoing |->
                    [to |-> Other(h), datagram |-> s.outgoing[i]]]
           S == DOMAIN s.outgoing
<1>1. S = 1 .. Len(s.outgoing) /\ Len(s.outgoing) \in Nat
  OBVIOUS
<1>2. IsFiniteSet(S)
  BY <1>1, FS_Interval
<1>3. Sent(h, s) = {f[i] : i \in S}
  BY DEF Sent
<1>4. f \in Surjection(S, Sent(h, s))
  BY <1>3 DEF Surjection
<1> HIDE DEF f, S
<1> QED
  BY <1>2, <1>4, FS_Surjection

LEMMA SettleKeeps ==
    ASSUME ConnTypes, Consistent(sess, net, log, requests, drawn),
           NEW after \in [Host -> Sessions \cup {NoSession}],
           NEW left \in SUBSET net, Settle(after, left),
           NEW n \in Nat, NEW d \in Nat, requests <= n, drawn <= d,
           \A h \in Host : \/ after[h] = NoSession /\ sess[h] = NoSession
                           \/ Called(h, after[h], log, n, d)
    PROVE  /\ sess' \in [Host -> Sessions \cup {NoSession}]
           /\ IsFiniteSet(net')
           /\ log' \in [Host -> Seq(GivenEvents)]
           /\ Consistent(sess', net', log', n, d)
           /\ \A h \in Host : TimesOut(h) =>
                 after[h].state = "Terminated" /\ after[h].reason = "Timeout"
<1>1. /\ log \in [Host -> Seq(GivenEvents)] /\ IsFiniteSet(net)
      /\ \A h \in Host : InOrder(log[h]) /\ Houses(h, sess[h], log, requests, drawn)
      /\ \A m \in net : Allowed(m, log, requests, drawn)
      /\ Truthful(log) /\ requests \in Nat /\ drawn \in Nat
  BY DEF ConnTypes, Consistent
<1>2. /\ sess' = [h \in Host |-> IF after[h].state = "Terminated" THEN NoSession
                                                 ELSE Drained(after[h])]
      /\ net' = left \cup UNION {Sent(h, after[h]) : h \in Host}
      /\ log' = [h \in Host |-> Surfaced(log[h], after[h])]
  BY DEF Settle
<1>3. ASSUME NEW h \in Host, after[h] = NoSession, sess[h] = NoSession
      PROVE  /\ log'[h] = log[h] /\ sess'[h] = NoSession
             /\ Sent(h, after[h]) = {} /\ Ended(log[h])
  <2>1. OpenedEvents(NoSession) = <<>> /\ ClosedEvents(NoSession) = <<>>
    BY NoSessionIs DEF OpenedEvents, ClosedEvents, Has
  <2>2. \A l : DataEvents(NoSession, l) = <<>>
    BY NoSessionIs DEF DataEvents
  <2>3. Surfaced(log[h], NoSession) = log[h]
    <3>1. log[h] \in Seq(GivenEvents)
      BY <1>1
    <3>2. log[h] \o <<>> = log[h]
      BY <3>1, JoinOne
    <3> QED
      BY <2>1, <2>2, <3>2 DEF Surfaced
  <2>4. Sent(h, NoSession) = {}
    BY NoSessionIs DEF Sent
  <2>5. Ended(log[h])
    <3>1. Houses(h, NoSession, log, requests, drawn)
      BY <1>1, <1>3
    <3>2. ~Rests(h, NoSession, log, requests, drawn)
      BY NoSessionIs DEF Rests, Called, Sound
    <3> QED
      BY <3>1, <3>2 DEF Houses
  <2> QED
    BY <1>2, <1>3, <2>3, <2>4, <2>5, NoSessionIs
<1>4. ASSUME NEW h \in Host, Called(h, after[h], log, n, d)
      PROVE  /\ after[h] \in Sessions
             /\ SurfacedWell(log'[h], log[h], after[h])
  <2>1. Sound(PastOf(log[h]), after[h])
    BY <1>4 DEF Called
  <2>2. log'[h] = Surfaced(log[h], after[h])
    BY <1>2
  <2> QED
    BY <1>1, <2>1, <2>2, SurfacedKeeps DEF Sound
<1>5. ASSUME NEW h \in Host
      PROVE  /\ log'[h] \in Seq(GivenEvents) /\ InOrder(log'[h])
             /\ Extends(log'[h], log[h])
  <2>1. CASE after[h] = NoSession /\ sess[h] = NoSession
    BY <1>1, <1>3, <2>1 DEF Extends
  <2>2. CASE Called(h, after[h], log, n, d)
    BY <1>4, <2>2 DEF SurfacedWell
  <2> QED
    BY <2>1, <2>2
<1>6. log' \in [Host -> Seq(GivenEvents)]
  BY <1>2, <1>5
<1>7. ASSUME NEW h \in Host
      PROVE  /\ sess'[h] \in Sessions \cup {NoSession}
             /\ Houses(h, sess'[h], log', n, d)
  <2>1. CASE after[h] = NoSession /\ sess[h] = NoSession
    BY <1>3, <2>1 DEF Houses
  <2>2. CASE Called(h, after[h], log, n, d) /\ after[h].state = "Terminated"
    <3>1. sess'[h] = NoSession
      BY <1>2, <2>2
    <3>2. Ended(log'[h])
      BY <1>4, <2>2 DEF SurfacedWell
    <3> QED
      BY <3>1, <3>2 DEF Houses
  <2>3. CASE Called(h, after[h], log, n, d) /\ after[h].state # "Terminated"
    <3>1. sess'[h] = Drained(after[h])
      BY <1>2, <2>3
    <3>2. Rests(h, Drained(after[h]), log', n, d)
      BY <1>1, <1>4, <1>5, <1>6, <2>3, DrainRests
    <3> QED
      BY <3>1, <3>2 DEF Houses, Rests, Called, Sound
  <2> QED
    BY <2>1, <2>2, <2>3
<1>8. sess' \in [Host -> Sessions \cup {NoSession}]
  BY <1>2, <1>7
<1>9. ASSUME NEW h \in Host
      PROVE  /\ IsFiniteSet(Sent(h, after[h]))
             /\ \A m \in Sent(h, after[h]) : Allowed(m, log', n, d)
  <2>1. CASE after[h] = NoSession /\ sess[h] = NoSession
    BY <1>3, <2>1, FS_EmptySet
  <2>2. CASE Called(h, after[h], log, n, d)
    <3>1. after[h].outgoing \in Seq(Quiet \cup Notices)
      BY <1>4, <2>2 DEF Sessions
    <3>2. IsFiniteSet(Sent(h, after[h]))
      BY <3>1, SentFinite
    <3>3. \A m \in Sent(h, after[h]) : Allowed(m, log', n, d)
      BY <1>1, <1>4, <1>6, <2>2, SentAllowed
    <3> QED
      BY <3>2, <3>3
  <2> QED
    BY <2>1, <2>2
<1>10. UNION {Sent(h, after[h]) : h \in Host}
          = Sent("client", after["client"]) \cup Sent("server", after["server"])
  BY DEF Host
<1>11. IsFiniteSet(net')
  <2>1. IsFiniteSet(left)
    BY <1>1, FS_Subset
  <2>2. /\ IsFiniteSet(Sent("client", after["client"]))
        /\ IsFiniteSet(Sent("server", after["server"]))
    BY <1>9 DEF Host
  <2>3. IsFiniteSet(Sent("client", after["client"])
                        \cup Sent("server", after["server"]))
    BY <2>2, FS_Union
  <2> QED
    BY <1>2, <1>10, <2>1, <2>3, FS_Union
<1>12. ASSUME NEW m \in net'
       PROVE  Allowed(m, log', n, d)
  <2>1. CASE m \in left
    BY <1>1, <1>5, <1>6, <2>1, AllowedStays
  <2>2. CASE m \notin left
    <3>1. PICK h \in Host : m \in Sent(h, after[h])
      BY <1>2, <2>2
    <3> QED
      BY <1>9, <3>1
  <2> QED
    BY <2>1, <2>2
<1>13. ASSUME NEW h \in Host, NEW i \in Len(log[h]) + 1 .. Len(log'[h]),
              log'[h][i].event = "Closed"
       PROVE  /\ Called(h, after[h], log, n, d)
              /\ after[h].state = "Terminated"
              /\ log'[h][i] = Closing(after[h])
  <2>1. CASE after[h] = NoSession /\ sess[h] = NoSession
    <3>1. log'[h] = log[h] /\ Len(log[h]) \in Nat
      BY <1>1, <1>3, <2>1
    <3> QED
      BY <1>13, <3>1
  <2>2. CASE Called(h, after[h], log, n, d)
    BY <1>4, <1>13, <2>2 DEF SurfacedWell
  <2> QED
    BY <2>1, <2>2
<1>14. Truthful(log')
  <2>1. ASSUME NEW h \in Host, NEW i \in Len(log[h]) + 1 .. Len(log'[h]),
               log'[h][i].event = "Closed", log'[h][i].byRemote
        PROVE  Closes(log[Other(h)], log'[h][i].key, log'[h][i].reason)
    <3>1. /\ Called(h, after[h], log, n, d)
          /\ log'[h][i] = Closing(after[h])
      BY <1>13, <2>1
    <3>2. /\ log'[h][i].byRemote = after[h].byRemote
          /\ log'[h][i].key = after[h].key
          /\ log'[h][i].reason = after[h].reason
      BY <3>1 DEF Closing
    <3> QED
      BY <2>1, <3>1, <3>2 DEF Called
  <2> QED
    BY <1>1, <1>5, <1>6, <2>1, StaysTruthful
<1>15. ASSUME NEW h \in Host, TimesOut(h)
       PROVE  after[h].state = "Terminated" /\ after[h].reason = "Timeout"
  <2> DEFINE i == Len(log'[h])
  <2>1. /\ i > Len(log[h]) /\ log'[h][i].event = "Closed"
        /\ log'[h][i].reason = "Timeout"
    BY <1>15 DEF TimesOut
  <2>2. Len(log[h]) \in Nat /\ i \in Nat
    BY <1>1, <1>5
  <2>3. i \in Len(log[h]) + 1 .. Len(log'[h])
    BY <2>1, <2>2
  <2>4. after[h].state = "Terminated" /\ log'[h][i] = Closing(after[h])
    BY <1>13, <2>1, <2>3
  <2> QED
    BY <2>1, <2>4 DEF Closing
<1> QED
  BY <1>5, <1>6, <1>7, <1>8, <1>11, <1>12, <1>14, <1>15 DEF Consistent

\* Whoever asks for nothing leaves the requests under way as they were.
LEMMA NothingAsked ==
    ASSUME NEW after, NEW left, Settle(after, left),
           \A h \in Host : \A i \in DOMAIN after[h].outgoing :
               after[h].outgoing[i].op # "SessionRequest"
    PROVE  Asking(net') = Asking(left)
<1>1. net' = left \cup UNION {Sent(h, after[h]) : h \in Host}
  BY DEF Settle
<1>2. \A h \in Host : \A m \in Sent(h, after[h]) :
          m.datagram.op # "SessionRequest"
  BY DEF Sent
<1> QED
  BY <1>1, <1>2 DEF Asking

\* Fewer requests are no more of them.
LEMMA FewerAsked ==
    ASSUME NEW more, IsFiniteSet(more), NEW less \in SUBSET more
    PROVE  /\ IsFiniteSet(Asking(less)) /\ IsFiniteSet(Asking(more))
           /\ Cardinality(Asking(less)) \in Nat
           /\ Cardinality(Asking(more)) \in Nat
           /\ Cardinality(Asking(less)) <= Cardinality(Asking(more))
<1>1. Asking(less) \subseteq Asking(more) /\ Asking(more) \subseteq more
  BY DEF Asking
<1>2. IsFiniteSet(Asking(more))
  BY <1>1, FS_Subset
<1> QED
  BY <1>1, <1>2, FS_Subset, FS_CardinalityType

-----------------------------------------------------------------------------
(* The seeds and ids in use. *)

LEMMA InUse ==
    ASSUME ConnInv
    PROVE  /\ 1 .. requests \subseteq Ids /\ 1 .. drawn \subseteq Keys
           /\ requests \in Nat /\ drawn \in Nat /\ copies \in Nat
           /\ MaxSessions \in Nat /\ MaxCopies \in Nat
           /\ requests < MaxSessions => requests + 1 \in Ids
           /\ Asking(net) # {} => drawn + 1 \in Keys
           /\ \A k \in Keys : k \in Seeds
<1>1. /\ requests \in Nat /\ requests <= MaxSessions /\ drawn \in Nat
      /\ copies \in Nat /\ copies <= MaxCopies
      /\ MaxSessions \in Nat /\ MaxCopies \in Nat
      /\ 1 .. MaxSessions \subseteq Ids
      /\ 1 .. MaxSessions + MaxCopies \subseteq Keys
  BY ConnectionAssumption DEF ConnInv, ConnTypes, ConnectionAssumption
<1> DEFINE asked == Cardinality(Asking(net))
<1>2. /\ asked \in Nat /\ drawn + asked <= requests + copies
      /\ IsFiniteSet(Asking(net))
  BY FewerAsked DEF ConnInv, ConnTypes
<1>3. Asking(net) # {} => asked # 0
  BY <1>2, FS_EmptySet
<1> HIDE DEF asked
<1>4. drawn <= MaxSessions + MaxCopies
  BY <1>1, <1>2
<1>5. Asking(net) # {} => drawn + 1 \in 1 .. MaxSessions + MaxCopies
  BY <1>1, <1>2, <1>3
<1>6. requests < MaxSessions => requests + 1 \in 1 .. MaxSessions
  BY <1>1
<1>7. /\ 1 .. requests \subseteq 1 .. MaxSessions
      /\ 1 .. drawn \subseteq 1 .. MaxSessions + MaxCopies
  BY <1>1, <1>4
<1> QED
  BY <1>1, <1>5, <1>6, <1>7 DEF Seeds

-----------------------------------------------------------------------------
(* A call on a session that rests. *)

\* What a session that rests is.
LEMMA RestsIs ==
    ASSUME NEW h \in Host, NEW s, NEW l, NEW n, NEW d, Rests(h, s, l, n, d)
    PROVE  /\ PastOf(l[h]) \in Pasts /\ Sound(PastOf(l[h]), s)
           /\ s \in Sessions /\ Proper(s) /\ Flushed(s) /\ ~Surfacing(s)
           /\ s.outgoing = <<>> /\ s.mode = Role(h) /\ s.key \in 0 .. d
           /\ s.byRemote = FALSE
           /\ s.state \in {"Negotiating", "Running"}
           /\ s.state = "Running" <=> s.key # NoKey
           /\ s.state = "Negotiating" => Silent(s) /\ h = "client"
<1>1. /\ Called(h, s, l, n, d) /\ s.state # "Terminated"
      /\ s.outgoing = <<>> /\ s.received = <<>> /\ s.events = <<>>
  BY DEF Rests
<1>2. /\ Sound(PastOf(l[h]), s) /\ s \in Sessions /\ Flushed(s)
      /\ s.mode = Role(h) /\ s.key \in 0 .. d /\ ~s.byRemote
      /\ s.state = "Running" => s.key # NoKey
      /\ s.key = NoKey => Silent(s)
      /\ h = "server" => s.state # "Negotiating"
  BY <1>1 DEF Called, Sound
<1>3. s.byRemote = FALSE /\ s.state \in {"Negotiating", "Running"}
  BY <1>1, <1>2 DEF Sessions
<1>4. s.state = "Negotiating" => s.key = NoKey
  BY <1>2 DEF Sound, Told
<1>5. ~Surfacing(s)
  BY <1>1, <1>2 DEF Surfacing, Flushed
<1>6. PastOf(l[h]) \in Pasts
  BY DEF PastOf, Pasts
<1>7. s.outgoing \in Seq(Replies(s))
  BY <1>1
<1>8. Proper(s)
  BY <1>1, <1>2, <1>7 DEF Proper
<1>9. "Negotiating" # "Running"
  OBVIOUS
<1> QED
  BY <1>1, <1>2, <1>3, <1>4, <1>5, <1>6, <1>8, <1>9 DEF Host

\* The sessions of the invariant that live.
LEMMA LiveRests ==
    ASSUME ConnInv, NEW h \in Host
    PROVE  /\ sess[h].state # "None"
                  => Rests(h, sess[h], log, requests, drawn)
           /\ sess[h].state = "None" => sess[h] = NoSession /\ Ended(log[h])
<1>1. Houses(h, sess[h], log, requests, drawn)
  BY DEF ConnInv, Consistent
<1>2. NoSession.state = "None"
  BY NoSessionIs
<1>3. CASE sess[h] = NoSession /\ Ended(log[h])
  BY <1>2, <1>3
<1>4. CASE Rests(h, sess[h], log, requests, drawn)
  <2>1. sess[h] \in Sessions
    BY <1>4 DEF Rests, Called, Sound
  <2> QED
    BY <1>4, <2>1, NoSessionIs
<1> QED
  BY <1>1, <1>3, <1>4 DEF Houses

\* A session that is proper says what its host may.
LEMMA ProperCalled ==
    ASSUME NEW h \in Host, NEW t, NEW l, NEW n, NEW d,
           Sound(PastOf(l[h]), t), Flushed(t), Proper(t),
           t.mode = Role(h), t.key \in 0 .. d,
           h = "server" => t.state # "Negotiating",
           t.byRemote = TRUE => Closes(l[Other(h)], t.key, t.reason)
    PROVE  /\ Called(h, t, l, n, d)
           /\ \A i \in DOMAIN t.outgoing :
                 t.outgoing[i].op = "Contextual" /\ t.outgoing[i].key = t.key
<1>1. t.byRemote \in BOOLEAN
  BY DEF Sound, Sessions
<1>2. /\ t.outgoing \in Seq(Replies(t))
      /\ t.key = NoKey => Silent(t) /\ t.outgoing = <<>>
      /\ t.state = "Running" => t.key # NoKey
      /\ t.state # "Terminated" => ~t.byRemote
  BY DEF Proper
<1>3. ASSUME NEW i \in DOMAIN t.outgoing
      PROVE  t.key # NoKey /\ t.outgoing[i] \in Replies(t)
  BY <1>2
<1>4. ASSUME NEW message \in Replies(t)
      PROVE  message.op = "Contextual" /\ message.key = t.key
  <2>1. CASE message \in Words(t.key)
    BY <2>1 DEF Words, Contextual
  <2>2. CASE message \in Farewells(t)
    BY <2>2 DEF Farewells, Notice, Contextual
  <2> QED
    BY <2>1, <2>2 DEF Replies
<1>5. \A i \in DOMAIN t.outgoing : Says(h, t, t.outgoing[i], n, d)
  BY <1>3 DEF Says
<1>6. t.byRemote => t.byRemote = TRUE
  BY <1>1
<1>7. Called(h, t, l, n, d)
  BY <1>2, <1>5, <1>6 DEF Called
<1> QED
  BY <1>3, <1>4, <1>7

\* A session that has been called may be taken for one of more requests and
\* seeds.
LEMMA CalledStays ==
    ASSUME NEW h \in Host, NEW t, NEW l, NEW n \in Nat, NEW d \in Nat,
           NEW n2 \in Nat, NEW d2 \in Nat, n <= n2, d <= d2,
           Called(h, t, l, n, d)
    PROVE  Called(h, t, l, n2, d2)
<1>1. 1 .. n \subseteq 1 .. n2 /\ 1 .. d \subseteq 1 .. d2 /\ 0 .. d \subseteq 0 .. d2
  OBVIOUS
<1>2. \A i \in DOMAIN t.outgoing : Says(h, t, t.outgoing[i], n2, d2)
  BY <1>1 DEF Called, Says
<1> QED
  BY <1>1, <1>2 DEF Called

\* A session that rests, or that there is none, when nothing is called.
LEMMA RestsOn ==
    ASSUME ConnInv, NEW h \in Host, NEW n \in Nat, NEW d \in Nat,
           requests <= n, drawn <= d
    PROVE  \/ sess[h] = NoSession
           \/ Called(h, sess[h], log, n, d)
<1>1. requests \in Nat /\ drawn \in Nat
  BY InUse
<1>2. CASE sess[h].state = "None"
  BY <1>2, LiveRests
<1>3. CASE sess[h].state # "None"
  <2>1. Called(h, sess[h], log, requests, drawn)
    BY <1>3, LiveRests DEF Rests
  <2> QED
    BY <1>1, <2>1, CalledStays
<1> QED
  BY <1>2, <1>3

-----------------------------------------------------------------------------
(* What a datagram under way becomes. *)

\* A reliable packet or an acknowledgement, as the channels take it.
LEMMA TakesData ==
    ASSUME NEW key, NEW ch, NEW op, NEW any, NEW e
    PROVE  [Contextual(key, [op |-> op, channel |-> ch, effect |-> any])
                EXCEPT !.packets[1].effect = e]
           = Contextual(key, [op |-> op, channel |-> ch, effect |-> e])
<1>1. ASSUME NEW p, NEW q
      PROVE  [<<p>> EXCEPT ![1] = q] = <<q>>
  OBVIOUS
<1> QED
  BY <1>1 DEF Contextual

LEMMA TakesAck ==
    ASSUME NEW key, NEW ch, NEW op, NEW any, NEW c
    PROVE  [Contextual(key, [op |-> op, channel |-> ch, covers |-> any])
                EXCEPT !.packets[1].covers = c]
           = Contextual(key, [op |-> op, channel |-> ch, covers |-> c])
<1>1. ASSUME NEW p, NEW q
      PROVE  [<<p>> EXCEPT ![1] = q] = <<q>>
  OBVIOUS
<1> QED
  BY <1>1 DEF Contextual

\* What may arrive of a datagram under way.
Arrives(m, outcome, effects) ==
    \/ /\ m.to = "server"
       /\ \E id \in 1 .. requests : outcome = SessionRequest(id)
       /\ m.datagram = outcome
    \/ /\ m.to = "client"
       /\ \E id \in 1 .. requests, key \in 1 .. drawn :
              outcome = SessionResponse(id, key)
       /\ m.datagram = outcome
    \/ /\ \E key \in 1 .. drawn : outcome = Unreliable(key)
       /\ m.datagram = outcome
    \/ \E key \in 1 .. drawn, packet \in Heard :
          /\ outcome = Contextual(key, packet)
          /\ m.datagram.op = "Contextual" /\ m.datagram.key = key
          /\ m.datagram.packets[1].op = packet.op
          /\ packet.op = "Heartbeat" => m.datagram = Beat(key)
          /\ packet.op = "ReliableData" =>
                m.datagram \in Data(key) /\ packet.effect \in effects
          /\ packet.op = "Disconnect" =>
                Closes(log[Other(m.to)], key, packet.reason)

LEMMA OutcomeForms ==
    ASSUME NEW m, Allowed(m, log, requests, drawn),
           NEW effects \in SUBSET (Effects \ {"Malformed"}),
           NEW counts \in SUBSET Nat,
           NEW outcome \in Outcomes(m.datagram, effects, counts)
    PROVE  Arrives(m, outcome, effects)
<1> DEFINE g == m.datagram
           p == g.packets[1]
<1>1. CASE m.to = "server" /\ \E id \in 1 .. requests : g = SessionRequest(id)
  <2>1. g.op = "SessionRequest"
    BY <1>1 DEF SessionRequest
  <2>2. outcome = g
    BY <2>1 DEF Outcomes
  <2> QED
    BY <1>1, <2>2 DEF Arrives
<1>2. CASE m.to = "client" /\ \E id \in 1 .. requests, key \in 1 .. drawn :
                                  g = SessionResponse(id, key)
  <2>1. g.op = "SessionResponse"
    BY <1>2 DEF SessionResponse
  <2>2. outcome = g
    BY <2>1 DEF Outcomes
  <2> QED
    BY <1>2, <2>2 DEF Arrives
<1>3. CASE \E key \in 1 .. drawn : g = Unreliable(key)
  <2>1. g.op = "Unreliable"
    BY <1>3 DEF Unreliable
  <2>2. outcome = g
    BY <2>1 DEF Outcomes
  <2> QED
    BY <1>3, <2>2 DEF Arrives
<1>4. CASE \E key \in 1 .. drawn : g \in Words(key)
  <2>1. PICK key \in 1 .. drawn, carried \in Carried : g = Contextual(key, carried)
    BY <1>4 DEF Words
  <2>2. g.op = "Contextual" /\ g.key = key /\ p = carried
    BY <2>1 DEF Contextual
  <2>3. CASE carried \in [op : {"Heartbeat"}]
    <3>1. carried.op = "Heartbeat" /\ carried = [op |-> "Heartbeat"]
      BY <2>3
    <3>2. outcome = g
      BY <2>2, <3>1 DEF Outcomes
    <3>3. carried \in Heard
      BY <2>3 DEF Heard
    <3>4. g = Beat(key)
      BY <2>1, <3>1 DEF Beat
    <3> HIDE DEF p, g
    <3> QED
      BY <2>1, <2>2, <3>1, <3>2, <3>3, <3>4 DEF Arrives, p, g
  <2>4. CASE carried \in [op : {"Acknowledge", "AcknowledgeAll"},
                          channel : Channels, covers : {0}]
    <3>1. PICK op \in {"Acknowledge", "AcknowledgeAll"}, ch \in Channels :
              carried = [op |-> op, channel |-> ch, covers |-> 0]
      BY <2>4
    <3>2. carried.op = op
      BY <3>1
    <3>3. PICK c \in counts : outcome = [g EXCEPT !.packets[1].covers = c]
      BY <2>2, <3>1, <3>2 DEF Outcomes
    <3> DEFINE packet == [op |-> op, channel |-> ch, covers |-> c]
    <3>4. outcome = Contextual(key, packet)
      <4>1. g = Contextual(key, [op |-> op, channel |-> ch, covers |-> 0])
        BY <2>1, <3>1
      <4> HIDE DEF g
      <4>2. outcome = [Contextual(key, [op |-> op, channel |-> ch,
                                        covers |-> 0])
                           EXCEPT !.packets[1].covers = c]
        BY <3>3, <4>1 DEF g
      <4> QED
        BY <4>2, TakesAck
    <3>5. packet \in Heard /\ packet.op = op
      <4>1. c \in Nat
        OBVIOUS
      <4>2. packet \in [op : {"Acknowledge", "AcknowledgeAll"},
                        channel : Channels, covers : Nat]
        BY <4>1
      <4> QED
        BY <4>2 DEF Heard
    <3> HIDE DEF p, g, packet
    <3> QED
      BY <2>2, <3>2, <3>4, <3>5 DEF Arrives, p, g
  <2>5. CASE carried \in [op : {"ReliableData"}, channel : Channels,
                          effect : {"Dropped"}]
    <3>1. PICK ch \in Channels :
              carried = [op |-> "ReliableData", channel |-> ch,
                         effect |-> "Dropped"]
      BY <2>5
    <3>2. carried.op = "ReliableData" /\ g \in Data(key)
      BY <2>1, <3>1 DEF Data
    <3>3. PICK e \in effects : outcome = [g EXCEPT !.packets[1].effect = e]
      BY <2>2, <3>1, <3>2 DEF Outcomes
    <3> DEFINE packet == [op |-> "ReliableData", channel |-> ch, effect |-> e]
    <3>4. outcome = Contextual(key, packet)
      <4>1. g = Contextual(key, [op |-> "ReliableData", channel |-> ch,
                                 effect |-> "Dropped"])
        BY <2>1, <3>1
      <4> HIDE DEF g
      <4>2. outcome = [Contextual(key, [op |-> "ReliableData", channel |-> ch,
                                        effect |-> "Dropped"])
                           EXCEPT !.packets[1].effect = e]
        BY <3>3, <4>1 DEF g
      <4> QED
        BY <4>2, TakesData
    <3>5. /\ packet \in Heard /\ packet.op = "ReliableData"
          /\ packet.effect \in effects
      <4>1. e \in Effects \ {"Malformed"}
        OBVIOUS
      <4>2. packet \in [op : {"ReliableData"}, channel : Channels,
                        effect : Effects \ {"Malformed"}]
        BY <4>1
      <4> QED
        BY <4>2 DEF Heard
    <3> HIDE DEF p, g, packet
    <3> QED
      BY <2>2, <3>2, <3>4, <3>5 DEF Arrives, p, g
  <2> QED
    BY <2>3, <2>4, <2>5 DEF Carried
<1>5. CASE \E key \in 1 .. drawn, reason \in Refusals :
               /\ g = Notice(key, reason)
               /\ Closes(log[Other(m.to)], key, reason)
  <2>1. PICK key \in 1 .. drawn, reason \in Refusals :
               /\ g = Notice(key, reason)
               /\ Closes(log[Other(m.to)], key, reason)
    BY <1>5
  <2> DEFINE packet == [op |-> "Disconnect", reason |-> reason]
  <2>2. /\ g = Contextual(key, packet) /\ g.op = "Contextual" /\ g.key = key
        /\ p = packet /\ packet.op = "Disconnect" /\ packet.reason = reason
    BY <2>1 DEF Notice, Contextual
  <2>3. outcome = g
    BY <2>2 DEF Outcomes
  <2>4. packet \in Heard
    BY DEF Heard
  <2> HIDE DEF p, g, packet
  <2> QED
    BY <2>1, <2>2, <2>3, <2>4 DEF Arrives, p, g
<1> QED
  BY <1>1, <1>2, <1>3, <1>4, <1>5 DEF Allowed

-----------------------------------------------------------------------------
(* What a host makes of a datagram. *)

LEMMA ArrivesIncoming ==
    ASSUME ConnInv, NEW m, NEW effects, NEW outcome,
           Arrives(m, outcome, effects)
    PROVE  outcome \in Incoming
<1>1. /\ 1 .. requests \subseteq Ids /\ 1 .. drawn \subseteq Keys
      /\ Keys \subseteq Seeds
  BY InUse
<1>2. CASE \E id \in 1 .. requests : outcome = SessionRequest(id)
  <2>1. PICK id \in Ids : outcome = SessionRequest(id)
    BY <1>1, <1>2
  <2>2. outcome \in [op : {"SessionRequest"}, id : Ids, body : Bodies]
    BY <2>1 DEF SessionRequest, Bodies
  <2> QED
    BY <2>2 DEF Incoming
<1>3. CASE \E id \in 1 .. requests, key \in 1 .. drawn :
               outcome = SessionResponse(id, key)
  <2>1. PICK id \in Ids, key \in Keys : outcome = SessionResponse(id, key)
    BY <1>1, <1>3
  <2>2. outcome \in [op : {"SessionResponse"}, id : Ids, key : Keys,
                     body : Bodies]
    BY <2>1 DEF SessionResponse, Bodies
  <2> QED
    BY <2>2 DEF Incoming
<1>4. CASE \E key \in 1 .. drawn : outcome = Unreliable(key)
  <2>1. PICK key \in Seeds : outcome = Unreliable(key)
    BY <1>1, <1>4
  <2>2. outcome \in [op : {"Unreliable"}, key : Seeds, known : BOOLEAN]
    BY <2>1 DEF Unreliable
  <2> QED
    BY <2>2 DEF Incoming
<1>5. CASE \E key \in 1 .. drawn, packet \in Heard :
               outcome = Contextual(key, packet)
  <2>1. PICK key \in Seeds, packet \in Heard : outcome = Contextual(key, packet)
    BY <1>1, <1>5
  <2>2. packet \in Arrivals
    BY HeardArrives
  <2>3. <<packet>> \in Seq(Arrivals)
    BY <2>2
  <2>4. outcome \in [op : {"Contextual"}, key : Seeds, packets : Seq(Arrivals)]
    BY <2>1, <2>3 DEF Contextual
  <2> QED
    BY <2>4 DEF Incoming
<1> QED
  BY <1>2, <1>3, <1>4, <1>5 DEF Arrives

\* What a host h with session s makes of a datagram: it ends the session,
Ends(h, s, t) ==
    \E reason \in Refusals : EndedAs(t, s, reason, FALSE)

\* or begins one,
Begins(h, s, t, outcome) ==
    /\ h = "server" /\ s = NoSession
    /\ \E id \in 1 .. requests :
          /\ outcome = SessionRequest(id)
          /\ Started(t, "Server", drawn + 1)
          /\ t.outgoing = <<SessionResponse(id, drawn + 1)>>

\* or runs it, once the server has agreed,
Agrees(h, s, t, outcome) ==
    /\ h = "client" /\ s.state = "Negotiating"
    /\ \E id \in 1 .. requests, key \in 1 .. drawn :
          /\ outcome = SessionResponse(id, key)
          /\ Started(t, "Client", key)
          /\ t.outgoing = <<>>

\* or takes best-effort data,
Receives(h, s, t, outcome) ==
    /\ s.state = "Running"
    /\ \E key \in 1 .. drawn :
          /\ outcome = Unreliable(key)
          /\ TakesBestEffort(t, s, key)

\* or responds.
Hears(h, s, t, outcome) ==
    /\ s.state = "Running"
    /\ \E packet \in Heard :
          /\ outcome = Contextual(s.key, packet)
          /\ Responds(t, s, packet)
          /\ packet.op = "Disconnect" =>
                Closes(log[Other(h)], s.key, packet.reason)

Answers(h, s, t, outcome) ==
    \/ s # NoSession /\ Ends(h, s, t)
    \/ Begins(h, s, t, outcome)
    \/ Agrees(h, s, t, outcome)
    \/ Receives(h, s, t, outcome)
    \/ Hears(h, s, t, outcome)

LEMMA StrangerBegins ==
    ASSUME ConnInv, NEW m \in net, NEW effects, NEW outcome,
           Arrives(m, outcome, effects), sess[m.to] = NoSession,
           Begun(m.to, m.datagram).state # "None"
    PROVE  LET t == ProcessIncoming(Begun(m.to, m.datagram), outcome, drawn + 1)
           IN  /\ Begins(m.to, sess[m.to], t, outcome) /\ m \in Asking(net)
               /\ Sound(PastOf(log[m.to]), t) /\ Flushed(t)
<1> DEFINE h == m.to
           s == New("Server")
           t == ProcessIncoming(s, outcome, drawn + 1)
<1>1. ~Live(h)
  BY NoSessionIs DEF Live
<1>2. m.datagram.op = "SessionRequest" /\ Begun(h, m.datagram) = s
  BY <1>1, NoSessionIs DEF Begun
<1>3. m \in Asking(net)
  BY <1>2 DEF Asking
<1>4. h = "server" /\ \E id \in 1 .. requests : outcome = SessionRequest(id)
  <2>1. CASE /\ m.to = "client"
             /\ \E id \in 1 .. requests, key \in 1 .. drawn :
                    outcome = SessionResponse(id, key)
             /\ m.datagram = outcome
    BY <1>2, <2>1 DEF SessionResponse
  <2>2. CASE /\ \E key \in 1 .. drawn : outcome = Unreliable(key)
             /\ m.datagram = outcome
    BY <1>2, <2>2 DEF Unreliable
  <2> QED
    BY <1>2, <2>1, <2>2 DEF Arrives
<1>5. PICK id \in 1 .. requests : outcome = SessionRequest(id)
  BY <1>4
<1>6. id \in Ids /\ drawn + 1 \in Keys
  BY <1>3, InUse
<1>7. Ended(log[h]) /\ PastOf(log[h]) = "Fresh" /\ h \in Host
  <2>1. h \in Host
    BY <1>4 DEF Host
  <2> QED
    BY <2>1, LiveRests, NoSessionIs DEF PastOf
<1>8. "Fresh" \in Pasts /\ Sound("Fresh", s) /\ Flushed(s)
  BY NewSound DEF Pasts
<1>9. /\ s.state = "Negotiating" /\ s.mode = "Server" /\ Silent(s)
      /\ s.byRemote = FALSE /\ s.outgoing = <<>> /\ ~Surfacing(s)
  BY NewIs
<1>10. outcome \in Incoming /\ outcome.op = "SessionRequest"
  BY <1>5, ArrivesIncoming DEF SessionRequest
<1> HIDE DEF s
<1>11. Sound("Fresh", t) /\ Flushed(t)
  BY <1>6, <1>8, <1>9, <1>10, IncomingSound
<1>12. /\ Started(t, "Server", drawn + 1)
       /\ t.outgoing = <<SessionResponse(id, drawn + 1)>>
  BY <1>5, <1>6, <1>8, <1>9, RequestStarts
<1> HIDE DEF t
<1>13. Begins(h, sess[h], t, outcome)
  BY <1>4, <1>5, <1>12 DEF Begins
<1>14. t = ProcessIncoming(Begun(m.to, m.datagram), outcome, drawn + 1)
  BY <1>2 DEF t
<1> QED
  BY <1>3, <1>7, <1>11, <1>13, <1>14

LEMMA SessionAnswers ==
    ASSUME ConnInv, NEW m \in net, NEW effects, NEW outcome,
           Arrives(m, outcome, effects), sess[m.to].state # "None",
           m.to \in Host
    PROVE  LET t == ProcessIncoming(sess[m.to], outcome, drawn + 1)
           IN  /\ Answers(m.to, sess[m.to], t, outcome)
               /\ ~Begins(m.to, sess[m.to], t, outcome)
               /\ Sound(PastOf(log[m.to]), t) /\ Flushed(t)
<1> DEFINE h == m.to
           s == sess[h]
           past == PastOf(log[h])
           t == ProcessIncoming(s, outcome, drawn + 1)
<1>1. Rests(h, s, log, requests, drawn) /\ s # NoSession
  BY LiveRests, NoSessionIs
<1> HIDE DEF s
<1>2. /\ past \in Pasts /\ Sound(past, s)
      /\ s \in Sessions /\ Proper(s) /\ Flushed(s) /\ ~Surfacing(s)
      /\ s.outgoing = <<>> /\ s.mode = Role(h)
      /\ s.byRemote = FALSE
      /\ s.state \in {"Negotiating", "Running"}
      /\ s.state = "Running" <=> s.key # NoKey
      /\ s.state = "Negotiating" => Silent(s) /\ h = "client"
  BY <1>1, RestsIs
<1>3. s.state # "Terminated"
  BY <1>2
<1>4. /\ 1 .. requests \subseteq Ids /\ 1 .. drawn \subseteq Keys
      /\ \A key \in 1 .. drawn : key # NoKey
  BY InUse DEF NoKey
<1>5. outcome \in Incoming
  BY ArrivesIncoming
<1>6. outcome.op = "SessionRequest" => drawn + 1 \in Keys /\ h = "server"
  <2>1. ASSUME outcome.op = "SessionRequest"
        PROVE  h = "server" /\ m.datagram = outcome
    <3>1. CASE /\ m.to = "client"
               /\ \E id \in 1 .. requests, key \in 1 .. drawn :
                      outcome = SessionResponse(id, key)
      BY <2>1, <3>1 DEF SessionResponse
    <3>2. CASE \E key \in 1 .. drawn : outcome = Unreliable(key)
      BY <2>1, <3>2 DEF Unreliable
    <3>3. CASE \E key \in 1 .. drawn, packet \in Heard :
                  outcome = Contextual(key, packet)
      BY <2>1, <3>3 DEF Contextual
    <3> QED
      BY <3>1, <3>2, <3>3 DEF Arrives
  <2>2. ASSUME outcome.op = "SessionRequest"
        PROVE  drawn + 1 \in Keys
    <3>1. m \in Asking(net)
      BY <2>1, <2>2 DEF Asking
    <3> QED
      BY <3>1, InUse
  <2> QED
    BY <2>1, <2>2
<1>7. ~(s.state # "Running" /\ outcome.op = "Contextual" /\ outcome.key = s.key)
  <2>1. ASSUME s.state # "Running", outcome.op = "Contextual",
               outcome.key = s.key
        PROVE  FALSE
    <3>1. s.key = NoKey
      BY <1>2, <2>1
    <3>2. CASE \E id \in 1 .. requests : outcome = SessionRequest(id)
      BY <2>1, <3>2 DEF SessionRequest
    <3>3. CASE \E id \in 1 .. requests, key \in 1 .. drawn :
                   outcome = SessionResponse(id, key)
      BY <2>1, <3>3 DEF SessionResponse
    <3>4. CASE \E key \in 1 .. drawn : outcome = Unreliable(key)
      BY <2>1, <3>4 DEF Unreliable
    <3>5. CASE \E key \in 1 .. drawn, packet \in Heard :
                   outcome = Contextual(key, packet)
      BY <1>4, <2>1, <3>1, <3>5 DEF Contextual
    <3> QED
      BY <3>2, <3>3, <3>4, <3>5 DEF Arrives
  <2> QED
    BY <2>1
<1> HIDE DEF past
<1>8. Sound(past, t) /\ Flushed(t)
  BY <1>2, <1>3, <1>5, <1>6, <1>7, IncomingSound
<1>9. ASSUME h = "server", \E id \in 1 .. requests : outcome = SessionRequest(id)
      PROVE  Answers(h, s, t, outcome)
  <2>1. PICK id \in Ids : outcome = SessionRequest(id)
    BY <1>4, <1>9
  <2>2. s.state = "Running" /\ s.mode = "Server"
    BY <1>2, <1>9 DEF Role
  <2>3. EndedAs(t, s, "ConnectError", FALSE)
    BY <1>2, <2>1, <2>2, HandshakeEnds
  <2> HIDE DEF t
  <2> QED
    BY <1>1, <2>3 DEF Answers, Ends, Refusals
<1>10. ASSUME h = "client", \E id \in 1 .. requests, key \in 1 .. drawn :
                                outcome = SessionResponse(id, key)
       PROVE  Answers(h, s, t, outcome)
  <2>1. PICK id \in 1 .. requests, key \in 1 .. drawn :
            outcome = SessionResponse(id, key)
    BY <1>10
  <2>2. id \in Ids /\ key \in Keys /\ s.mode = "Client"
    BY <1>2, <1>4, <1>10 DEF Role
  <2>3. CASE s.state = "Running"
    <3>1. EndedAs(t, s, "ConnectError", FALSE)
      BY <1>2, <2>1, <2>2, <2>3, HandshakeEnds
    <3> HIDE DEF t
    <3> QED
      BY <1>1, <3>1 DEF Answers, Ends, Refusals
  <2>4. CASE s.state = "Negotiating"
    <3>1. Started(t, "Client", key) /\ t.outgoing = <<>>
      BY <1>2, <2>1, <2>2, <2>4, ResponseStarts
    <3> HIDE DEF t
    <3>2. Agrees(h, s, t, outcome)
      BY <1>10, <2>1, <2>4, <3>1 DEF Agrees
    <3> QED
      BY <3>2 DEF Answers
  <2> QED
    BY <1>2, <2>3, <2>4
<1>11. ASSUME \E key \in 1 .. drawn : outcome = Unreliable(key)
       PROVE  Answers(h, s, t, outcome)
  <2>1. PICK key \in 1 .. drawn : outcome = Unreliable(key)
    BY <1>11
  <2>2. /\ s.state # "Running" => EndedAs(t, s, "CorruptPacket", FALSE)
        /\ s.state = "Running" => TakesBestEffort(t, s, key)
    <3>1. t = ProcessIncoming(s, Unreliable(key), drawn + 1)
      BY <2>1
    <3> HIDE DEF t
    <3> QED
      BY <1>2, <1>3, <3>1, UnreliableProper
  <2> HIDE DEF t
  <2>3. CASE s.state = "Running"
    <3>1. Receives(h, s, t, outcome)
      BY <2>1, <2>2, <2>3 DEF Receives
    <3> QED
      BY <3>1 DEF Answers
  <2>4. CASE s.state # "Running"
    BY <1>1, <2>2, <2>4 DEF Answers, Ends, Refusals
  <2> QED
    BY <2>3, <2>4
<1>12. ASSUME \E key \in 1 .. drawn, packet \in Heard :
                 /\ outcome = Contextual(key, packet)
                 /\ packet.op = "Disconnect" =>
                       Closes(log[Other(h)], key, packet.reason)
       PROVE  Answers(h, s, t, outcome)
  <2>1. PICK key \in 1 .. drawn, packet \in Heard :
                /\ outcome = Contextual(key, packet)
                /\ packet.op = "Disconnect" =>
                      Closes(log[Other(h)], key, packet.reason)
    BY <1>12
  <2>2. CASE key # s.key
    <3>1. EndedAs(t, s, "CorruptPacket", FALSE)
      BY <1>2, <1>3, <2>1, <2>2, MismatchProper
    <3> HIDE DEF t
    <3> QED
      BY <1>1, <3>1 DEF Answers, Ends, Refusals
  <2>3. CASE key = s.key
    <3>1. s.state = "Running"
      BY <1>2, <1>4, <2>3
    <3>2. Responds(t, s, packet)
      BY <1>2, <2>1, <2>3, <3>1, ContextualProper
    <3> HIDE DEF t
    <3>3. Hears(h, s, t, outcome)
      BY <2>1, <2>3, <3>1, <3>2 DEF Hears
    <3> QED
      BY <3>3 DEF Answers
  <2> QED
    BY <2>2, <2>3
<1>13. Answers(h, s, t, outcome)
  BY <1>9, <1>10, <1>11, <1>12 DEF Arrives
<1>14. ~Begins(h, s, t, outcome)
  BY <1>1 DEF Begins
<1> QED
  BY <1>8, <1>13, <1>14 DEF past, s

LEMMA DeliverAnswers ==
    ASSUME ConnInv, NEW m \in net, NEW effects \in SUBSET (Effects \ {"Malformed"}),
           NEW counts \in SUBSET Nat,
           NEW outcome \in Outcomes(m.datagram, effects, counts),
           Begun(m.to, m.datagram).state # "None",
           NEW t, t = ProcessIncoming(Begun(m.to, m.datagram), outcome, drawn + 1)
    PROVE  /\ m.to \in Host /\ Arrives(m, outcome, effects)
           /\ Answers(m.to, sess[m.to], t, outcome)
           /\ Sound(PastOf(log[m.to]), t) /\ Flushed(t)
           /\ \/ /\ sess[m.to] = NoSession /\ m \in Asking(net)
                 /\ Begins(m.to, sess[m.to], t, outcome)
                 /\ Begun(m.to, m.datagram) = New("Server")
              \/ /\ sess[m.to].state # "None"
                 /\ Rests(m.to, sess[m.to], log, requests, drawn)
                 /\ ~Begins(m.to, sess[m.to], t, outcome)
                 /\ Begun(m.to, m.datagram) = sess[m.to]
<1>1. Allowed(m, log, requests, drawn)
  BY DEF ConnInv, Consistent
<1>2. m.to \in Host /\ Arrives(m, outcome, effects)
  BY <1>1, OutcomeForms DEF Allowed
<1>3. CASE sess[m.to].state = "None"
  <2>1. sess[m.to] = NoSession
    BY <1>2, <1>3, LiveRests
  <2>2. /\ Begins(m.to, sess[m.to], t, outcome) /\ m \in Asking(net)
        /\ Sound(PastOf(log[m.to]), t) /\ Flushed(t)
    BY <1>2, <2>1, StrangerBegins
  <2>3. Begun(m.to, m.datagram) = New("Server")
    BY <1>3 DEF Begun, Live
  <2> QED
    BY <1>2, <2>1, <2>2, <2>3 DEF Answers
<1>4. CASE sess[m.to].state # "None"
  <2>1. Begun(m.to, m.datagram) = sess[m.to]
    BY <1>4 DEF Begun, Live
  <2>2. t = ProcessIncoming(sess[m.to], outcome, drawn + 1)
    BY <2>1
  <2>3. /\ Answers(m.to, sess[m.to], t, outcome)
        /\ ~Begins(m.to, sess[m.to], t, outcome)
        /\ Sound(PastOf(log[m.to]), t) /\ Flushed(t)
    BY <1>2, <1>4, <2>2, SessionAnswers
  <2>4. Rests(m.to, sess[m.to], log, requests, drawn)
    BY <1>2, <1>4, LiveRests
  <2> QED
    BY <1>2, <1>4, <2>1, <2>3, <2>4
<1> QED
  BY <1>3, <1>4

\* The seeds that were drawn after a datagram was delivered.
DrawnBy(t, begun) ==
    IF t.key # begun.key /\ t.mode = "Server" THEN drawn + 1 ELSE drawn

LEMMA DeliverCalled ==
    ASSUME ConnInv, NEW m \in net, NEW effects \in SUBSET (Effects \ {"Malformed"}),
           NEW counts \in SUBSET Nat,
           NEW outcome \in Outcomes(m.datagram, effects, counts),
           Begun(m.to, m.datagram).state # "None",
           NEW t, t = ProcessIncoming(Begun(m.to, m.datagram), outcome, drawn + 1)
    PROVE  LET d == DrawnBy(t, Begun(m.to, m.datagram))
           IN  /\ Called(m.to, t, log, requests, d)
               /\ d = drawn \/ (d = drawn + 1 /\ m \in Asking(net))
               /\ \A i \in DOMAIN t.outgoing :
                     t.outgoing[i].op # "SessionRequest"
<1> DEFINE h == m.to
           s == sess[h]
           begun == Begun(h, m.datagram)
           d == DrawnBy(t, begun)
<1>1. /\ h \in Host /\ Answers(h, s, t, outcome)
      /\ Sound(PastOf(log[h]), t) /\ Flushed(t)
      /\ \/ /\ s = NoSession /\ m \in Asking(net)
            /\ Begins(h, s, t, outcome) /\ begun = New("Server")
         \/ /\ Rests(h, s, log, requests, drawn)
            /\ ~Begins(h, s, t, outcome) /\ begun = s
  BY DeliverAnswers
<1>2. drawn \in Nat /\ requests \in Nat
  BY InUse
<1> HIDE DEF begun, s
<1>3. CASE Begins(h, s, t, outcome)
  <2>1. m \in Asking(net) /\ begun.key = NoKey
    BY <1>1, <1>3, NewIs
  <2>2. PICK id \in 1 .. requests :
            /\ h = "server" /\ Started(t, "Server", drawn + 1)
            /\ t.outgoing = <<SessionResponse(id, drawn + 1)>>
    BY <1>3 DEF Begins
  <2>3. t.key = drawn + 1 /\ t.mode = "Server" /\ t.key # NoKey
    BY <1>2, <2>2 DEF Started, NoKey
  <2>4. d = drawn + 1
    BY <2>1, <2>3 DEF DrawnBy
  <2>5. d \in 1 .. d /\ d \in 0 .. d
    BY <1>2, <2>4
  <2>6. \A i \in DOMAIN t.outgoing : t.outgoing[i] = SessionResponse(id, d)
    BY <2>2, <2>4
  <2> HIDE DEF d
  <2>7. \A i \in DOMAIN t.outgoing : Says(h, t, t.outgoing[i], requests, d)
    BY <2>2, <2>5, <2>6 DEF Says
  <2>8. Called(h, t, log, requests, d)
    <3>1. /\ t.mode = Role(h) /\ t.key \in 0 .. d /\ t.state = "Running"
          /\ ~t.byRemote
      BY <2>2, <2>3, <2>4, <2>5, HostsAre DEF Started
    <3> QED
      BY <1>1, <2>2, <2>3, <2>7, <3>1 DEF Called
  <2>9. \A i \in DOMAIN t.outgoing : t.outgoing[i].op # "SessionRequest"
    BY <2>6 DEF SessionResponse
  <2> QED
    BY <2>1, <2>4, <2>8, <2>9 DEF d, begun
<1>4. CASE ~Begins(h, s, t, outcome)
  <2>1. Rests(h, s, log, requests, drawn) /\ begun = s
    BY <1>1, <1>4
  <2>2. /\ s.mode = Role(h) /\ s.key \in 0 .. drawn /\ s.byRemote = FALSE
        /\ s.state \in {"Negotiating", "Running"}
        /\ h = "server" => s.state = "Running"
    BY <1>1, <2>1, RestsIs DEF Host
  <2>3. ASSUME Proper(t), t.mode = s.mode, t.key = s.key,
               h = "server" => t.state # "Negotiating",
               t.byRemote = TRUE => Closes(log[Other(h)], t.key, t.reason)
        PROVE  /\ d = drawn /\ Called(h, t, log, requests, drawn)
               /\ \A i \in DOMAIN t.outgoing :
                     t.outgoing[i].op # "SessionRequest"
    <3>1. d = drawn
      BY <2>1, <2>3 DEF DrawnBy
    <3>2. t.mode = Role(h) /\ t.key \in 0 .. drawn
      BY <2>2, <2>3
    <3>3. /\ Called(h, t, log, requests, drawn)
          /\ \A i \in DOMAIN t.outgoing :
                t.outgoing[i].op = "Contextual" /\ t.outgoing[i].key = t.key
      BY <1>1, <2>3, <3>2, ProperCalled
    <3> QED
      BY <3>1, <3>3
  <2>4. ASSUME Ends(h, s, t)
        PROVE  /\ d = drawn /\ Called(h, t, log, requests, drawn)
               /\ \A i \in DOMAIN t.outgoing :
                     t.outgoing[i].op # "SessionRequest"
    <3>1. PICK reason \in Refusals : EndedAs(t, s, reason, FALSE)
      BY <2>4 DEF Ends
    <3>2. /\ Proper(t) /\ t.mode = s.mode /\ t.key = s.key
          /\ t.state = "Terminated" /\ t.byRemote = FALSE
      BY <3>1 DEF EndedAs
    <3> HIDE DEF d
    <3> QED
      BY <2>3, <3>2
  <2>5. ASSUME Agrees(h, s, t, outcome)
        PROVE  /\ d = drawn /\ Called(h, t, log, requests, drawn)
               /\ \A i \in DOMAIN t.outgoing :
                     t.outgoing[i].op # "SessionRequest"
    <3>1. PICK key \in 1 .. drawn :
              h = "client" /\ Started(t, "Client", key) /\ t.outgoing = <<>>
      BY <2>5 DEF Agrees
    <3>2. /\ t.mode = "Client" /\ t.key = key /\ t.state = "Running"
          /\ t.byRemote = FALSE /\ t.mode = Role(h)
      BY <3>1, HostsAre DEF Started
    <3>3. d = drawn
      BY <3>2 DEF DrawnBy
    <3>4. key \in 0 .. drawn /\ key # NoKey
      BY <1>2 DEF NoKey
    <3>5. \A i \in DOMAIN t.outgoing : FALSE
      BY <3>1
    <3>6. Called(h, t, log, requests, drawn)
      BY <1>1, <3>1, <3>2, <3>4, <3>5 DEF Called
    <3> QED
      BY <3>3, <3>5, <3>6
  <2>6. ASSUME Receives(h, s, t, outcome)
        PROVE  /\ d = drawn /\ Called(h, t, log, requests, drawn)
               /\ \A i \in DOMAIN t.outgoing :
                     t.outgoing[i].op # "SessionRequest"
    <3>1. s.state = "Running" /\ Proper(t) /\ Same(t, s)
      BY <2>6 DEF Receives, TakesBestEffort
    <3>2. /\ t.mode = s.mode /\ t.key = s.key /\ t.state = "Running"
          /\ t.byRemote = FALSE
      BY <2>2, <3>1 DEF Same
    <3> HIDE DEF d
    <3> QED
      BY <2>3, <3>1, <3>2
  <2>7. ASSUME Hears(h, s, t, outcome)
        PROVE  /\ d = drawn /\ Called(h, t, log, requests, drawn)
               /\ \A i \in DOMAIN t.outgoing :
                     t.outgoing[i].op # "SessionRequest"
    <3>1. PICK packet \in Heard :
              /\ s.state = "Running" /\ Responds(t, s, packet)
              /\ packet.op = "Disconnect" =>
                    Closes(log[Other(h)], s.key, packet.reason)
      BY <2>7 DEF Hears
    <3>2. Proper(t) /\ t.mode = s.mode /\ t.key = s.key
      BY <3>1 DEF Responds
    <3>3. CASE packet.op = "Disconnect"
      <4>1. EndedAs(t, s, packet.reason, TRUE)
        BY <3>1, <3>3 DEF Responds
      <4>2. t.state = "Terminated" /\ t.reason = packet.reason
        BY <4>1 DEF EndedAs
      <4>3. Closes(log[Other(h)], t.key, t.reason)
        BY <3>1, <3>2, <3>3, <4>2
      <4> HIDE DEF d
      <4> QED
        BY <2>3, <3>2, <4>2, <4>3
    <3>4. CASE packet.op # "Disconnect"
      <4>1. t.state = "Running" /\ t.byRemote = FALSE
        BY <2>2, <3>1, <3>4 DEF Responds, Same
      <4> HIDE DEF d
      <4> QED
        BY <2>3, <3>2, <4>1
    <3> QED
      BY <3>3, <3>4
  <2>8. /\ d = drawn /\ Called(h, t, log, requests, drawn)
        /\ \A i \in DOMAIN t.outgoing : t.outgoing[i].op # "SessionRequest"
    BY <1>1, <1>4, <2>4, <2>5, <2>6, <2>7 DEF Answers
  <2> QED
    BY <2>8 DEF begun
<1> QED
  BY <1>3, <1>4

-----------------------------------------------------------------------------
(* Every step keeps the invariant. *)

\* A call that asks for nothing, on sessions some of which are called.
LEMMA CallsKeep ==
    ASSUME ConnInv,
           NEW after \in [Host -> Sessions \cup {NoSession}],
           NEW left \in SUBSET net, Settle(after, left),
           \A h \in Host : \/ after[h] = NoSession /\ sess[h] = NoSession
                           \/ Called(h, after[h], log, requests, drawn),
           \A h \in Host : \A i \in DOMAIN after[h].outgoing :
               after[h].outgoing[i].op # "SessionRequest",
           UNCHANGED <<link, copies, requests, drawn>>
    PROVE  /\ ConnInv'
           /\ \A h \in Host : TimesOut(h) =>
                 after[h].state = "Terminated" /\ after[h].reason = "Timeout"
<1>1. /\ ConnTypes /\ Consistent(sess, net, log, requests, drawn)
      /\ IsFiniteSet(net) /\ requests \in Nat /\ drawn \in Nat /\ copies \in Nat
      /\ drawn + Cardinality(Asking(net)) <= requests + copies
      /\ requests <= requests /\ drawn <= drawn
  BY InUse DEF ConnInv, ConnTypes
<1>2. /\ sess' \in [Host -> Sessions \cup {NoSession}]
      /\ IsFiniteSet(net')
      /\ log' \in [Host -> Seq(GivenEvents)]
      /\ Consistent(sess', net', log', requests, drawn)
      /\ \A h \in Host : TimesOut(h) =>
            after[h].state = "Terminated" /\ after[h].reason = "Timeout"
  BY <1>1, SettleKeeps
<1>3. Asking(net') = Asking(left)
  BY NothingAsked
<1>4. /\ Cardinality(Asking(left)) \in Nat /\ Cardinality(Asking(net)) \in Nat
      /\ Cardinality(Asking(left)) <= Cardinality(Asking(net))
  BY <1>1, FewerAsked
<1>5. drawn' + Cardinality(Asking(net')) <= requests' + copies'
  BY <1>1, <1>3, <1>4
<1>6. ConnTypes'
  BY <1>1, <1>2 DEF ConnTypes
<1>7. Consistent(sess', net', log', requests', drawn')
  BY <1>2
<1> QED
  BY <1>2, <1>5, <1>6, <1>7 DEF ConnInv

\* The sessions after one of them was called.
LEMMA OneCalled ==
    ASSUME ConnInv, NEW h \in Host, NEW t, NEW n \in Nat, NEW d \in Nat,
           requests <= n, drawn <= d, Called(h, t, log, n, d)
    PROVE  LET after == [sess EXCEPT ![h] = t]
           IN  /\ after \in [Host -> Sessions \cup {NoSession}]
               /\ after[h] = t /\ after[Other(h)] = sess[Other(h)]
               /\ \A o \in Host :
                     \/ after[o] = NoSession /\ sess[o] = NoSession
                     \/ Called(o, after[o], log, n, d)
               /\ \A o \in Host :
                     o # h => after[o] = sess[o] /\ after[o].outgoing = <<>>
<1> DEFINE after == [sess EXCEPT ![h] = t]
<1>1. sess \in [Host -> Sessions \cup {NoSession}]
  BY DEF ConnInv, ConnTypes
<1>2. t \in Sessions
  BY DEF Called, Sound
<1>3. /\ after \in [Host -> Sessions \cup {NoSession}] /\ after[h] = t
      /\ \A o \in Host : o # h => after[o] = sess[o]
  BY <1>1, <1>2
<1> HIDE DEF after
<1>4. after[Other(h)] = sess[Other(h)]
  BY <1>3, HostsAre
<1>5. ASSUME NEW o \in Host
      PROVE  \/ after[o] = NoSession /\ sess[o] = NoSession
             \/ Called(o, after[o], log, n, d)
  <2>1. CASE o = h
    BY <1>3, <2>1
  <2>2. CASE o # h
    BY <1>3, <2>2, RestsOn
  <2> QED
    BY <2>1, <2>2
<1>6. ASSUME NEW o \in Host, o # h
      PROVE  after[o] = sess[o] /\ after[o].outgoing = <<>>
  <2>1. sess[o].outgoing = <<>>
    BY LiveRests, NoSessionIs DEF Rests
  <2> QED
    BY <1>3, <1>6, <2>1
<1>7. /\ after \in [Host -> Sessions \cup {NoSession}]
      /\ after[h] = t /\ after[Other(h)] = sess[Other(h)]
      /\ \A o \in Host :
            \/ after[o] = NoSession /\ sess[o] = NoSession
            \/ Called(o, after[o], log, n, d)
      /\ \A o \in Host :
            o # h => after[o] = sess[o] /\ after[o].outgoing = <<>>
  BY <1>3, <1>4, <1>5, <1>6
<1> QED
  BY <1>7 DEF after

\* A call by the application or the driver.
LEMMA OneCallKeeps ==
    ASSUME ConnInv, NEW h \in Host, NEW t, NEW left \in SUBSET net,
           Settle([sess EXCEPT ![h] = t], left),
           Called(h, t, log, requests, drawn),
           \A i \in DOMAIN t.outgoing : t.outgoing[i].op # "SessionRequest",
           UNCHANGED <<link, copies, requests, drawn>>
    PROVE  /\ ConnInv'
           /\ \A o \in Host : TimesOut(o) =>
                 /\ o = h
                 /\ t.state = "Terminated" /\ t.reason = "Timeout"
<1> DEFINE after == [sess EXCEPT ![h] = t]
<1>1. requests \in Nat /\ drawn \in Nat /\ requests <= requests /\ drawn <= drawn
  BY InUse
<1>2. /\ after \in [Host -> Sessions \cup {NoSession}]
      /\ after[h] = t
      /\ \A o \in Host : \/ after[o] = NoSession /\ sess[o] = NoSession
                         \/ Called(o, after[o], log, requests, drawn)
      /\ \A o \in Host :
            o # h => after[o] = sess[o] /\ after[o].outgoing = <<>>
  BY <1>1, OneCalled
<1>3. Settle(after, left)
  OBVIOUS
<1> HIDE DEF after
<1>4. \A o \in Host : \A i \in DOMAIN after[o].outgoing :
          after[o].outgoing[i].op # "SessionRequest"
  <2>1. ASSUME NEW o \in Host, NEW i \in DOMAIN after[o].outgoing
        PROVE  after[o].outgoing[i].op # "SessionRequest"
    <3>1. CASE o = h
      BY <1>2, <2>1, <3>1
    <3>2. CASE o # h
      <4>1. DOMAIN <<>> = {}
        OBVIOUS
      <4> QED
        BY <1>2, <2>1, <3>2, <4>1
    <3> QED
      BY <3>1, <3>2
  <2> QED
    BY <2>1
<1>5. /\ ConnInv'
      /\ \A o \in Host : TimesOut(o) =>
            after[o].state = "Terminated" /\ after[o].reason = "Timeout"
  BY <1>2, <1>3, <1>4, CallsKeep
<1>6. \A o \in Host : sess[o].state # "Terminated"
  BY LiveRests, NoSessionIs DEF Rests
<1> QED
  BY <1>2, <1>5, <1>6

LEMMA OutgoingOf ==
    ASSUME NEW t, NEW message, t.outgoing = <<message>>
    PROVE  \A i \in DOMAIN t.outgoing : t.outgoing[i] = message
OBVIOUS

\* Connect opens a session under the next id.
LEMMA ConnectKeeps ==
    ASSUME ConnInv, Connect, UNCHANGED link
    PROVE  ConnInv' /\ \A h \in Host : ~TimesOut(h)
<1> DEFINE t == SendSessionRequest(New("Client"), requests + 1)
           after == [sess EXCEPT !["client"] = t]
           n == requests + 1
           asking == [to |-> "server", datagram |-> SessionRequest(n)]
<1>1. /\ ~Live("client") /\ requests < MaxSessions /\ requests' = n
      /\ Settle(after, net) /\ copies' = copies /\ drawn' = drawn
  BY DEF Connect
<1>2. /\ requests \in Nat /\ drawn \in Nat /\ copies \in Nat /\ n \in Ids
      /\ MaxSessions \in Nat /\ "client" \in Host /\ "server" \in Host
  BY <1>1, InUse DEF Host
<1>3. Ended(log["client"]) /\ PastOf(log["client"]) = "Fresh"
  BY <1>1, <1>2, LiveRests DEF Live, PastOf
<1>4. Sound("Fresh", New("Client")) /\ Flushed(New("Client")) /\ "Fresh" \in Pasts
  BY NewSound DEF Pasts
<1>5. Sound("Fresh", t) /\ Flushed(t)
  BY <1>2, <1>4, ConnectSound
<1>6. /\ t.state = "Negotiating" /\ t.mode = "Client"
      /\ t.key = NoKey /\ t.byRemote = FALSE
      /\ Silent(t) /\ t.outgoing = <<SessionRequest(n)>>
  BY <1>2, ConnectSays
<1> HIDE DEF t
<1>7. Called("client", t, log, n, drawn)
  <2>1. n \in 1 .. n /\ NoKey \in 0 .. drawn
    BY <1>2 DEF NoKey
  <2> HIDE DEF n
  <2>2. \A i \in DOMAIN t.outgoing : Says("client", t, t.outgoing[i], n, drawn)
    BY <1>6, <2>1, OutgoingOf DEF Says
  <2> QED
    BY <1>3, <1>5, <1>6, <2>1, <2>2, HostsAre DEF Called
<1>8. /\ after \in [Host -> Sessions \cup {NoSession}]
      /\ after["client"] = t
      /\ \A o \in Host : \/ after[o] = NoSession /\ sess[o] = NoSession
                         \/ Called(o, after[o], log, n, drawn)
      /\ after["server"].outgoing = <<>>
      /\ after["server"] = sess["server"]
  <2>1. n \in Nat /\ requests <= n /\ drawn <= drawn /\ "server" # "client"
    BY <1>2
  <2> HIDE DEF n
  <2> QED
    BY <1>2, <1>7, <2>1, OneCalled
<1> HIDE DEF after
<1>9. n \in Nat /\ requests <= n /\ drawn <= drawn
  BY <1>2
<1>10. /\ sess' \in [Host -> Sessions \cup {NoSession}]
       /\ IsFiniteSet(net')
       /\ log' \in [Host -> Seq(GivenEvents)]
       /\ Consistent(sess', net', log', n, drawn)
       /\ \A h \in Host : TimesOut(h) =>
             after[h].state = "Terminated" /\ after[h].reason = "Timeout"
  <2>1. ConnTypes /\ Consistent(sess, net, log, requests, drawn)
    BY DEF ConnInv
  <2> HIDE DEF n
  <2> QED
    BY <1>1, <1>2, <1>8, <1>9, <2>1, SettleKeeps
<1>11. Asking(net') = Asking(net) \cup {asking}
  <2>1. Sent("client", t) = {asking}
    <3>1. t.outgoing[1] = SessionRequest(n) /\ DOMAIN t.outgoing = {1}
      <4> HIDE DEF n
      <4>1. DOMAIN <<SessionRequest(n)>> = {1} /\ <<SessionRequest(n)>>[1] = SessionRequest(n)
        OBVIOUS
      <4> QED
        BY <1>6, <4>1
    <3> HIDE DEF n
    <3> QED
      BY <3>1, HostsAre DEF Sent, Other
  <2>2. Sent("server", after["server"]) = {}
    <3>1. DOMAIN <<>> = {}
      OBVIOUS
    <3> QED
      BY <1>8, <3>1 DEF Sent
  <2>3. net' = net \cup UNION {Sent(h, after[h]) : h \in Host}
    BY <1>1 DEF Settle
  <2>4. UNION {Sent(h, after[h]) : h \in Host}
            = Sent("client", after["client"]) \cup Sent("server", after["server"])
    BY DEF Host
  <2>5. net' = net \cup {asking}
    BY <1>8, <2>1, <2>2, <2>3, <2>4
  <2>6. asking.datagram.op = "SessionRequest"
    BY DEF SessionRequest
  <2> HIDE DEF asking
  <2> QED
    BY <2>5, <2>6 DEF Asking
<1> HIDE DEF asking
<1>12. /\ IsFiniteSet(Asking(net)) /\ Cardinality(Asking(net)) \in Nat
       /\ Cardinality(Asking(net')) \in Nat
       /\ Cardinality(Asking(net')) <= Cardinality(Asking(net)) + 1
  <2>1. IsFiniteSet(Asking(net)) /\ Cardinality(Asking(net)) \in Nat
    BY FewerAsked DEF ConnInv, ConnTypes
  <2>2. Cardinality(Asking(net) \cup {asking}) =
            IF asking \in Asking(net) THEN Cardinality(Asking(net))
                                      ELSE Cardinality(Asking(net)) + 1
    BY <2>1, FS_AddElement
  <2> QED
    BY <1>11, <2>1, <2>2
<1>13. drawn' + Cardinality(Asking(net')) <= requests' + copies'
  <2>1. drawn + Cardinality(Asking(net)) <= requests + copies
    BY DEF ConnInv
  <2> QED
    BY <1>1, <1>2, <1>12, <2>1
<1>14. requests' \in 0 .. MaxSessions
  BY <1>1, <1>2
<1>15. ConnTypes' /\ Consistent(sess', net', log', requests', drawn')
  <2>1. ConnTypes
    BY DEF ConnInv
  <2> HIDE DEF n
  <2> QED
    BY <1>1, <1>10, <1>14, <2>1 DEF ConnTypes
<1>16. ConnInv'
  BY <1>13, <1>15 DEF ConnInv
<1>17. \A h \in Host : after[h].state # "Terminated"
  <2>1. sess["server"].state # "Terminated"
    BY <1>2, LiveRests, NoSessionIs DEF Rests
  <2> QED
    BY <1>6, <1>8, <2>1 DEF Host
<1> QED
  BY <1>10, <1>16, <1>17

\* What the application's calls make of a session.
LEMMA EnqueueCalled ==
    ASSUME ConnInv, NEW h \in Host, Running(h),
           NEW t, t = EnqueueReliable(sess[h], 0)
    PROVE  /\ Called(h, t, log, requests, drawn)
           /\ t.state = "Running" /\ t.key = sess[h].key
           /\ t.idle = sess[h].idle /\ t.inputs = sess[h].inputs
           /\ t.outgoing = <<>>
<1> DEFINE s == sess[h]
<1>1. s.state = "Running" /\ t = EnqueueReliable(s, 0)
  BY DEF Running
<1>2. Rests(h, s, log, requests, drawn)
  BY <1>1, LiveRests
<1> HIDE DEF s
<1>3. /\ PastOf(log[h]) \in Pasts /\ Sound(PastOf(log[h]), s) /\ Proper(s)
      /\ Flushed(s) /\ s.outgoing = <<>> /\ s.mode = Role(h)
      /\ s.key \in 0 .. drawn /\ s.byRemote = FALSE
  <2>1. /\ PastOf(log[h]) \in Pasts /\ Sound(PastOf(log[h]), s)
        /\ s \in Sessions /\ Proper(s) /\ Flushed(s) /\ ~Surfacing(s)
        /\ s.outgoing = <<>> /\ s.mode = Role(h) /\ s.key \in 0 .. drawn
        /\ s.byRemote = FALSE
        /\ s.state \in {"Negotiating", "Running"}
        /\ s.state = "Running" <=> s.key # NoKey
        /\ s.state = "Negotiating" => Silent(s) /\ h = "client"
    BY <1>2, RestsIs
  <2> QED
    BY <2>1
<1>4. 0 \in Channels
  BY SessionAssumption DEF Channels, SessionAssumption
<1>5. Sound(PastOf(log[h]), t) /\ Flushed(t)
  BY <1>1, <1>3, <1>4, EnqueueReliableSound
<1>6. /\ Proper(t) /\ Same(t, s) /\ t.outgoing = s.outgoing
      /\ t.idle = s.idle /\ t.inputs = s.inputs
  BY <1>1, <1>3, EnqueueKeeps
<1>7. /\ t.mode = Role(h) /\ t.key \in 0 .. drawn /\ t.state = "Running"
      /\ t.byRemote = FALSE /\ t.key = s.key
  BY <1>1, <1>3, <1>6 DEF Same
<1>8. Called(h, t, log, requests, drawn)
  BY <1>5, <1>6, <1>7, ProperCalled
<1> QED
  BY <1>3, <1>6, <1>7, <1>8 DEF s

LEMMA BestEffortCalled ==
    ASSUME ConnInv, NEW h \in Host, Running(h),
           NEW t, t = EnqueueUnreliable(sess[h], FALSE)
    PROVE  /\ Called(h, t, log, requests, drawn)
           /\ t.state = "Running" /\ t.key = sess[h].key
           /\ t.idle = sess[h].idle /\ t.inputs = sess[h].inputs
           /\ t.outgoing = <<Unreliable(t.key)>>
<1> DEFINE s == sess[h]
<1>1. s.state = "Running" /\ t = EnqueueUnreliable(s, FALSE)
  BY DEF Running
<1>2. Rests(h, s, log, requests, drawn)
  BY <1>1, LiveRests
<1> HIDE DEF s
<1>3. /\ PastOf(log[h]) \in Pasts /\ Sound(PastOf(log[h]), s)
      /\ Flushed(s) /\ s.outgoing = <<>> /\ s.mode = Role(h)
      /\ s.key \in 0 .. drawn /\ s.byRemote = FALSE /\ s.key # NoKey
  <2>1. /\ PastOf(log[h]) \in Pasts /\ Sound(PastOf(log[h]), s)
        /\ s \in Sessions /\ Proper(s) /\ Flushed(s) /\ ~Surfacing(s)
        /\ s.outgoing = <<>> /\ s.mode = Role(h) /\ s.key \in 0 .. drawn
        /\ s.byRemote = FALSE
        /\ s.state \in {"Negotiating", "Running"}
        /\ s.state = "Running" <=> s.key # NoKey
        /\ s.state = "Negotiating" => Silent(s) /\ h = "client"
    BY <1>2, RestsIs
  <2> QED
    BY <1>1, <2>1
<1>4. Sound(PastOf(log[h]), t) /\ Flushed(t)
  BY <1>1, <1>3, EnqueueUnreliableSound
<1>5. /\ Same(t, s) /\ t.outgoing = <<Unreliable(s.key)>>
      /\ t.idle = s.idle /\ t.inputs = s.inputs
  BY <1>1, <1>3, BestEffortSays
<1>6. /\ t.mode = Role(h) /\ t.key \in 0 .. drawn /\ t.state = "Running"
      /\ t.byRemote = FALSE /\ t.key = s.key
  BY <1>1, <1>3, <1>5 DEF Same
<1>7. \A i \in DOMAIN t.outgoing : t.outgoing[i] = Unreliable(t.key)
  BY <1>5, <1>6, OutgoingOf
<1>8. Called(h, t, log, requests, drawn)
  <2>1. \A i \in DOMAIN t.outgoing : Says(h, t, t.outgoing[i], requests, drawn)
    BY <1>3, <1>6, <1>7 DEF Says
  <2> QED
    BY <1>3, <1>4, <1>6, <2>1 DEF Called
<1> QED
  BY <1>5, <1>6, <1>8 DEF s

\* They end no session by a timeout.
LEMMA EnqueueStep ==
    ASSUME ConnInv, NEW h \in Host, Enqueue(h), UNCHANGED link
    PROVE  ConnInv' /\ \A o \in Host : ~TimesOut(o)
<1> DEFINE t == EnqueueReliable(sess[h], 0)
<1>1. /\ Running(h) /\ Settle([sess EXCEPT ![h] = t], net)
      /\ UNCHANGED <<link, copies, requests, drawn>>
  BY DEF Enqueue
<1>2. /\ Called(h, t, log, requests, drawn) /\ t.state = "Running"
      /\ t.outgoing = <<>>
  BY <1>1, EnqueueCalled
<1> HIDE DEF t
<1>3. \A i \in DOMAIN t.outgoing : t.outgoing[i].op # "SessionRequest"
  BY <1>2
<1> QED
  BY <1>1, <1>2, <1>3, OneCallKeeps

LEMMA BestEffortStep ==
    ASSUME ConnInv, NEW h \in Host, SendBestEffort(h), UNCHANGED link
    PROVE  ConnInv' /\ \A o \in Host : ~TimesOut(o)
<1> DEFINE t == EnqueueUnreliable(sess[h], FALSE)
<1>1. /\ Running(h) /\ Settle([sess EXCEPT ![h] = t], net)
      /\ UNCHANGED <<link, copies, requests, drawn>>
  BY DEF SendBestEffort
<1>2. /\ Called(h, t, log, requests, drawn) /\ t.state = "Running"
      /\ t.outgoing = <<Unreliable(t.key)>>
  BY <1>1, BestEffortCalled
<1> HIDE DEF t
<1>3. \A i \in DOMAIN t.outgoing : t.outgoing[i] = Unreliable(t.key)
  BY <1>2, OutgoingOf
<1>4. \A i \in DOMAIN t.outgoing : t.outgoing[i].op # "SessionRequest"
  BY <1>3 DEF Unreliable
<1> QED
  BY <1>1, <1>2, <1>4, OneCallKeeps

\* What Close makes of a session.
LEMMA CloseEnds ==
    ASSUME ConnInv, NEW h \in Host, Live(h)
    PROVE  /\ EndedAs(Refuse(sess[h], "Application"), sess[h], "Application",
                      FALSE)
           /\ Sound(PastOf(log[h]), Refuse(sess[h], "Application"))
           /\ Flushed(Refuse(sess[h], "Application"))
           /\ Called(h, Refuse(sess[h], "Application"), log, requests, drawn)
           /\ \A i \in DOMAIN Refuse(sess[h], "Application").outgoing :
                 Refuse(sess[h], "Application").outgoing[i].op = "Contextual"
<1> DEFINE s == sess[h]
           t == Refuse(s, "Application")
<1>1. Rests(h, s, log, requests, drawn)
  BY LiveRests DEF Live
<1> HIDE DEF s
<1>2. /\ PastOf(log[h]) \in Pasts /\ Sound(PastOf(log[h]), s) /\ Proper(s)
      /\ s.mode = Role(h) /\ s.key \in 0 .. drawn /\ s.state # "Terminated"
  BY <1>1, RestsIs DEF Rests
<1>3. "Application" \in Refusals /\ "Application" \in Reasons
  BY DEF Refusals, Reasons
<1>4. Sound(PastOf(log[h]), t) /\ EndedAs(t, s, "Application", FALSE)
  BY <1>2, <1>3, RefuseSound, RefuseProper
<1> HIDE DEF t
<1>5. /\ Proper(t) /\ t.mode = Role(h) /\ t.key \in 0 .. drawn
      /\ t.state = "Terminated" /\ t.byRemote = FALSE
  BY <1>2, <1>4 DEF EndedAs
<1>6. Flushed(t)
  BY <1>4, <1>5 DEF Sound, LastWords
<1>7. /\ Called(h, t, log, requests, drawn)
      /\ \A i \in DOMAIN t.outgoing :
            t.outgoing[i].op = "Contextual" /\ t.outgoing[i].key = t.key
  BY <1>4, <1>5, <1>6, ProperCalled
<1> QED
  BY <1>4, <1>6, <1>7 DEF t, s

LEMMA CloseStep ==
    ASSUME ConnInv, NEW h \in Host, Close(h), UNCHANGED link
    PROVE  ConnInv' /\ \A o \in Host : ~TimesOut(o)
<1> DEFINE t == Refuse(sess[h], "Application")
<1>1. /\ Live(h) /\ Settle([sess EXCEPT ![h] = t], net)
      /\ UNCHANGED <<link, copies, requests, drawn>>
  BY DEF Close
<1>2. /\ EndedAs(t, sess[h], "Application", FALSE)
      /\ Called(h, t, log, requests, drawn)
      /\ \A i \in DOMAIN t.outgoing : t.outgoing[i].op = "Contextual"
  BY <1>1, CloseEnds
<1> HIDE DEF t
<1>3. t.reason = "Application"
  BY <1>2 DEF EndedAs
<1>4. \A i \in DOMAIN t.outgoing : t.outgoing[i].op # "SessionRequest"
  BY <1>2
<1> QED
  BY <1>1, <1>2, <1>3, <1>4, OneCallKeeps

\* What a tick makes of a session, one that the clock has aged or not.
LEMMA TickCalled ==
    ASSUME ConnInv, NEW h \in Host, NEW s, Sound(PastOf(log[h]), s), Proper(s),
           Flushed(s), s.state \in {"Negotiating", "Running"},
           s.outgoing = <<>>, s.mode = Role(h), s.key \in 0 .. drawn,
           s.byRemote = FALSE, h = "server" => s.state = "Running",
           NEW t, t = RunTick(s)
    PROVE  /\ Called(h, t, log, requests, drawn)
           /\ \A i \in DOMAIN t.outgoing :
                 t.outgoing[i].op = "Contextual" /\ t.outgoing[i].key = t.key
           /\ Inactive(s) => EndedAs(t, s, "Timeout", FALSE)
           /\ ~Inactive(s) => Ticks(t, s)
<1>1. PastOf(log[h]) \in Pasts /\ s.state # "Terminated"
  BY DEF PastOf, Pasts
<1>2. Sound(PastOf(log[h]), t) /\ Flushed(t)
  BY <1>1, TickSound
<1>3. /\ Inactive(s) => EndedAs(t, s, "Timeout", FALSE)
      /\ ~Inactive(s) => Ticks(t, s)
  BY <1>1, TickEnds, TickKeeps
<1>4. /\ Proper(t) /\ t.mode = Role(h) /\ t.key \in 0 .. drawn
      /\ t.byRemote = FALSE
      /\ h = "server" => t.state # "Negotiating"
  <2>1. CASE Inactive(s)
    <3>1. EndedAs(t, s, "Timeout", FALSE)
      BY <1>3, <2>1
    <3> QED
      BY <3>1 DEF EndedAs
  <2>2. CASE ~Inactive(s)
    <3>1. Proper(t) /\ Same(t, s)
      BY <1>3, <2>2 DEF Ticks
    <3> QED
      BY <3>1 DEF Same
  <2> QED
    BY <2>1, <2>2
<1>5. /\ Called(h, t, log, requests, drawn)
      /\ \A i \in DOMAIN t.outgoing :
            t.outgoing[i].op = "Contextual" /\ t.outgoing[i].key = t.key
  BY <1>2, <1>4, ProperCalled
<1> QED
  BY <1>3, <1>5

\* Of the sessions that rest,
LEMMA TickRests ==
    ASSUME ConnInv, NEW h \in Host, Live(h), NEW t, t = RunTick(sess[h])
    PROVE  /\ Called(h, t, log, requests, drawn)
           /\ \A i \in DOMAIN t.outgoing :
                 t.outgoing[i].op = "Contextual" /\ t.outgoing[i].key = t.key
           /\ Inactive(sess[h]) => EndedAs(t, sess[h], "Timeout", FALSE)
           /\ ~Inactive(sess[h]) => Ticks(t, sess[h])
<1>1. Rests(h, sess[h], log, requests, drawn)
  BY LiveRests DEF Live
<1>2. /\ Sound(PastOf(log[h]), sess[h]) /\ Proper(sess[h])
      /\ Flushed(sess[h]) /\ sess[h].state \in {"Negotiating", "Running"}
      /\ sess[h].outgoing = <<>> /\ sess[h].mode = Role(h)
      /\ sess[h].key \in 0 .. drawn /\ sess[h].byRemote = FALSE
      /\ h = "server" => sess[h].state = "Running"
  BY <1>1, RestsIs
<1> QED
  BY <1>2, TickCalled

\* and of those sessions a unit of time later.
LEMMA AgeRests ==
    ASSUME ConnInv, NEW h \in Host, Live(h)
    PROVE  LET a == Age(sess[h])
           IN  /\ Rests(h, a, log, requests, drawn)
               /\ Same(a, sess[h]) /\ a.inputs = sess[h].inputs
               /\ a.idle = Least(sess[h].idle + 1, MaxIdle)
<1> DEFINE s == sess[h]
           a == Age(s)
<1>1. Rests(h, s, log, requests, drawn)
  BY LiveRests DEF Live
<1> HIDE DEF s
<1>2. /\ PastOf(log[h]) \in Pasts /\ Sound(PastOf(log[h]), s) /\ Proper(s)
      /\ Flushed(s) /\ s.state # "Terminated" /\ s.outgoing = <<>>
      /\ s.state \in {"Negotiating", "Running"}
      /\ s.received = <<>> /\ s.events = <<>> /\ s.mode = Role(h)
      /\ s.key \in 0 .. drawn /\ s.byRemote = FALSE
      /\ h = "server" => s.state # "Negotiating"
  BY <1>1, RestsIs DEF Rests, Called
<1>3. Sound(PastOf(log[h]), a) /\ Flushed(a)
  BY <1>2, AgeSound
<1>4. /\ Proper(a) /\ Same(a, s) /\ a.idle = Least(s.idle + 1, MaxIdle)
      /\ a.inputs = s.inputs /\ a.outgoing = s.outgoing
      /\ a.received = s.received /\ a.events = s.events
  BY <1>2, AgeProper
<1> HIDE DEF a
<1>5. /\ a.mode = Role(h) /\ a.key \in 0 .. drawn /\ a.state = s.state
      /\ a.byRemote = FALSE
  BY <1>2, <1>4 DEF Same
<1>6. Called(h, a, log, requests, drawn)
  BY <1>2, <1>3, <1>4, <1>5, ProperCalled
<1>7. Rests(h, a, log, requests, drawn)
  BY <1>2, <1>4, <1>5, <1>6 DEF Rests
<1> QED
  BY <1>4, <1>7 DEF a, s

LEMMA TickStep ==
    ASSUME ConnInv, NEW h \in Host, Tick(h), UNCHANGED link
    PROVE  /\ ConnInv'
           /\ \A o \in Host : TimesOut(o) => o = h /\ Inactive(sess[h])
<1> DEFINE t == RunTick(sess[h])
<1>1. /\ Live(h) /\ Settle([sess EXCEPT ![h] = t], net)
      /\ UNCHANGED <<link, copies, requests, drawn>>
  BY DEF Tick
<1>2. /\ Called(h, t, log, requests, drawn)
      /\ \A i \in DOMAIN t.outgoing :
            t.outgoing[i].op = "Contextual" /\ t.outgoing[i].key = t.key
      /\ ~Inactive(sess[h]) => Ticks(t, sess[h])
  BY <1>1, TickRests
<1> HIDE DEF t
<1>3. \A i \in DOMAIN t.outgoing : t.outgoing[i].op # "SessionRequest"
  BY <1>2
<1>4. ASSUME ~Inactive(sess[h])
      PROVE  t.state # "Terminated"
  <2>1. Same(t, sess[h])
    BY <1>2, <1>4 DEF Ticks
  <2>2. Rests(h, sess[h], log, requests, drawn)
    BY <1>1, LiveRests DEF Live
  <2> QED
    BY <2>1, <2>2 DEF Same, Rests
<1> QED
  BY <1>1, <1>2, <1>3, <1>4, OneCallKeeps

LEMMA ElapseStep ==
    ASSUME ConnInv, Elapse, UNCHANGED link
    PROVE  ConnInv' /\ \A o \in Host : ~TimesOut(o)
<1>1. /\ sess' = [h \in Host |-> IF Live(h) THEN Age(sess[h]) ELSE sess[h]]
      /\ UNCHANGED <<link, net, copies, log, requests, drawn>>
  BY DEF Elapse
<1>2. ASSUME NEW h \in Host
      PROVE  /\ sess'[h] \in Sessions \cup {NoSession}
             /\ Houses(h, sess'[h], log, requests, drawn)
  <2>1. CASE Live(h)
    <3>1. Rests(h, Age(sess[h]), log, requests, drawn)
      BY <2>1, AgeRests
    <3> QED
      BY <1>1, <2>1, <3>1 DEF Houses, Rests, Called, Sound
  <2>2. CASE ~Live(h)
    <3>1. sess'[h] = sess[h]
      BY <1>1, <2>2
    <3> QED
      BY <3>1 DEF ConnInv, ConnTypes, Consistent
  <2> QED
    BY <2>1, <2>2
<1>3. sess' \in [Host -> Sessions \cup {NoSession}]
  BY <1>1, <1>2
<1>4. ConnTypes' /\ Consistent(sess', net', log', requests', drawn')
  BY <1>1, <1>2, <1>3 DEF ConnInv, ConnTypes, Consistent
<1>5. drawn' + Cardinality(Asking(net')) <= requests' + copies'
  BY <1>1 DEF ConnInv
<1>6. ConnInv'
  BY <1>4, <1>5 DEF ConnInv
<1>7. \A o \in Host : ~TimesOut(o)
  <2>1. \A o \in Host : Len(log[o]) \in Nat
    BY DEF ConnInv, ConnTypes
  <2> QED
    BY <1>1, <2>1 DEF TimesOut
<1> QED
  BY <1>6, <1>7

\* No datagram ends a session by a timeout.
LEMMA NoAnswerTimesOut ==
    ASSUME NEW h, NEW s, NEW t, NEW outcome, Answers(h, s, t, outcome),
           s.state # "Terminated"
    PROVE  ~(t.state = "Terminated" /\ t.reason = "Timeout")
<1>1. CASE Ends(h, s, t)
  BY <1>1 DEF Ends, EndedAs, Refusals
<1>2. CASE Begins(h, s, t, outcome)
  BY <1>2 DEF Begins, Started
<1>3. CASE Agrees(h, s, t, outcome)
  BY <1>3 DEF Agrees, Started
<1>4. CASE Receives(h, s, t, outcome)
  <2>1. Same(t, s)
    BY <1>4 DEF Receives, TakesBestEffort
  <2> QED
    BY <2>1 DEF Same
<1>5. CASE Hears(h, s, t, outcome)
  <2>1. PICK packet \in Heard : Responds(t, s, packet)
    BY <1>5 DEF Hears
  <2>2. CASE packet.op = "Disconnect"
    <3>1. packet.reason \in Refusals
      BY <2>2 DEF Heard
    <3> QED
      BY <2>1, <2>2, <3>1 DEF Responds, EndedAs, Refusals
  <2>3. CASE packet.op # "Disconnect"
    BY <2>1, <2>3 DEF Responds, Same
  <2> QED
    BY <2>2, <2>3
<1> QED
  BY <1>1, <1>2, <1>3, <1>4, <1>5 DEF Answers

\* The network gives a datagram once, or makes a copy.
LEMMA DeliverStep ==
    ASSUME ConnInv, NEW m \in net, NEW effects \in SUBSET (Effects \ {"Malformed"}),
           NEW counts \in SUBSET Nat,
           NEW outcome \in Outcomes(m.datagram, effects, counts),
           NEW left, Deliver(m, outcome, left),
           \/ left = net \ {m} /\ copies' = copies
           \/ left = net /\ copies' = copies + 1 /\ copies < MaxCopies,
           UNCHANGED link
    PROVE  ConnInv' /\ \A o \in Host : ~TimesOut(o)
<1> DEFINE h == m.to
           begun == Begun(h, m.datagram)
           t == ProcessIncoming(begun, outcome, drawn + 1)
           after == [sess EXCEPT ![h] = t]
           d == DrawnBy(t, begun)
<1>1. /\ left \in SUBSET net /\ requests' = requests
      /\ copies \in Nat /\ copies' \in 0 .. MaxCopies /\ copies <= copies'
      /\ requests \in Nat /\ drawn \in Nat /\ link' = link
      /\ requests \in 0 .. MaxSessions
  BY InUse DEF Deliver, ConnInv, ConnTypes
<1>2. /\ IsFiniteSet(net) /\ IsFiniteSet(left)
      /\ IsFiniteSet(Asking(net)) /\ Cardinality(Asking(left)) \in Nat
      /\ Cardinality(Asking(net)) \in Nat
      /\ Cardinality(Asking(left)) <= Cardinality(Asking(net))
      /\ drawn + Cardinality(Asking(net)) <= requests + copies
  BY <1>1, FewerAsked, FS_Subset DEF ConnInv, ConnTypes
<1>3. ConnTypes /\ Consistent(sess, net, log, requests, drawn)
  BY DEF ConnInv
<1>4. CASE begun.state = "None"
  <2>1. net' = left /\ UNCHANGED <<sess, log, drawn>>
    BY <1>4 DEF Deliver
  <2>2. ConnTypes'
    BY <1>1, <1>2, <1>3, <2>1 DEF ConnTypes
  <2>3. Consistent(sess', net', log', requests', drawn')
    BY <1>1, <1>3, <2>1 DEF Consistent
  <2>4. drawn' + Cardinality(Asking(net')) <= requests' + copies'
    <3>1. copies' \in Nat /\ drawn' = drawn /\ Asking(net') = Asking(left)
      BY <1>1, <2>1
    <3> QED
      BY <1>1, <1>2, <3>1
  <2>5. \A o \in Host : Len(log[o]) \in Nat /\ log' = log
    BY <1>3, <2>1 DEF ConnTypes
  <2> QED
    BY <2>2, <2>3, <2>4, <2>5 DEF ConnInv, TimesOut
<1>5. CASE begun.state # "None"
  <2>1. Settle(after, left) /\ drawn' = d
    BY <1>5 DEF Deliver, DrawnBy
  <2>2. /\ Called(h, t, log, requests, d)
        /\ d = drawn \/ (d = drawn + 1 /\ m \in Asking(net))
        /\ \A i \in DOMAIN t.outgoing : t.outgoing[i].op # "SessionRequest"
    BY <1>5, DeliverCalled
  <2>3. h \in Host /\ Answers(h, sess[h], t, outcome)
    BY <1>5, DeliverAnswers
  <2> HIDE DEF d, t, begun
  <2>4. d \in Nat /\ requests <= requests /\ drawn <= d
    BY <1>1, <2>2
  <2>5. /\ after \in [Host -> Sessions \cup {NoSession}]
        /\ after[h] = t
        /\ \A o \in Host : \/ after[o] = NoSession /\ sess[o] = NoSession
                           \/ Called(o, after[o], log, requests, d)
        /\ \A o \in Host :
              o # h => after[o] = sess[o] /\ after[o].outgoing = <<>>
    BY <1>1, <2>2, <2>3, <2>4, OneCalled
  <2> HIDE DEF after, h
  <2>6. /\ sess' \in [Host -> Sessions \cup {NoSession}]
        /\ IsFiniteSet(net')
        /\ log' \in [Host -> Seq(GivenEvents)]
        /\ Consistent(sess', net', log', requests, d)
        /\ \A o \in Host : TimesOut(o) =>
              after[o].state = "Terminated" /\ after[o].reason = "Timeout"
    BY <1>1, <1>3, <2>1, <2>4, <2>5, SettleKeeps
  <2>7. Asking(net') = Asking(left)
    <3>1. ASSUME NEW o \in Host, NEW i \in DOMAIN after[o].outgoing
          PROVE  after[o].outgoing[i].op # "SessionRequest"
      <4>1. CASE o = h
        BY <2>2, <2>5, <3>1, <4>1
      <4>2. CASE o # h
        <5>1. DOMAIN <<>> = {}
          OBVIOUS
        <5> QED
          BY <2>5, <3>1, <4>2, <5>1
      <4> QED
        BY <4>1, <4>2
    <3> QED
      BY <2>1, <3>1, NothingAsked
  <2>8. drawn' + Cardinality(Asking(net')) <= requests' + copies'
    <3>1. CASE left = net /\ copies' = copies + 1
      BY <1>1, <1>2, <2>1, <2>2, <2>7, <3>1
    <3>2. CASE left = net \ {m} /\ copies' = copies /\ d = drawn
      BY <1>1, <1>2, <2>1, <2>7, <3>2
    <3>3. CASE left = net \ {m} /\ copies' = copies /\ m \in Asking(net)
      <4>1. Asking(left) = Asking(net) \ {m}
        BY <3>3 DEF Asking
      <4>2. Cardinality(Asking(left)) = Cardinality(Asking(net)) - 1
        <5>1. IsFiniteSet(Asking(net)) /\ m \in Asking(net)
          BY <1>2, <3>3
        <5>2. Cardinality(Asking(net) \ {m}) =
                  IF m \in Asking(net) THEN Cardinality(Asking(net)) - 1
                                       ELSE Cardinality(Asking(net))
          BY <5>1, FS_RemoveElement
        <5> QED
          BY <4>1, <5>1, <5>2
      <4> QED
        BY <1>1, <1>2, <2>1, <2>2, <2>7, <3>3, <4>2
    <3> QED
      BY <2>2, <3>1, <3>2, <3>3
  <2>9. ConnTypes' /\ Consistent(sess', net', log', requests', drawn')
    BY <1>1, <1>3, <2>1, <2>4, <2>6 DEF ConnTypes
  <2>10. ConnInv'
    BY <2>8, <2>9 DEF ConnInv
  <2>11. \A o \in Host : sess[o].state # "Terminated"
    BY LiveRests, NoSessionIs DEF Rests
  <2>12. ASSUME NEW o \in Host
         PROVE  ~TimesOut(o)
    <3>1. CASE o = h
      <4>1. ~(t.state = "Terminated" /\ t.reason = "Timeout")
        BY <2>3, <2>11, NoAnswerTimesOut
      <4> QED
        BY <2>5, <2>6, <3>1, <4>1
    <3>2. CASE o # h
      BY <2>5, <2>6, <2>11, <3>2
    <3> QED
      BY <3>1, <3>2
  <2> QED
    BY <2>10, <2>12
<1> QED
  BY <1>4, <1>5

LEMMA LoseStep ==
    ASSUME ConnInv, NEW m, Lose(m), UNCHANGED link
    PROVE  ConnInv' /\ \A o \in Host : ~TimesOut(o)
<1>1. /\ net' = net \ {m} /\ net' \in SUBSET net
      /\ UNCHANGED <<link, sess, copies, log, requests, drawn>>
  BY DEF Lose
<1>2. /\ ConnTypes /\ Consistent(sess, net, log, requests, drawn)
      /\ drawn \in Nat /\ requests \in Nat /\ copies \in Nat
      /\ IsFiniteSet(net) /\ drawn + Cardinality(Asking(net)) <= requests + copies
  BY InUse DEF ConnInv, ConnTypes
<1>3. /\ IsFiniteSet(net') /\ Cardinality(Asking(net)) \in Nat
      /\ Cardinality(Asking(net')) \in Nat
      /\ Cardinality(Asking(net')) <= Cardinality(Asking(net))
  BY <1>1, <1>2, FewerAsked, FS_Subset
<1>4. ConnTypes' /\ Consistent(sess', net', log', requests', drawn')
  BY <1>1, <1>2, <1>3 DEF ConnTypes, Consistent
<1>5. drawn' + Cardinality(Asking(net')) <= requests' + copies'
  BY <1>1, <1>2, <1>3
<1>6. \A o \in Host : Len(log[o]) \in Nat /\ log' = log
  BY <1>1, <1>2 DEF ConnTypes
<1> QED
  BY <1>4, <1>5, <1>6 DEF ConnInv, TimesOut

\* A unit of time passes for both hosts, and both tick.
RoundSession(h) == IF Live(h) THEN RunTick(Age(sess[h])) ELSE sess[h]

LEMMA RoundOf ==
    ASSUME ConnInv, NEW h \in Host
    PROVE  /\ RoundSession(h) \in Sessions \cup {NoSession}
           /\ \/ RoundSession(h) = NoSession /\ sess[h] = NoSession
              \/ Called(h, RoundSession(h), log, requests, drawn)
           /\ \A i \in DOMAIN RoundSession(h).outgoing :
                 /\ RoundSession(h).outgoing[i].op = "Contextual"
                 /\ RoundSession(h).outgoing[i].key = RoundSession(h).key
           /\ Live(h) =>
                 IF Inactive(Age(sess[h]))
                 THEN EndedAs(RoundSession(h), Age(sess[h]), "Timeout", FALSE)
                 ELSE Ticks(RoundSession(h), Age(sess[h]))
<1>1. CASE ~Live(h)
  <2>1. RoundSession(h) = NoSession /\ sess[h] = NoSession
    BY <1>1, LiveRests DEF RoundSession, Live
  <2>2. DOMAIN RoundSession(h).outgoing = {}
    BY <2>1, NoSessionIs
  <2> QED
    BY <1>1, <2>1, <2>2
<1>2. CASE Live(h)
  <2> DEFINE a == Age(sess[h])
             t == RoundSession(h)
  <2>1. Rests(h, a, log, requests, drawn)
    BY <1>2, AgeRests
  <2>2. t = RunTick(a)
    BY <1>2 DEF RoundSession
  <2> HIDE DEF a, t
  <2>3. /\ Sound(PastOf(log[h]), a) /\ Proper(a)
        /\ Flushed(a) /\ a.state \in {"Negotiating", "Running"}
        /\ a.outgoing = <<>> /\ a.mode = Role(h)
        /\ a.key \in 0 .. drawn /\ a.byRemote = FALSE
        /\ h = "server" => a.state = "Running"
    <3>1. /\ Sound(PastOf(log[h]), a) /\ Proper(a)
          /\ Flushed(a) /\ a.state \in {"Negotiating", "Running"}
          /\ a.outgoing = <<>> /\ a.mode = Role(h)
          /\ a.key \in 0 .. drawn /\ a.byRemote = FALSE
          /\ a.state = "Negotiating" => h = "client"
      BY <2>1, RestsIs
    <3> QED
      BY <3>1
  <2>4. /\ Called(h, t, log, requests, drawn)
        /\ \A i \in DOMAIN t.outgoing :
              t.outgoing[i].op = "Contextual" /\ t.outgoing[i].key = t.key
        /\ Inactive(a) => EndedAs(t, a, "Timeout", FALSE)
        /\ ~Inactive(a) => Ticks(t, a)
    BY <2>2, <2>3, TickCalled
  <2>5. t \in Sessions
    BY <2>4 DEF Called, Sound
  <2> QED
    BY <2>4, <2>5 DEF a, t
<1> QED
  BY <1>1, <1>2

LEMMA RoundStep ==
    ASSUME ConnInv, Round, UNCHANGED link
    PROVE  /\ ConnInv'
           /\ \A o \in Host : TimesOut(o) => Live(o) /\ Inactive(Age(sess[o]))
<1> DEFINE after == [h \in Host |-> RoundSession(h)]
<1>1. Settle(after, {}) /\ UNCHANGED <<link, copies, requests, drawn>>
  BY DEF Round, RoundSession
<1>2. ASSUME NEW h \in Host
      PROVE  /\ after[h] = RoundSession(h)
             /\ after[h] \in Sessions \cup {NoSession}
             /\ \/ after[h] = NoSession /\ sess[h] = NoSession
                \/ Called(h, after[h], log, requests, drawn)
             /\ \A i \in DOMAIN after[h].outgoing :
                   after[h].outgoing[i].op = "Contextual"
  BY RoundOf
<1>3. after \in [Host -> Sessions \cup {NoSession}]
  BY <1>2
<1>4. \A h \in Host : \A i \in DOMAIN after[h].outgoing :
          after[h].outgoing[i].op # "SessionRequest"
  BY <1>2
<1>5. {} \in SUBSET net
  OBVIOUS
<1> HIDE DEF after
<1>6. /\ ConnInv'
      /\ \A h \in Host : TimesOut(h) =>
            after[h].state = "Terminated" /\ after[h].reason = "Timeout"
  BY <1>1, <1>2, <1>3, <1>4, <1>5, CallsKeep
<1>7. ASSUME NEW o \in Host, TimesOut(o)
      PROVE  Live(o) /\ Inactive(Age(sess[o]))
  <2>1. RoundSession(o).state = "Terminated"
    BY <1>2, <1>6, <1>7
  <2>2. CASE ~Live(o)
    <3>1. sess[o].state = "None"
      BY <2>2 DEF Live
    <3> QED
      BY <2>1, <2>2, <3>1 DEF RoundSession
  <2>3. CASE Live(o) /\ ~Inactive(Age(sess[o]))
    <3>1. Same(RoundSession(o), Age(sess[o]))
      BY <2>3, RoundOf DEF Ticks
    <3>2. Rests(o, Age(sess[o]), log, requests, drawn)
      BY <2>3, AgeRests
    <3> QED
      BY <2>1, <3>1, <3>2 DEF Same, Rests
  <2> QED
    BY <2>2, <2>3
<1> QED
  BY <1>6, <1>7

LEMMA ConnInit == Init => ConnInv
<1> SUFFICES ASSUME Init
             PROVE  ConnInv
  OBVIOUS
<1>1. /\ link \in Links /\ sess = [h \in Host |-> NoSession] /\ net = {}
      /\ copies = 0 /\ log = [h \in Host |-> <<>>]
      /\ requests = 0 /\ drawn = 0
  BY DEF Init
<1>2. <<>> \in Seq(GivenEvents) /\ DOMAIN <<>> = {}
  OBVIOUS
<1>3. MaxSessions \in Nat /\ MaxCopies \in Nat
  BY ConnectionAssumption DEF ConnectionAssumption
<1>4. IsFiniteSet(net) /\ Asking(net) = {} /\ Cardinality(Asking(net)) = 0
  BY <1>1, FS_EmptySet DEF Asking
<1>5. ConnTypes
  BY <1>1, <1>2, <1>3, <1>4 DEF ConnTypes
<1>6. Consistent(sess, net, log, requests, drawn)
  BY <1>1, <1>2 DEF Consistent, InOrder, Houses, Ended, Truthful
<1> QED
  BY <1>1, <1>4, <1>5, <1>6 DEF ConnInv

\* Who may time out in a step of the system: a session that a driver's tick
\* finds inactive.
Expires(h) ==
    \/ Tick(h) /\ Inactive(sess[h])
    \/ Round /\ Live(h) /\ Inactive(Age(sess[h]))

LEMMA ChannelChoices ==
    /\ {"InOrder", "Ahead", "Nudged", "Dropped"}
           \in SUBSET (Effects \ {"Malformed"})
    /\ {"InOrder", "Fragment", "Ahead"} \in SUBSET (Effects \ {"Malformed"})
    /\ 0 .. Window \in SUBSET Nat /\ {1} \in SUBSET Nat
<1>1. Window \in Nat
  BY SessionAssumption DEF SessionAssumption
<1> QED
  BY <1>1 DEF Effects

LEMMA ConnNext ==
    ASSUME ConnInv, [Next]_vars
    PROVE  ConnInv' /\ \A h \in Host : TimesOut(h) => Expires(h)
<1>1. CASE UNCHANGED vars
  <2>1. UNCHANGED <<link, sess, net, copies, log, requests, drawn>>
    BY <1>1 DEF vars
  <2>2. ConnTypes' /\ Consistent(sess', net', log', requests', drawn')
    BY <2>1 DEF ConnInv, ConnTypes, Consistent
  <2>3. ConnInv'
    BY <2>1, <2>2 DEF ConnInv
  <2>4. \A h \in Host : Len(log[h]) \in Nat
    BY DEF ConnInv, ConnTypes
  <2> QED
    BY <2>1, <2>3, <2>4 DEF TimesOut
<1>2. ASSUME Connect, UNCHANGED link
      PROVE  ConnInv' /\ \A h \in Host : TimesOut(h) => Expires(h)
  BY <1>2, ConnectKeeps
<1>3. ASSUME NEW h \in Host, Enqueue(h), UNCHANGED link
      PROVE  ConnInv' /\ \A o \in Host : TimesOut(o) => Expires(o)
  BY <1>3, EnqueueStep
<1>4. ASSUME NEW h \in Host, SendBestEffort(h), UNCHANGED link
      PROVE  ConnInv' /\ \A o \in Host : TimesOut(o) => Expires(o)
  BY <1>4, BestEffortStep
<1>5. ASSUME NEW h \in Host, Close(h), UNCHANGED link
      PROVE  ConnInv' /\ \A o \in Host : TimesOut(o) => Expires(o)
  BY <1>5, CloseStep
<1>6. ASSUME NEW h \in Host, Tick(h), UNCHANGED link
      PROVE  ConnInv' /\ \A o \in Host : TimesOut(o) => Expires(o)
  BY <1>6, TickStep DEF Expires
<1>7. ASSUME Elapse, UNCHANGED link
      PROVE  ConnInv' /\ \A o \in Host : TimesOut(o) => Expires(o)
  BY <1>7, ElapseStep
<1>8. ASSUME NEW m \in net, DeliverOnce(m), UNCHANGED link
      PROVE  ConnInv' /\ \A o \in Host : TimesOut(o) => Expires(o)
  <2>1. PICK outcome \in AnyOutcome(m.datagram) :
            Deliver(m, outcome, net \ {m}) /\ copies' = copies
    BY <1>8 DEF DeliverOnce
  <2>2. outcome \in Outcomes(m.datagram,
                             {"InOrder", "Ahead", "Nudged", "Dropped"},
                             0 .. Window)
    BY DEF AnyOutcome
  <2> QED
    BY <1>8, <2>1, <2>2, ChannelChoices, DeliverStep
<1>9. ASSUME NEW m \in net, DeliverCopy(m), UNCHANGED link
      PROVE  ConnInv' /\ \A o \in Host : TimesOut(o) => Expires(o)
  <2>1. PICK outcome \in AnyOutcome(m.datagram) :
            /\ Deliver(m, outcome, net) /\ copies' = copies + 1
            /\ copies < MaxCopies
    BY <1>9 DEF DeliverCopy
  <2>2. outcome \in Outcomes(m.datagram,
                             {"InOrder", "Ahead", "Nudged", "Dropped"},
                             0 .. Window)
    BY DEF AnyOutcome
  <2> QED
    BY <1>9, <2>1, <2>2, ChannelChoices, DeliverStep
<1>10. ASSUME NEW m \in net, DeliverNew(m), UNCHANGED link
       PROVE  ConnInv' /\ \A o \in Host : TimesOut(o) => Expires(o)
  <2>1. PICK outcome \in Outcomes(m.datagram,
                                  {"InOrder", "Fragment", "Ahead"}, {1}) :
            Deliver(m, outcome, net \ {m}) /\ copies' = copies
    BY <1>10 DEF DeliverNew
  <2> QED
    BY <1>10, <2>1, ChannelChoices, DeliverStep
<1>11. ASSUME NEW m \in net, Lose(m), UNCHANGED link
       PROVE  ConnInv' /\ \A o \in Host : TimesOut(o) => Expires(o)
  BY <1>11, LoseStep
<1>12. ASSUME Round, UNCHANGED link
       PROVE  ConnInv' /\ \A o \in Host : TimesOut(o) => Expires(o)
  BY <1>12, RoundStep DEF Expires
<1>13. CASE FaultyNext /\ UNCHANGED link
  BY <1>2, <1>3, <1>4, <1>5, <1>6, <1>7, <1>8, <1>9, <1>11, <1>13
     DEF FaultyNext
<1>14. CASE LiveNext /\ UNCHANGED link
  <2>1. "client" \in Host
    BY DEF Host
  <2> QED
    BY <1>2, <1>3, <1>4, <1>5, <1>6, <1>10, <1>12, <1>14, <2>1 DEF LiveNext
<1> QED
  BY <1>1, <1>13, <1>14 DEF Next

\* In every state what is under way was framed with a seed that was drawn, a
\* Disconnect tells of a session that its sender did close, and every session
\* and log is as the calls of a session leave it (drain_session,
\* remove_if_terminated), on a faulty link as on a live one.
THEOREM ConnSafe == Spec => []ConnInv
<1>1. Init => ConnInv
  BY ConnInit
<1>2. ConnInv /\ [Next]_vars => ConnInv'
  BY ConnNext
<1> QED
  BY <1>1, <1>2, PTL DEF Spec

-----------------------------------------------------------------------------
(* What follows of what the applications were given. *)

\* Whatever the network does, and across the sessions that follow one another,
\* each application is given its events in the order that the README promises.
THEOREM OrderKept == Spec => []EventsInOrder
<1>1. ConnInv => EventsInOrder
  <2> SUFFICES ASSUME ConnInv, NEW h \in Host, NEW i \in DOMAIN log[h]
               PROVE  /\ log[h][i].event = "Data" =>
                            \E j \in 1 .. i - 1 :
                                /\ log[h][j].event = "Opened"
                                /\ \A k \in j .. i : ~ClosedAt(h, k)
                      /\ log[h][i].event = "Opened" =>
                            i = 1 \/ ClosedAt(h, i - 1)
    BY DEF EventsInOrder
  <2>1. InOrder(log[h])
    BY DEF ConnInv, Consistent
  <2> QED
    BY <2>1 DEF InOrder, ClosedAt
<1> QED
  BY <1>1, ConnSafe, PTL

LEMMA MadeLocal ==
    ASSUME NEW e, NEW key, NEW reason, NEW byRemote,
           e = [event |-> "Closed", key |-> key, reason |-> reason,
                byRemote |-> byRemote]
    PROVE  [e EXCEPT !.byRemote = FALSE] =
               [event |-> "Closed", key |-> key, reason |-> reason,
                byRemote |-> FALSE]
<1> DEFINE l == [e EXCEPT !.byRemote = FALSE]
<1>1. /\ DOMAIN l = {"event", "key", "reason", "byRemote"}
      /\ l = [f \in {"event", "key", "reason", "byRemote"} |-> l[f]]
  OBVIOUS
<1>2. /\ l.event = "Closed" /\ l.key = key /\ l.reason = reason
      /\ l.byRemote = FALSE
  OBVIOUS
<1> HIDE DEF l
<1>3. l = [event |-> "Closed", key |-> key, reason |-> reason,
           byRemote |-> FALSE]
  BY <1>1, <1>2
<1> QED
  BY <1>3 DEF l

\* An application is told that its remote ended a session only if that remote's
\* application was told that it did end it, the same one and for that reason.
THEOREM RemotesAreTrue == Spec => []ByRemoteIsTrue
<1>1. ConnInv => ByRemoteIsTrue
  <2> SUFFICES ASSUME ConnInv, NEW h \in Host, NEW i \in DOMAIN log[h],
                      ClosedAt(h, i), log[h][i].byRemote
               PROVE  \E j \in DOMAIN log[Other(h)] :
                          log[Other(h)][j] = [log[h][i] EXCEPT !.byRemote = FALSE]
    BY DEF ByRemoteIsTrue
  <2> DEFINE e == log[h][i]
  <2>1. e.event = "Closed"
    BY DEF ClosedAt
  <2>2. Closes(log[Other(h)], e.key, e.reason)
    BY <2>1 DEF ConnInv, Consistent, Truthful
  <2>3. e \in GivenEvents
    BY DEF ConnInv, ConnTypes
  <2> HIDE DEF e
  <2>4. e \in [event : {"Closed"}, key : Seeds, reason : Reasons,
               byRemote : BOOLEAN]
    BY <2>1, <2>3 DEF GivenEvents
  <2>5. [e EXCEPT !.byRemote = FALSE] =
            [event |-> "Closed", key |-> e.key, reason |-> e.reason,
             byRemote |-> FALSE]
    <3>1. PICK key \in Seeds, reason \in Reasons, byRemote \in BOOLEAN :
              e = [event |-> "Closed", key |-> key, reason |-> reason,
                   byRemote |-> byRemote]
      BY <2>4
    <3>2. e.key = key /\ e.reason = reason
      BY <3>1
    <3>3. [e EXCEPT !.byRemote = FALSE] =
              [event |-> "Closed", key |-> key, reason |-> reason,
               byRemote |-> FALSE]
      BY <3>1, MadeLocal
    <3> QED
      BY <3>2, <3>3
  <2>6. \E j \in DOMAIN log[Other(h)] :
            log[Other(h)][j] = [e EXCEPT !.byRemote = FALSE]
    BY <2>2, <2>5 DEF Closes
  <2> QED
    BY <2>6 DEF e
<1> QED
  BY <1>1, ConnSafe, PTL

-----------------------------------------------------------------------------
(* A live link: what keeps both ends alive. Each clause is about sessions   *)
(* s, as they rest or as calls leave them, and datagrams ms under way.      *)

Lives(s) == s.state \in {"Negotiating", "Running"}
Owes(s) == \E ch \in Channels : s.inputs[ch].owed

\* A datagram to the client that a server sends only when it was sent one: the
\* response to a request, an acknowledgement, an echo.
Echo(m, key) ==
    /\ m.to = "client" /\ m.datagram.key = key
    /\ \/ m.datagram.op = "SessionResponse"
       \/ /\ m.datagram.op = "Contextual"
          /\ m.datagram.packets[1].op \notin {"ReliableData", "Disconnect"}

\* A sign of life for the server.
Reaches(m, key) ==
    /\ m.to = "server" /\ m.datagram.key = key
    /\ m.datagram.op \in {"Contextual", "Unreliable"}

\* A server that has something to say for it was sent something just now.
Heeds(server, ms) ==
    Owes(server) \/ (\E m \in ms : Echo(m, server.key)) => server.idle = 0

\* The two are of one seed, or the handshake that will tell is under way;
Agreed(client, server, ms) ==
    \/ client.key = server.key
    \/ \E m \in ms : /\ Handshake(m)
                     /\ m.datagram.op = "SessionResponse" =>
                           m.datagram.key = server.key

\* when the client has heard nothing for long, a heartbeat or its echo is under
\* way;
Beaten(client, server, ms) ==
    client.key = server.key /\ client.idle > HeartbeatAfter =>
        \E m \in ms : m.datagram = Beat(server.key)

\* and what the server has not heard for longer than the client is under way,
\* or the client owes it.
Reached(client, server, ms) ==
    client.key = server.key /\ server.idle > client.idle =>
        Owes(client) \/ \E m \in ms : Reaches(m, server.key)

Bound(client, server, ms) ==
    /\ Agreed(client, server, ms)
    /\ Beaten(client, server, ms)
    /\ Reached(client, server, ms)

Alive(s, ms) ==
    /\ \A m \in ms : m.to = "client" => m.datagram.op # "Unreliable"
    /\ \A h \in Host : Lives(s[h]) => ~Inactive(s[h])
    /\ Lives(s["server"]) => Heeds(s["server"], ms)
    /\ Lives(s["client"]) /\ Lives(s["server"]) =>
          Bound(s["client"], s["server"], ms)

LiveInv == link = "live" => Alive(sess, net)

\* A heartbeat is due before a session times out.
Beating == HeartbeatAfter \in 1 .. InactivityTimeout - 1

\* What the clauses see of a session.
Looks(r, s) == r.key = s.key /\ r.idle = s.idle /\ r.inputs = s.inputs

LEMMA LooksBound ==
    ASSUME NEW a, NEW b, NEW c, NEW d, NEW ms, Looks(a, c), Looks(b, d)
    PROVE  /\ Bound(a, b, ms) <=> Bound(c, d, ms)
           /\ Heeds(b, ms) <=> Heeds(d, ms)
           /\ Inactive(a) <=> Inactive(c)
BY DEF Looks, Bound, Agreed, Beaten, Reached, Heeds, Owes, Inactive

LEMMA DrainedLooks ==
    ASSUME NEW s \in Sessions \cup {NoSession}
    PROVE  Looks(Drained(s), s) /\ Drained(s).state = s.state
<1>1. CASE s \in Sessions
  BY <1>1 DEF Drained, Sessions, Looks
<1>2. CASE s = NoSession
  BY <1>2, NoSessionIs DEF Looks
<1> QED
  BY <1>1, <1>2

\* Draining takes nothing away that the clauses see.
LEMMA SettleAlive ==
    ASSUME NEW after \in [Host -> Sessions \cup {NoSession}], NEW left,
           Settle(after, left), Alive(after, net')
    PROVE  Alive(sess', net')
<1>1. ASSUME NEW h \in Host, Lives(sess'[h])
      PROVE  Lives(after[h]) /\ Looks(sess'[h], after[h])
  <2>1. sess'[h] = IF after[h].state = "Terminated" THEN NoSession
                                                    ELSE Drained(after[h])
    BY DEF Settle
  <2>2. ~Lives(NoSession)
    BY NoSessionIs DEF Lives
  <2>3. sess'[h] = Drained(after[h])
    BY <1>1, <2>1, <2>2
  <2>4. /\ Looks(Drained(after[h]), after[h])
        /\ Drained(after[h]).state = after[h].state
    BY DrainedLooks
  <2> QED
    BY <1>1, <2>3, <2>4 DEF Lives
<1>2. "client" \in Host /\ "server" \in Host
  BY DEF Host
<1>3. \A h \in Host : Lives(sess'[h]) => ~Inactive(sess'[h])
  BY <1>1, LooksBound DEF Alive
<1>4. ASSUME Lives(sess'["server"])
      PROVE  Heeds(sess'["server"], net')
  BY <1>1, <1>2, <1>4, LooksBound DEF Alive
<1>5. ASSUME Lives(sess'["client"]), Lives(sess'["server"])
      PROVE  Bound(sess'["client"], sess'["server"], net')
  BY <1>1, <1>2, <1>5, LooksBound DEF Alive
<1> QED
  BY <1>3, <1>4, <1>5 DEF Alive

\* What the datagrams under way are after one host was called.
LEMMA OneSends ==
    ASSUME ConnInv, NEW h \in Host, NEW t, NEW left,
           NEW after, after[h] = t,
           \A o \in Host : o # h => after[o].outgoing = <<>>,
           Settle(after, left)
    PROVE  net' = left \cup Sent(h, t)
<1>1. net' = left \cup UNION {Sent(o, after[o]) : o \in Host}
  BY DEF Settle
<1>2. \A o \in Host : o # h => Sent(o, after[o]) = {}
  <2>1. DOMAIN <<>> = {}
    OBVIOUS
  <2> QED
    BY <2>1 DEF Sent
<1>3. UNION {Sent(o, after[o]) : o \in Host} = Sent(h, t)
  BY <1>2
<1> QED
  BY <1>1, <1>3

LEMMA SentIs ==
    ASSUME NEW h, NEW s
    PROVE  /\ \A m \in Sent(h, s) :
                 /\ m.to = Other(h)
                 /\ \E i \in DOMAIN s.outgoing : m.datagram = s.outgoing[i]
           /\ \A i \in DOMAIN s.outgoing :
                 \E m \in Sent(h, s) :
                     m.to = Other(h) /\ m.datagram = s.outgoing[i]
<1>1. ASSUME NEW m \in Sent(h, s)
      PROVE  /\ m.to = Other(h)
             /\ \E i \in DOMAIN s.outgoing : m.datagram = s.outgoing[i]
  BY DEF Sent
<1>2. ASSUME NEW i \in DOMAIN s.outgoing
      PROVE  \E m \in Sent(h, s) :
                 m.to = Other(h) /\ m.datagram = s.outgoing[i]
  <2> DEFINE m == [to |-> Other(h), datagram |-> s.outgoing[i]]
  <2>1. m \in Sent(h, s)
    BY DEF Sent
  <2>2. m.to = Other(h) /\ m.datagram = s.outgoing[i]
    OBVIOUS
  <2> HIDE DEF m
  <2> QED
    BY <2>1, <2>2
<1> QED
  BY <1>1, <1>2

\* A call on the client,
LEMMA ClientAlive ==
    ASSUME Alive(sess, net), NEW t, NEW after, NEW left \in SUBSET net,
           after["client"] = t, after["server"] = sess["server"],
           NEW ms, ms = left \cup Sent("client", t),
           Lives(t) => ~Inactive(t),
           Lives(t) /\ Lives(sess["server"]) => Bound(t, sess["server"], ms)
    PROVE  Alive(after, ms)
<1>1. \A m \in ms : m.to = "client" => m \in net
  <2>1. Other("client") # "client"
    BY DEF Other
  <2> QED
    BY <2>1, SentIs
<1>2. ASSUME Lives(sess["server"])
      PROVE  Heeds(sess["server"], ms)
  <2>1. Heeds(sess["server"], net)
    BY <1>2 DEF Alive
  <2>2. \A m \in ms : Echo(m, sess["server"].key) => m \in net
    BY <1>1 DEF Echo
  <2> QED
    BY <2>1, <2>2 DEF Heeds
<1>3. \A h \in Host : Lives(after[h]) => ~Inactive(after[h])
  BY DEF Alive, Host
<1> QED
  BY <1>1, <1>2, <1>3 DEF Alive

\* and on the server.
LEMMA ServerAlive ==
    ASSUME Alive(sess, net), NEW t, NEW after, NEW left \in SUBSET net,
           after["server"] = t, after["client"] = sess["client"],
           NEW ms, ms = left \cup Sent("server", t),
           \A i \in DOMAIN t.outgoing : t.outgoing[i].op # "Unreliable",
           Lives(t) => ~Inactive(t) /\ Heeds(t, ms),
           Lives(sess["client"]) /\ Lives(t) => Bound(sess["client"], t, ms)
    PROVE  Alive(after, ms)
<1>1. \A m \in ms : m.to = "client" => m.datagram.op # "Unreliable"
  BY SentIs DEF Alive
<1>2. \A h \in Host : Lives(after[h]) => ~Inactive(after[h])
  BY DEF Alive, Host
<1> QED
  BY <1>1, <1>2 DEF Alive

\* More datagrams under way bind no less.
LEMMA BoundMore ==
    ASSUME NEW a, NEW b, NEW ms, NEW more, ms \subseteq more, Bound(a, b, ms)
    PROVE  Bound(a, b, more)
BY DEF Bound, Agreed, Beaten, Reached

LEMMA ClientCalled ==
    ASSUME ConnInv, Alive(sess, net), NEW t, NEW left \in SUBSET net,
           NEW n \in Nat, NEW d \in Nat, requests <= n, drawn <= d,
           Called("client", t, log, n, d),
           Settle([sess EXCEPT !["client"] = t], left),
           NEW ms, ms = left \cup Sent("client", t),
           Lives(t) => ~Inactive(t),
           Lives(t) /\ Lives(sess["server"]) => Bound(t, sess["server"], ms)
    PROVE  Alive(sess', net') /\ net' = ms
<1> DEFINE after == [sess EXCEPT !["client"] = t]
<1>1. "client" \in Host /\ Other("client") = "server"
  BY DEF Host, Other
<1>2. /\ after \in [Host -> Sessions \cup {NoSession}]
      /\ after["client"] = t /\ after["server"] = sess["server"]
      /\ \A o \in Host : o # "client" => after[o].outgoing = <<>>
  <2>1. "server" \in Host /\ "server" # "client"
    BY DEF Host
  <2> QED
    BY <1>1, <2>1, OneCalled
<1>3. Settle(after, left)
  OBVIOUS
<1> HIDE DEF after
<1>4. net' = ms
  BY <1>1, <1>2, <1>3, OneSends
<1>5. Alive(after, net')
  BY <1>2, <1>4, ClientAlive
<1> QED
  BY <1>2, <1>3, <1>4, <1>5, SettleAlive

LEMMA ServerCalled ==
    ASSUME ConnInv, Alive(sess, net), NEW t, NEW left \in SUBSET net,
           NEW n \in Nat, NEW d \in Nat, requests <= n, drawn <= d,
           Called("server", t, log, n, d),
           Settle([sess EXCEPT !["server"] = t], left),
           NEW ms, ms = left \cup Sent("server", t),
           \A i \in DOMAIN t.outgoing : t.outgoing[i].op # "Unreliable",
           Lives(t) => ~Inactive(t) /\ Heeds(t, ms),
           Lives(sess["client"]) /\ Lives(t) => Bound(sess["client"], t, ms)
    PROVE  Alive(sess', net') /\ net' = ms
<1> DEFINE after == [sess EXCEPT !["server"] = t]
<1>1. "server" \in Host /\ Other("server") = "client"
  BY DEF Host, Other
<1>2. /\ after \in [Host -> Sessions \cup {NoSession}]
      /\ after["server"] = t /\ after["client"] = sess["client"]
      /\ \A o \in Host : o # "server" => after[o].outgoing = <<>>
  <2>1. "client" \in Host /\ "client" # "server"
    BY DEF Host
  <2> QED
    BY <1>1, <2>1, OneCalled
<1>3. Settle(after, left)
  OBVIOUS
<1> HIDE DEF after
<1>4. net' = ms
  BY <1>1, <1>2, <1>3, OneSends
<1>5. Alive(after, net')
  BY <1>2, <1>4, ServerAlive
<1> QED
  BY <1>2, <1>3, <1>4, <1>5, SettleAlive

\* The invariant's sessions, and what they are.
LEMMA LivesIs ==
    ASSUME ConnInv, NEW h \in Host
    PROVE  /\ Lives(sess[h]) <=> Live(h)
           /\ Live(h) =>
                 /\ Rests(h, sess[h], log, requests, drawn)
                 /\ PastOf(log[h]) \in Pasts /\ Sound(PastOf(log[h]), sess[h])
                 /\ sess[h] \in Sessions /\ Proper(sess[h]) /\ Flushed(sess[h])
                 /\ sess[h].outgoing = <<>> /\ sess[h].mode = Role(h)
                 /\ sess[h].key \in 0 .. drawn /\ sess[h].idle \in Nat
                 /\ sess[h].state = "Running" <=> sess[h].key # NoKey
                 /\ h = "server" => sess[h].state = "Running"
           /\ requests \in Nat /\ drawn \in Nat
           /\ requests <= requests /\ drawn <= drawn
<1>1. CASE Live(h)
  <2>1. Rests(h, sess[h], log, requests, drawn)
    BY <1>1, LiveRests DEF Live
  <2> DEFINE s == sess[h]
  <2>2. Rests(h, s, log, requests, drawn)
    BY <2>1
  <2> HIDE DEF s
  <2>3. /\ PastOf(log[h]) \in Pasts /\ Sound(PastOf(log[h]), s)
        /\ s \in Sessions /\ Proper(s) /\ Flushed(s) /\ ~Surfacing(s)
        /\ s.outgoing = <<>> /\ s.mode = Role(h) /\ s.key \in 0 .. drawn
        /\ s.byRemote = FALSE
        /\ s.state \in {"Negotiating", "Running"}
        /\ s.state = "Running" <=> s.key # NoKey
        /\ s.state = "Negotiating" => Silent(s) /\ h = "client"
    BY <2>2, RestsIs
  <2>4. s.idle \in Nat
    <3>1. s.idle \in 0 .. MaxIdle
      BY <2>3 DEF Sessions
    <3> QED
      BY <3>1
  <2> QED
    BY <1>1, <2>1, <2>3, <2>4, InUse DEF Lives, s
<1>2. CASE ~Live(h)
  BY <1>2, InUse DEF Live, Lives
<1> QED
  BY <1>1, <1>2

LEMMA ConnectAlive ==
    ASSUME ConnInv, Alive(sess, net), Connect
    PROVE  Alive(sess', net')
<1> DEFINE t == SendSessionRequest(New("Client"), requests + 1)
           n == requests + 1
           ms == net \cup Sent("client", t)
           server == sess["server"]
<1>1. /\ ~Live("client") /\ requests < MaxSessions
      /\ Settle([sess EXCEPT !["client"] = t], net)
  BY DEF Connect
<1>2. /\ requests \in Nat /\ drawn \in Nat /\ n \in Nat /\ n \in Ids
      /\ requests <= n /\ drawn <= drawn
      /\ "client" \in Host /\ "server" \in Host
  BY <1>1, InUse DEF Host
<1>3. PastOf(log["client"]) = "Fresh"
  BY <1>1, <1>2, LiveRests DEF Live, PastOf
<1>4. Sound("Fresh", New("Client")) /\ Flushed(New("Client")) /\ "Fresh" \in Pasts
  BY NewSound DEF Pasts
<1>5. Sound("Fresh", t) /\ Flushed(t)
  BY <1>2, <1>4, ConnectSound
<1>6. /\ t.state = "Negotiating" /\ t.mode = "Client"
      /\ t.key = NoKey /\ t.byRemote = FALSE /\ t.idle = 0
      /\ Silent(t) /\ t.outgoing = <<SessionRequest(n)>>
  BY <1>2, ConnectSays
<1> HIDE DEF t
<1>7. Called("client", t, log, n, drawn)
  <2>1. n \in 1 .. n /\ NoKey \in 0 .. drawn
    BY <1>2 DEF NoKey
  <2> HIDE DEF n
  <2>2. \A i \in DOMAIN t.outgoing : Says("client", t, t.outgoing[i], n, drawn)
    BY <1>6, <2>1, OutgoingOf DEF Says
  <2> QED
    BY <1>3, <1>5, <1>6, <2>1, <2>2, HostsAre DEF Called
<1>8. ~Inactive(t)
  BY <1>6, SessionAssumption DEF Inactive, SessionAssumption
<1>9. \E m \in ms : /\ Handshake(m)
                    /\ m.datagram.op = "SessionRequest"
  <2>1. 1 \in DOMAIN t.outgoing /\ t.outgoing[1] = SessionRequest(n)
    <3> HIDE DEF n
    <3>1. /\ 1 \in DOMAIN <<SessionRequest(n)>>
          /\ <<SessionRequest(n)>>[1] = SessionRequest(n)
      OBVIOUS
    <3> QED
      BY <1>6, <3>1
  <2>2. PICK m \in Sent("client", t) : m.datagram = SessionRequest(n)
    BY <1>2, <2>1, SentIs
  <2>3. m.datagram.op = "SessionRequest"
    BY <2>2 DEF SessionRequest
  <2> QED
    BY <2>3 DEF Handshake
<1>10. ASSUME Lives(server)
       PROVE  Bound(t, server, ms)
  <2>1. server.key # NoKey
    BY <1>2, <1>10, LivesIs
  <2> HIDE DEF server, ms
  <2>2. t.key # server.key
    BY <1>6, <2>1
  <2>3. Agreed(t, server, ms)
    BY <1>9 DEF Agreed
  <2> QED
    BY <2>2, <2>3 DEF Bound, Beaten, Reached
<1> HIDE DEF n, ms
<1>11. net \in SUBSET net /\ ms = net \cup Sent("client", t)
  BY DEF ms
<1> QED
  BY <1>1, <1>2, <1>7, <1>8, <1>10, <1>11, ClientCalled

\* A call after which the session looks the same binds it no less.
LEMMA SameAlive ==
    ASSUME ConnInv, Alive(sess, net), NEW h \in Host, NEW t,
           Called(h, t, log, requests, drawn),
           Settle([sess EXCEPT ![h] = t], net),
           Lives(t) => Lives(sess[h]) /\ Looks(t, sess[h]),
           h = "server" => \A i \in DOMAIN t.outgoing :
                               t.outgoing[i].op = "Contextual",
           h = "server" /\ Lives(t) => Heeds(t, net \cup Sent(h, t))
    PROVE  Alive(sess', net')
<1> DEFINE ms == net \cup Sent(h, t)
<1>1. /\ requests \in Nat /\ drawn \in Nat /\ requests <= requests
      /\ drawn <= drawn /\ net \subseteq ms /\ net \in SUBSET net
  BY LivesIs
<1>2. ms = net \cup Sent(h, t)
  OBVIOUS
<1>3. Lives(t) => ~Inactive(t)
  BY LooksBound DEF Alive
<1>4. CASE h = "client"
  <2>1. ASSUME Lives(t), Lives(sess["server"])
        PROVE  Bound(t, sess["server"], ms)
    <3>1. Bound(sess["client"], sess["server"], net)
      BY <1>4, <2>1 DEF Alive
    <3>2. Bound(sess["client"], sess["server"], ms)
      BY <1>1, <3>1, BoundMore
    <3>3. Looks(t, sess["client"]) /\ Looks(sess["server"], sess["server"])
      BY <1>4, <2>1 DEF Looks
    <3> HIDE DEF ms
    <3> QED
      BY <3>2, <3>3, LooksBound
  <2> HIDE DEF ms
  <2> QED
    BY <1>1, <1>2, <1>3, <1>4, <2>1, ClientCalled
<1>5. CASE h = "server"
  <2>1. ASSUME Lives(t), Lives(sess["client"])
        PROVE  Bound(sess["client"], t, ms)
    <3>1. Bound(sess["client"], sess["server"], net)
      BY <1>5, <2>1 DEF Alive
    <3>2. Bound(sess["client"], sess["server"], ms)
      BY <1>1, <3>1, BoundMore
    <3>3. Looks(t, sess["server"]) /\ Looks(sess["client"], sess["client"])
      BY <1>5, <2>1 DEF Looks
    <3> HIDE DEF ms
    <3> QED
      BY <3>2, <3>3, LooksBound
  <2>2. \A i \in DOMAIN t.outgoing : t.outgoing[i].op # "Unreliable"
    BY <1>5
  <2>3. Lives(t) => Heeds(t, ms)
    BY <1>5
  <2> HIDE DEF ms
  <2> QED
    BY <1>1, <1>2, <1>3, <1>5, <2>1, <2>2, <2>3, ServerCalled
<1> QED
  BY <1>4, <1>5 DEF Host

\* What a proper session sends.
LEMMA ProperSays ==
    ASSUME NEW t, Proper(t)
    PROVE  \A i \in DOMAIN t.outgoing :
               t.outgoing[i].op = "Contextual" /\ t.outgoing[i].key = t.key
<1>1. t.outgoing \in Seq(Replies(t))
  BY DEF Proper
<1>2. ASSUME NEW message \in Replies(t)
      PROVE  message.op = "Contextual" /\ message.key = t.key
  <2>1. CASE message \in Words(t.key)
    BY <2>1 DEF Words, Contextual
  <2>2. CASE message \in Farewells(t)
    BY <2>2 DEF Farewells, Notice, Contextual
  <2> QED
    BY <2>1, <2>2 DEF Replies
<1>3. \A i \in DOMAIN t.outgoing : t.outgoing[i] \in Replies(t)
  BY <1>1
<1> QED
  BY <1>2, <1>3

\* A server that sends nothing, or no echo, and owes no more than it did heeds
\* as it did.
LEMMA StillHeeds ==
    ASSUME NEW s, NEW ms, Heeds(s, ms), NEW t, t.key = s.key, t.idle = s.idle,
           Owes(t) => Owes(s), NEW more,
           \A m \in more : Echo(m, s.key) => m \in ms \/ s.idle = 0
    PROVE  Heeds(t, more)
BY DEF Heeds

LEMMA EnqueueAlive ==
    ASSUME ConnInv, Alive(sess, net), NEW h \in Host, Enqueue(h)
    PROVE  Alive(sess', net')
<1> DEFINE t == EnqueueReliable(sess[h], 0)
<1>1. Running(h) /\ Settle([sess EXCEPT ![h] = t], net)
  BY DEF Enqueue
<1>2. /\ Called(h, t, log, requests, drawn)
      /\ t.state = "Running" /\ t.key = sess[h].key
      /\ t.idle = sess[h].idle /\ t.inputs = sess[h].inputs
      /\ t.outgoing = <<>>
  BY <1>1, EnqueueCalled
<1> HIDE DEF t
<1>3. Lives(sess[h]) /\ Looks(t, sess[h])
  BY <1>1, <1>2 DEF Running, Lives, Looks
<1>4. \A i \in DOMAIN t.outgoing : t.outgoing[i].op = "Contextual"
  BY <1>2
<1>5. ASSUME h = "server"
      PROVE  Heeds(t, net \cup Sent(h, t))
  <2>1. Heeds(sess[h], net)
    BY <1>3, <1>5 DEF Alive
  <2>2. Sent(h, t) = {}
    BY <1>2 DEF Sent
  <2> QED
    BY <1>2, <2>1, <2>2, StillHeeds DEF Owes
<1> QED
  BY <1>1, <1>2, <1>3, <1>4, <1>5, SameAlive

LEMMA BestEffortAlive ==
    ASSUME ConnInv, Alive(sess, net), SendBestEffort("client")
    PROVE  Alive(sess', net')
<1> DEFINE t == EnqueueUnreliable(sess["client"], FALSE)
<1>1. Running("client") /\ Settle([sess EXCEPT !["client"] = t], net)
  BY DEF SendBestEffort
<1>2. "client" \in Host /\ "client" # "server"
  BY DEF Host
<1>3. /\ Called("client", t, log, requests, drawn)
      /\ t.state = "Running" /\ t.key = sess["client"].key
      /\ t.idle = sess["client"].idle /\ t.inputs = sess["client"].inputs
  BY <1>1, <1>2, BestEffortCalled
<1> HIDE DEF t
<1>4. Lives(sess["client"]) /\ Looks(t, sess["client"])
  BY <1>1, <1>3 DEF Running, Lives, Looks
<1> QED
  BY <1>1, <1>2, <1>3, <1>4, SameAlive

\* A session that has ended binds nobody.
LEMMA CloseAlive ==
    ASSUME ConnInv, Alive(sess, net), NEW h \in Host, Close(h)
    PROVE  Alive(sess', net')
<1> DEFINE t == Refuse(sess[h], "Application")
<1>1. Live(h) /\ Settle([sess EXCEPT ![h] = t], net)
  BY DEF Close
<1>2. /\ EndedAs(t, sess[h], "Application", FALSE)
      /\ Called(h, t, log, requests, drawn)
      /\ \A i \in DOMAIN t.outgoing : t.outgoing[i].op = "Contextual"
  BY <1>1, CloseEnds
<1> HIDE DEF t
<1>3. ~Lives(t)
  BY <1>2 DEF EndedAs, Lives
<1> QED
  BY <1>1, <1>2, <1>3, SameAlive

\* A driver's tick says what was owed, and the server's no more than data.
LEMMA TickAlive ==
    ASSUME ConnInv, Alive(sess, net), NEW h \in Host, Tick(h)
    PROVE  Alive(sess', net')
<1> DEFINE s == sess[h]
           t == RunTick(s)
           ms == net \cup Sent(h, t)
<1>1. Live(h) /\ Settle([sess EXCEPT ![h] = t], net)
  BY DEF Tick
<1>2. /\ Called(h, t, log, requests, drawn)
      /\ \A i \in DOMAIN t.outgoing :
            t.outgoing[i].op = "Contextual" /\ t.outgoing[i].key = t.key
      /\ ~Inactive(s) => Ticks(t, s)
  BY <1>1, TickRests
<1>3. /\ requests \in Nat /\ drawn \in Nat /\ requests <= requests
      /\ drawn <= drawn /\ Lives(s) /\ s.mode = Role(h)
  BY <1>1, LivesIs
<1>4. ~Inactive(s)
  BY <1>3 DEF Alive
<1>5. net \in SUBSET net /\ net \subseteq ms /\ ms = net \cup Sent(h, t)
  OBVIOUS
<1> HIDE DEF t
<1>6. Ticks(t, s)
  BY <1>2, <1>4
<1> HIDE DEF s
<1>7. /\ t.key = s.key /\ t.idle = s.idle /\ ~Owes(t)
      /\ Owes(s) => t.outgoing # <<>>
  BY <1>6 DEF Ticks, Same, Owes
<1>8. ~Inactive(t)
  BY <1>4, <1>7 DEF Inactive
<1>9. ASSUME h = "client"
      PROVE  Alive(sess', net')
  <2> DEFINE server == sess["server"]
  <2>1. ASSUME Lives(t), Lives(server)
        PROVE  Bound(t, server, ms)
    <3>1. Bound(s, server, net)
      BY <1>3, <1>9, <2>1 DEF Alive, s
    <3> HIDE DEF server
    <3>2. Bound(s, server, ms)
      BY <1>5, <3>1, BoundMore
    <3>3. ASSUME Owes(s), t.key = server.key
          PROVE  \E m \in ms : Reaches(m, server.key)
      <4>1. 1 \in DOMAIN t.outgoing
        <5>1. t.outgoing \in Seq(Replies(t))
          BY <1>6 DEF Ticks, Proper
        <5> QED
          BY <1>7, <3>3, <5>1
      <4>2. PICK m \in Sent(h, t) : m.to = Other(h) /\ m.datagram = t.outgoing[1]
        BY <4>1, SentIs
      <4>3. m.datagram.op = "Contextual" /\ m.datagram.key = t.key
        BY <1>2, <4>1, <4>2
      <4>4. m.to = "server"
        BY <1>9, <4>2 DEF Other
      <4>5. Reaches(m, server.key)
        BY <3>3, <4>3, <4>4 DEF Reaches
      <4> QED
        BY <1>5, <4>2, <4>5
    <3>4. Reached(t, server, ms)
      <4> HIDE DEF ms
      <4> QED
        BY <1>7, <3>2, <3>3 DEF Bound, Reached
    <3>5. Agreed(t, server, ms) /\ Beaten(t, server, ms)
      <4> HIDE DEF ms
      <4> QED
        BY <1>7, <3>2 DEF Bound, Agreed, Beaten
    <3> QED
      BY <3>4, <3>5 DEF Bound
  <2> HIDE DEF server, ms
  <2> QED
    BY <1>1, <1>2, <1>3, <1>5, <1>8, <1>9, <2>1, ClientCalled DEF server
<1>10. ASSUME h = "server"
       PROVE  Alive(sess', net')
  <2> DEFINE client == sess["client"]
  <2>1. ASSUME Lives(client), Lives(t)
        PROVE  Bound(client, t, ms)
    <3>1. Bound(client, s, net)
      BY <1>3, <1>10, <2>1 DEF Alive, s
    <3> HIDE DEF client
    <3>2. Bound(client, s, ms)
      BY <1>5, <3>1, BoundMore
    <3> HIDE DEF ms
    <3> QED
      BY <1>7, <3>2 DEF Bound, Agreed, Beaten, Reached
  <2>2. Heeds(t, ms)
    <3>1. Heeds(s, net)
      BY <1>3, <1>10 DEF Alive, s
    <3>2. ASSUME NEW m \in ms, Echo(m, s.key), m \notin net
          PROVE  s.idle = 0
      <4>1. PICK i \in DOMAIN t.outgoing : m.datagram = t.outgoing[i]
        BY <1>5, <3>2, SentIs
      <4>2. CASE Owes(s)
        BY <3>1, <4>2 DEF Heeds
      <4>3. CASE ~Owes(s)
        <5>1. s.mode = "Server"
          BY <1>3, <1>10, HostsAre
        <5>2. t.outgoing \in Seq(Data(s.key))
          BY <1>6, <4>3, <5>1 DEF Ticks, Owes
        <5>3. m.datagram \in Data(s.key)
          BY <4>1, <5>2
        <5>4. m.datagram.op = "Contextual" /\ m.datagram.packets[1].op = "ReliableData"
          BY <5>3 DEF Data, Contextual
        <5> QED
          BY <3>2, <5>4 DEF Echo
      <4> QED
        BY <4>2, <4>3
    <3> HIDE DEF ms
    <3> QED
      BY <1>7, <3>1, <3>2, StillHeeds
  <2>3. \A i \in DOMAIN t.outgoing : t.outgoing[i].op # "Unreliable"
    BY <1>2
  <2> HIDE DEF client, ms
  <2> QED
    BY <1>1, <1>2, <1>3, <1>5, <1>8, <1>10, <2>1, <2>2, <2>3, ServerCalled
       DEF client
<1> QED
  BY <1>9, <1>10 DEF Host

\* When a unit of time passes the link has nothing under way and nobody owes
\* anything: the client has then heard lately, and the server no longer ago.
LEMMA RoundBound ==
    ASSUME ConnInv, Alive(sess, net), Round,
           Lives(sess["client"]), Lives(sess["server"])
    PROVE  /\ sess["client"].key = sess["server"].key
           /\ sess["client"].idle <= HeartbeatAfter
           /\ sess["server"].idle <= sess["client"].idle
<1> DEFINE client == sess["client"]
           server == sess["server"]
<1>1. net = {} /\ NothingDue
  BY DEF Round
<1>2. "client" \in Host /\ "server" \in Host
  BY DEF Host
<1>3. ~Owes(client)
  BY <1>1, <1>2 DEF NothingDue, Owes
<1>4. Bound(client, server, net)
  BY DEF Alive
<1>5. client.idle \in Nat /\ server.idle \in Nat /\ HeartbeatAfter \in Nat
  BY <1>2, LivesIs, SessionAssumption DEF SessionAssumption
<1> HIDE DEF client, server
<1>6. client.key = server.key
  BY <1>1, <1>4 DEF Bound, Agreed
<1>7. ~(client.idle > HeartbeatAfter)
  BY <1>1, <1>4, <1>6 DEF Bound, Beaten
<1>8. ~(server.idle > client.idle)
  BY <1>1, <1>3, <1>4, <1>6 DEF Bound, Reached
<1>9. client.idle <= HeartbeatAfter /\ server.idle <= client.idle
  BY <1>5, <1>7, <1>8
<1> QED
  BY <1>6, <1>9 DEF client, server

\* So neither times out.
LEMMA RoundHolds ==
    ASSUME ConnInv, Alive(sess, net), Round, Beating,
           Lives(sess["client"]), Lives(sess["server"]), NEW h \in Host
    PROVE  ~Inactive(Age(sess[h]))
<1>1. Live(h)
  BY LivesIs DEF Host
<1> DEFINE i == sess[h].idle
<1>2. Age(sess[h]).idle = Least(i + 1, MaxIdle)
  BY <1>1, AgeRests
<1>3. i \in Nat /\ i <= HeartbeatAfter
  <2>1. /\ sess["client"].idle <= HeartbeatAfter
        /\ sess["server"].idle <= sess["client"].idle
    BY RoundBound
  <2>2. sess["client"].idle \in Nat /\ sess["server"].idle \in Nat
    BY LivesIs DEF Host
  <2>3. HeartbeatAfter \in Nat
    BY SessionAssumption DEF SessionAssumption
  <2>4. sess["server"].idle <= HeartbeatAfter
    BY <2>1, <2>2, <2>3
  <2> QED
    BY <2>1, <2>2, <2>4 DEF Host
<1> HIDE DEF i
<1>4. /\ HeartbeatAfter \in Nat /\ InactivityTimeout \in Nat
      /\ HeartbeatAfter + 1 <= InactivityTimeout
  BY SessionAssumption DEF SessionAssumption, Beating
<1>5. MaxIdle \in Nat
  BY <1>4 DEF MaxIdle
<1>6. Least(i + 1, MaxIdle) <= i + 1 /\ Least(i + 1, MaxIdle) \in Nat
  BY <1>3, <1>5 DEF Least
<1>7. ~(Least(i + 1, MaxIdle) > InactivityTimeout)
  BY <1>3, <1>4, <1>6
<1> QED
  BY <1>2, <1>7 DEF Inactive

\* What both hosts send when a unit of time has passed.
LEMMA RoundSends ==
    ASSUME NEW after, Settle(after, {})
    PROVE  /\ \A m \in net' : \E h \in Host :
                 /\ m.to = Other(h)
                 /\ \E i \in DOMAIN after[h].outgoing :
                       m.datagram = after[h].outgoing[i]
           /\ \A h \in Host : \A i \in DOMAIN after[h].outgoing :
                 \E m \in net' : /\ m.to = Other(h)
                                 /\ m.datagram = after[h].outgoing[i]
<1>1. net' = UNION {Sent(h, after[h]) : h \in Host}
  BY DEF Settle
<1>2. ASSUME NEW m \in net'
      PROVE  \E h \in Host :
                 /\ m.to = Other(h)
                 /\ \E i \in DOMAIN after[h].outgoing :
                       m.datagram = after[h].outgoing[i]
  <2>1. PICK h \in Host : m \in Sent(h, after[h])
    BY <1>1
  <2> QED
    BY <2>1, SentIs
<1>3. ASSUME NEW h \in Host, NEW i \in DOMAIN after[h].outgoing
      PROVE  \E m \in net' : /\ m.to = Other(h)
                             /\ m.datagram = after[h].outgoing[i]
  <2>1. PICK m \in Sent(h, after[h]) :
            m.to = Other(h) /\ m.datagram = after[h].outgoing[i]
    BY SentIs
  <2>2. m \in net'
    BY <1>1
  <2> QED
    BY <2>1, <2>2
<1> QED
  BY <1>2, <1>3

LEMMA RoundAlive ==
    ASSUME ConnInv, Alive(sess, net), Round, Beating
    PROVE  Alive(sess', net')
<1> DEFINE after == [h \in Host |-> RoundSession(h)]
           client == after["client"]
           server == after["server"]
<1>1. Settle(after, {}) /\ NothingDue
  BY DEF Round, RoundSession
<1>2. "client" \in Host /\ "server" \in Host
  BY DEF Host
<1>3. after \in [Host -> Sessions \cup {NoSession}]
  BY RoundOf
<1>4. ASSUME NEW h \in Host
      PROVE  /\ after[h] = RoundSession(h)
             /\ \A i \in DOMAIN after[h].outgoing :
                   after[h].outgoing[i].op = "Contextual"
             /\ Lives(after[h]) =>
                   /\ Live(h) /\ Lives(sess[h])
                   /\ ~Inactive(Age(sess[h]))
                   /\ Ticks(after[h], Age(sess[h]))
                   /\ after[h].key = sess[h].key /\ ~Owes(after[h])
                   /\ after[h].idle = Age(sess[h]).idle
  <2>1. after[h] = RoundSession(h)
    OBVIOUS
  <2> HIDE DEF after
  <2>2. \A i \in DOMAIN after[h].outgoing : after[h].outgoing[i].op = "Contextual"
    BY <2>1, RoundOf
  <2>3. ASSUME Lives(after[h])
        PROVE  /\ Live(h) /\ Lives(sess[h])
               /\ ~Inactive(Age(sess[h]))
               /\ Ticks(after[h], Age(sess[h]))
               /\ after[h].key = sess[h].key /\ ~Owes(after[h])
               /\ after[h].idle = Age(sess[h]).idle
    <3>1. Live(h)
      <4>1. NoSession.state = "None"
        BY NoSessionIs
      <4> QED
        BY <2>1, <2>3, <4>1 DEF RoundSession, Lives, Live
    <3>2. ~Inactive(Age(sess[h]))
      <4>1. CASE Inactive(Age(sess[h]))
        <5>1. EndedAs(after[h], Age(sess[h]), "Timeout", FALSE)
          BY <2>1, <3>1, <4>1, RoundOf
        <5> QED
          BY <2>3, <5>1 DEF EndedAs, Lives
      <4> QED
        BY <4>1
    <3>3. Ticks(after[h], Age(sess[h]))
      BY <2>1, <3>1, <3>2, RoundOf
    <3>4. Same(Age(sess[h]), sess[h])
      BY <3>1, AgeRests
    <3>5. after[h].key = sess[h].key
      BY <3>3, <3>4 DEF Ticks, Same
    <3> QED
      BY <3>1, <3>2, <3>3, <3>5, LivesIs DEF Ticks, Owes
  <2> QED
    BY <2>1, <2>2, <2>3
<1> HIDE DEF after
<1>5. \A m \in net' : m.datagram.op = "Contextual"
  BY <1>1, <1>4, RoundSends
<1>6. ASSUME NEW h \in Host, Lives(after[h])
      PROVE  ~Inactive(after[h])
  BY <1>4, <1>6 DEF Inactive
<1>7. ASSUME Lives(server)
      PROVE  Heeds(server, net')
  <2>1. ASSUME NEW m \in net', Echo(m, server.key)
        PROVE  FALSE
    <3>1. PICK h \in Host : /\ m.to = Other(h)
                            /\ \E i \in DOMAIN after[h].outgoing :
                                  m.datagram = after[h].outgoing[i]
      BY <1>1, RoundSends
    <3>2. h = "server"
      BY <2>1, <3>1 DEF Echo, Host, Other
    <3> DEFINE a == Age(sess["server"])
    <3>3. Rests("server", a, log, requests, drawn) /\ a.inputs = sess["server"].inputs
      BY <1>2, <1>4, <1>7, AgeRests
    <3>4. Ticks(server, a)
      BY <1>2, <1>4, <1>7
    <3>5. \A ch \in Channels : ~a.inputs[ch].owed
      BY <1>1, <1>2, <3>3 DEF NothingDue
    <3> HIDE DEF a
    <3>6. a.mode = "Server"
      BY <1>2, <3>3, RestsIs, HostsAre
    <3>7. server.outgoing \in Seq(Data(a.key))
      BY <3>4, <3>5, <3>6 DEF Ticks
    <3>8. m.datagram \in Data(a.key)
      BY <3>1, <3>2, <3>7
    <3>9. m.datagram.op = "Contextual" /\ m.datagram.packets[1].op = "ReliableData"
      BY <3>8 DEF Data, Contextual
    <3> QED
      BY <2>1, <3>9 DEF Echo
  <2>2. ~Owes(server)
    BY <1>2, <1>4, <1>7
  <2> HIDE DEF server
  <2> QED
    BY <2>1, <2>2 DEF Heeds
<1>8. ASSUME Lives(client), Lives(server)
      PROVE  Bound(client, server, net')
  <2>1. Lives(sess["client"]) /\ Lives(sess["server"])
    BY <1>2, <1>4, <1>8
  <2>2. /\ sess["client"].key = sess["server"].key
        /\ sess["client"].idle <= HeartbeatAfter
        /\ sess["server"].idle <= sess["client"].idle
    BY <2>1, RoundBound
  <2> DEFINE a == Age(sess["client"])
             b == Age(sess["server"])
  <2>3. /\ client.key = sess["client"].key /\ server.key = sess["server"].key
        /\ client.idle = a.idle /\ server.idle = b.idle
        /\ Ticks(client, a) /\ Live("client") /\ Live("server")
    BY <1>2, <1>4, <1>8
  <2>4. client.key = server.key
    BY <2>2, <2>3
  <2>5. ~(server.idle > client.idle)
    <3> DEFINE i == sess["client"].idle
               j == sess["server"].idle
    <3>1. a.idle = Least(i + 1, MaxIdle) /\ b.idle = Least(j + 1, MaxIdle)
      BY <1>2, <2>3, AgeRests
    <3>2. i \in Nat /\ j \in Nat /\ j <= i
      BY <1>2, <2>2, <2>3, LivesIs
    <3>3. MaxIdle \in Nat
      BY SessionAssumption DEF SessionAssumption, MaxIdle
    <3> HIDE DEF i, j
    <3>4. ~(Least(j + 1, MaxIdle) > Least(i + 1, MaxIdle))
      BY <3>2, <3>3 DEF Least
    <3> HIDE DEF a, b
    <3> QED
      BY <2>3, <3>1, <3>4
  <2>6. ASSUME client.idle > HeartbeatAfter
        PROVE  \E m \in net' : m.datagram = Beat(server.key)
    <3>1. /\ Rests("client", a, log, requests, drawn)
          /\ Same(a, sess["client"])
      BY <1>2, <2>3, AgeRests
    <3>2. a.mode = "Client" /\ a.state = "Running" /\ a.key = server.key
      <4>1. server.key # NoKey
        BY <1>2, <2>1, <2>3, LivesIs
      <4>2. a.key = server.key
        BY <2>2, <2>3, <3>1 DEF Same
      <4>3. a.mode = Role("client") /\ (a.state = "Running" <=> a.key # NoKey)
        <5> HIDE DEF a
        <5> QED
          BY <1>2, <3>1, RestsIs
      <4> QED
        BY <4>1, <4>2, <4>3, HostsAre
    <3>3. HeartbeatAfter # 0
      BY DEF Beating
    <3> HIDE DEF a
    <3>4. HeartbeatDue(a)
      BY <2>3, <2>6, <3>2, <3>3 DEF HeartbeatDue
    <3>5. \E i \in DOMAIN client.outgoing : client.outgoing[i] = Beat(a.key)
      BY <2>3, <3>4 DEF Ticks
    <3> QED
      BY <1>1, <1>2, <3>2, <3>5, RoundSends
  <2> HIDE DEF client, server
  <2> QED
    BY <2>4, <2>5, <2>6 DEF Bound, Agreed, Beaten, Reached
<1>9. Alive(after, net')
  BY <1>5, <1>6, <1>7, <1>8 DEF Alive
<1> QED
  BY <1>1, <1>3, <1>9, SettleAlive

\* A datagram of a live link reaches its host.
Fresh == {"InOrder", "Fragment", "Ahead"}

\* What has arrived, of a datagram that a session hears.
LEMMA HeardIs ==
    ASSUME ConnInv, NEW m, NEW effects, NEW outcome, NEW key, NEW packet \in Heard,
           Arrives(m, outcome, effects), outcome = Contextual(key, packet)
    PROVE  /\ m.datagram.op = "Contextual" /\ m.datagram.key = key
           /\ m.datagram.packets[1].op = packet.op
           /\ packet.op = "ReliableData" =>
                 packet.effect \in effects /\ packet.channel \in Channels
           /\ m.datagram = Beat(key) => packet.op = "Heartbeat"
<1>1. outcome.op = "Contextual" /\ outcome.key = key /\ outcome.packets[1] = packet
  BY DEF Contextual
<1>2. PICK k \in 1 .. drawn, p \in Heard :
          /\ outcome = Contextual(k, p)
          /\ m.datagram.op = "Contextual" /\ m.datagram.key = k
          /\ m.datagram.packets[1].op = p.op
          /\ p.op = "ReliableData" => p.effect \in effects
  <2>1. CASE \E id \in 1 .. requests : outcome = SessionRequest(id)
    BY <1>1, <2>1 DEF SessionRequest
  <2>2. CASE \E id \in 1 .. requests, k \in 1 .. drawn :
                 outcome = SessionResponse(id, k)
    BY <1>1, <2>2 DEF SessionResponse
  <2>3. CASE \E k \in 1 .. drawn : outcome = Unreliable(k)
    BY <1>1, <2>3 DEF Unreliable
  <2>4. CASE \E k \in 1 .. drawn, p \in Heard :
          /\ outcome = Contextual(k, p)
          /\ m.datagram.op = "Contextual" /\ m.datagram.key = k
          /\ m.datagram.packets[1].op = p.op
          /\ p.op = "ReliableData" => p.effect \in effects
    BY <2>4
  <2> QED
    BY <2>1, <2>2, <2>3, <2>4 DEF Arrives
<1>3. k = key /\ p = packet
  BY <1>1, <1>2 DEF Contextual
<1>4. packet.op = "ReliableData" => packet.channel \in Channels
  BY DEF Heard
<1>5. m.datagram = Beat(key) => m.datagram.packets[1].op = "Heartbeat"
  BY DEF Beat, Contextual
<1> QED
  BY <1>2, <1>3, <1>4, <1>5

\* The handshake and best-effort data arrive as they were sent.
LEMMA SentArrives ==
    ASSUME NEW m, NEW effects, NEW outcome, Arrives(m, outcome, effects),
           outcome.op # "Contextual"
    PROVE  m.datagram = outcome
BY DEF Arrives, Contextual

\* What a client that takes a datagram is to its server.
LEMMA ClientTakes ==
    ASSUME ConnInv, Alive(sess, net), NEW m \in net, InTurn(m),
           m.to = "client", Live("client"),
           NEW outcome, Arrives(m, outcome, Fresh), NEW t,
           Answers("client", sess["client"], t, outcome),
           NEW ms, ms = (net \ {m}) \cup Sent("client", t), Lives(t)
    PROVE  /\ ~Inactive(t)
           /\ Lives(sess["server"]) => Bound(t, sess["server"], ms)
<1> DEFINE client == sess["client"]
           server == sess["server"]
<1>1. /\ HeartbeatAfter \in Nat /\ InactivityTimeout \in Nat
      /\ "client" \in Host /\ "server" \in Host
  BY SessionAssumption DEF SessionAssumption, Host
<1>2. /\ Lives(client) /\ client.key \in 0 .. drawn
      /\ (client.state = "Running" <=> client.key # NoKey)
  BY <1>1, LivesIs
<1>3. ASSUME Lives(server)
      PROVE  /\ server.key # NoKey /\ server.idle \in Nat
             /\ Bound(client, server, net) /\ Heeds(server, net)
  BY <1>1, <1>2, <1>3, LivesIs DEF Alive
<1>4. \A d \in net : d.to = "client" => d.datagram.op # "Unreliable"
  BY DEF Alive
<1> HIDE DEF client, server
<1>5. ASSUME t.idle = 0
      PROVE  ~Inactive(t) /\ ~(t.idle > HeartbeatAfter)
  BY <1>1, <1>5 DEF Inactive
<1>6. CASE Ends("client", client, t)
  BY <1>6 DEF Ends, EndedAs, Lives
<1>7. CASE Begins("client", client, t, outcome)
  BY <1>7 DEF Begins
<1>8. CASE Receives("client", client, t, outcome)
  <2>1. outcome.op = "Unreliable"
    BY <1>8 DEF Receives, Unreliable
  <2>2. m.datagram = outcome
    BY <2>1, SentArrives
  <2> QED
    BY <1>4, <2>1, <2>2
<1>9. CASE Agrees("client", client, t, outcome)
  <2>1. PICK id \in 1 .. requests, key \in 1 .. drawn :
            /\ client.state = "Negotiating"
            /\ outcome = SessionResponse(id, key) /\ Started(t, "Client", key)
    BY <1>9 DEF Agrees
  <2>2. t.key = key /\ t.idle = 0
    BY <2>1 DEF Started
  <2>3. /\ m.datagram = outcome /\ m.datagram.op = "SessionResponse"
        /\ m.datagram.key = key
    <3>1. outcome.op = "SessionResponse" /\ outcome.key = key
      BY <2>1 DEF SessionResponse
    <3> QED
      BY <3>1, SentArrives
  <2>4. ASSUME Lives(server)
        PROVE  Bound(t, server, ms)
    <3>1. t.key = server.key => server.idle = 0
      <4>1. ASSUME t.key = server.key
            PROVE  Echo(m, server.key)
        BY <2>2, <2>3, <4>1 DEF Echo
      <4> QED
        BY <1>3, <2>4, <4>1 DEF Heeds
    <3>2. client.key # server.key
      BY <1>2, <1>3, <2>1, <2>4
    <3>3. PICK d \in net : /\ Handshake(d)
                           /\ d.datagram.op = "SessionResponse" =>
                                 d.datagram.key = server.key
      BY <1>3, <2>4, <3>2 DEF Bound, Agreed
    <3>4. Agreed(t, server, ms)
      <4>1. CASE d = m
        BY <2>2, <2>3, <3>3, <4>1 DEF Agreed
      <4>2. CASE d # m
        BY <3>3, <4>2 DEF Agreed
      <4> QED
        BY <4>1, <4>2
    <3>5. ~(t.key = server.key /\ server.idle > t.idle)
      BY <2>2, <3>1
    <3> QED
      BY <1>5, <2>2, <3>4, <3>5 DEF Bound, Beaten, Reached
  <2> QED
    BY <1>5, <2>2, <2>4 DEF server
<1>10. CASE Hears("client", client, t, outcome)
  <2>1. PICK packet \in Heard :
            outcome = Contextual(client.key, packet) /\ Responds(t, client, packet)
    BY <1>10 DEF Hears
  <2>2. /\ packet.op # "Disconnect" /\ t.idle = 0 /\ t.key = client.key
        /\ Proper(t)
    <3>1. CASE packet.op = "Disconnect"
      BY <2>1, <3>1 DEF Responds, EndedAs, Lives
    <3> QED
      BY <2>1, <3>1 DEF Responds
  <2>3. /\ m.datagram.op = "Contextual" /\ m.datagram.key = client.key
        /\ m.datagram.packets[1].op = packet.op
        /\ packet.op = "ReliableData" =>
              packet.effect \in Fresh /\ packet.channel \in Channels
    BY <2>1, HeardIs
  <2>4. \A d \in net : ~Handshake(d)
    BY <2>3 DEF InTurn, Handshake
  <2>5. ASSUME Lives(server)
        PROVE  Bound(t, server, ms)
    <3>1. t.key = server.key
      BY <1>3, <2>2, <2>4, <2>5 DEF Bound, Agreed
    <3>2. CASE packet.op # "ReliableData"
      <4>1. Echo(m, server.key)
        BY <2>2, <2>3, <3>1, <3>2 DEF Echo
      <4>2. server.idle = 0
        BY <1>3, <2>5, <4>1 DEF Heeds
      <4> QED
        BY <1>5, <2>2, <3>1, <4>2 DEF Bound, Agreed, Beaten, Reached
    <3>3. CASE packet.op = "ReliableData"
      <4>1. CASE packet.effect \in {"InOrder", "Fragment"}
        <5>1. t.inputs[packet.channel].owed = TRUE /\ packet.channel \in Channels
          BY <2>1, <2>3, <3>3, <4>1 DEF Responds
        <5>2. Owes(t)
          BY <5>1 DEF Owes
        <5> QED
          BY <1>5, <2>2, <3>1, <5>2 DEF Bound, Agreed, Beaten, Reached
      <4>2. CASE packet.effect = "Ahead"
        <5>1. t.outgoing # <<>> /\ t.outgoing \in Seq(Replies(t))
          BY <2>1, <2>2, <3>3, <4>2 DEF Responds, Proper
        <5>2. 1 \in DOMAIN t.outgoing
          BY <5>1
        <5>3. PICK d \in Sent("client", t) :
                  d.to = Other("client") /\ d.datagram = t.outgoing[1]
          BY <5>2, SentIs
        <5>4. d.datagram.op = "Contextual" /\ d.datagram.key = t.key
          BY <2>2, <5>2, <5>3, ProperSays
        <5>5. Reaches(d, server.key)
          BY <3>1, <5>3, <5>4 DEF Reaches, Other
        <5>6. d \in ms
          OBVIOUS
        <5> QED
          BY <1>5, <2>2, <3>1, <5>5, <5>6 DEF Bound, Agreed, Beaten, Reached
      <4> QED
        BY <2>3, <3>3, <4>1, <4>2 DEF Fresh
    <3> QED
      BY <3>2, <3>3
  <2> QED
    BY <1>5, <2>2, <2>5 DEF server
<1> QED
  BY <1>6, <1>7, <1>8, <1>9, <1>10 DEF Answers, client

\* What a server that takes a datagram is to its client.
LEMMA ServerTakes ==
    ASSUME ConnInv, Alive(sess, net), NEW m \in net,
           m.to = "server",
           NEW outcome, Arrives(m, outcome, Fresh), NEW t, Flushed(t),
           \/ sess["server"] = NoSession
           \/ Live("server"),
           Answers("server", sess["server"], t, outcome),
           NEW ms, ms = (net \ {m}) \cup Sent("server", t)
    PROVE  /\ \A i \in DOMAIN t.outgoing : t.outgoing[i].op # "Unreliable"
           /\ Lives(t) => ~Inactive(t) /\ Heeds(t, ms)
           /\ Lives(t) /\ Lives(sess["client"]) => Bound(sess["client"], t, ms)
<1> DEFINE client == sess["client"]
           server == sess["server"]
<1>1. /\ HeartbeatAfter \in Nat /\ InactivityTimeout \in Nat
      /\ "client" \in Host /\ "server" \in Host /\ drawn \in Nat
      /\ requests \in Nat
  BY SessionAssumption, LivesIs DEF SessionAssumption, Host
<1>2. Lives(client) => client.key \in 0 .. drawn /\ client.idle \in Nat
  BY <1>1, LivesIs
<1>3. ASSUME Live("server")
      PROVE  /\ Lives(server) /\ server.state = "Running"
             /\ server.mode = "Server" /\ Flushed(server)
             /\ server.outgoing = <<>> /\ server \in Sessions
             /\ ~Inactive(server) /\ Heeds(server, net)
             /\ Lives(client) => Bound(client, server, net)
  <2>1. Lives(server) /\ server.mode = Role("server")
    BY <1>1, <1>3, LivesIs
  <2>2. ~Inactive(server) /\ Heeds(server, net)
    BY <1>1, <2>1 DEF Alive
  <2>3. Lives(client) => Bound(client, server, net)
    BY <2>1 DEF Alive
  <2>4. /\ server.state = "Running" /\ Flushed(server)
        /\ server.outgoing = <<>> /\ server \in Sessions
    BY <1>1, <1>3, LivesIs
  <2> QED
    BY <2>1, <2>2, <2>3, <2>4, HostsAre
<1>4. ASSUME t.idle = 0
      PROVE  ~Inactive(t) /\ Heeds(t, ms)
  BY <1>1, <1>4 DEF Inactive, Heeds
<1>5. ASSUME t.idle = 0, Lives(client)
      PROVE  Reached(client, t, ms)
  BY <1>2, <1>5 DEF Reached
<1> HIDE DEF client, server
<1>6. CASE server # NoSession /\ Ends("server", server, t)
  <2>1. Proper(t) /\ ~Lives(t)
    BY <1>6 DEF Ends, EndedAs, Lives
  <2>2. \A i \in DOMAIN t.outgoing : t.outgoing[i].op = "Contextual"
    BY <2>1, ProperSays
  <2> QED
    BY <2>1, <2>2
<1>7. CASE Begins("server", server, t, outcome)
  <2>1. PICK id \in 1 .. requests :
            /\ Started(t, "Server", drawn + 1)
            /\ t.outgoing = <<SessionResponse(id, drawn + 1)>>
    BY <1>7 DEF Begins
  <2>2. t.key = drawn + 1 /\ t.idle = 0
    BY <2>1 DEF Started
  <2>3. \A i \in DOMAIN t.outgoing : t.outgoing[i] = SessionResponse(id, drawn + 1)
    BY <2>1, OutgoingOf
  <2>4. \A i \in DOMAIN t.outgoing : t.outgoing[i].op = "SessionResponse"
    BY <2>3 DEF SessionResponse
  <2>5. ASSUME Lives(client)
        PROVE  Bound(client, t, ms)
    <3>1. client.key # t.key
      BY <1>1, <1>2, <2>2, <2>5
    <3>2. 1 \in DOMAIN t.outgoing
      BY <2>1
    <3>3. PICK d \in Sent("server", t) : d.datagram = t.outgoing[1]
      BY <3>2, SentIs
    <3>4. d.datagram.op = "SessionResponse" /\ d.datagram.key = t.key
      BY <2>2, <2>3, <3>2, <3>3 DEF SessionResponse
    <3>5. Handshake(d) /\ d \in ms
      BY <3>4 DEF Handshake
    <3>6. Agreed(client, t, ms)
      BY <3>4, <3>5 DEF Agreed
    <3> QED
      BY <3>1, <3>6 DEF Bound, Beaten, Reached
  <2> QED
    BY <1>4, <2>2, <2>4, <2>5 DEF client
<1>8. CASE Agrees("server", server, t, outcome)
  BY <1>8 DEF Agrees
\* The server is one that runs from here.
<1>9. ASSUME server.state = "Running"
      PROVE  Live("server")
  BY <1>9, NoSessionIs DEF server
\* What agrees keeps agreeing, unless the handshake is what it takes.
<1>10. ASSUME Live("server"), ~Handshake(m), t.key = server.key, Lives(client)
       PROVE  Agreed(client, t, ms)
  <2>1. Agreed(client, server, net)
    BY <1>3, <1>10 DEF Bound
  <2> QED
    BY <1>10, <2>1 DEF Agreed
<1>11. CASE Receives("server", server, t, outcome)
  <2>1. PICK key \in 1 .. drawn :
            /\ server.state = "Running" /\ outcome = Unreliable(key)
            /\ TakesBestEffort(t, server, key)
    BY <1>11 DEF Receives
  <2>2. Live("server") /\ Proper(t) /\ t.key = server.key
    BY <1>9, <2>1 DEF TakesBestEffort, Same
  <2>3. \A i \in DOMAIN t.outgoing : t.outgoing[i].op = "Contextual"
    BY <2>2, ProperSays
  <2>4. m.datagram.op = "Unreliable" /\ m.datagram.key = key /\ ~Handshake(m)
    <3>1. outcome.op = "Unreliable" /\ outcome.key = key
      BY <2>1 DEF Unreliable
    <3> QED
      BY <3>1, SentArrives DEF Handshake
  <2>5. m.datagram # Beat(server.key)
    BY <2>4 DEF Beat, Contextual
  <2>6. ASSUME Lives(client)
        PROVE  Agreed(client, t, ms) /\ Beaten(client, t, ms)
    <3>1. Beaten(client, server, net)
      BY <1>3, <2>2, <2>6 DEF Bound
    <3>2. Beaten(client, t, ms)
      BY <2>2, <2>5, <3>1 DEF Beaten
    <3> QED
      BY <1>10, <2>2, <2>4, <2>6, <3>2
  <2>7. CASE key = server.key
    <3>1. t.idle = 0
      BY <2>1, <2>7 DEF TakesBestEffort
    <3> QED
      BY <1>4, <1>5, <2>3, <2>6, <3>1 DEF Bound, client
  <2>8. CASE key # server.key
    <3>1. /\ t.idle = server.idle /\ t.outgoing = server.outgoing \o FlushedOut(server)
          /\ \A ch \in Channels : t.inputs[ch].owed = server.inputs[ch].owed
      BY <2>1, <2>8 DEF TakesBestEffort
    <3>2. t.outgoing = <<>>
      <4>1. FlushedOut(server) = <<>>
        BY <1>3, <2>2, FlushBrings
      <4> QED
        BY <1>3, <2>2, <3>1, <4>1
    <3>3. Sent("server", t) = {}
      BY <3>2 DEF Sent
    <3>4. ms \subseteq net
      BY <3>3
    <3>5. Heeds(t, ms) /\ ~Inactive(t)
      BY <1>3, <2>2, <3>1, <3>4 DEF Heeds, Owes, Inactive
    <3>6. ASSUME Lives(client)
          PROVE  Reached(client, t, ms)
      <4>1. Reached(client, server, net)
        BY <1>3, <2>2, <3>6 DEF Bound
      <4>2. ~Reaches(m, server.key)
        BY <2>4, <2>8 DEF Reaches
      <4>3. \A d \in net : Reaches(d, server.key) => d \in ms
        BY <4>2
      <4> QED
        BY <2>2, <3>1, <4>1, <4>3 DEF Reached
    <3> QED
      BY <2>3, <2>6, <3>5, <3>6 DEF Bound, client
  <2> QED
    BY <2>7, <2>8
<1>12. CASE Hears("server", server, t, outcome)
  <2>1. PICK packet \in Heard :
            /\ server.state = "Running"
            /\ outcome = Contextual(server.key, packet)
            /\ Responds(t, server, packet)
    BY <1>12 DEF Hears
  <2>2. Live("server") /\ Proper(t) /\ t.key = server.key
    BY <1>9, <2>1 DEF Responds
  <2>3. \A i \in DOMAIN t.outgoing : t.outgoing[i].op = "Contextual"
    BY <2>2, ProperSays
  <2>4. CASE packet.op = "Disconnect"
    <3>1. ~Lives(t)
      BY <2>1, <2>4 DEF Responds, EndedAs, Lives
    <3> QED
      BY <2>3, <3>1
  <2>5. CASE packet.op # "Disconnect"
    <3>1. t.idle = 0
      BY <2>1, <2>5 DEF Responds
    <3>2. /\ m.datagram.op = "Contextual"
          /\ m.datagram = Beat(server.key) => packet.op = "Heartbeat"
      BY <2>1, HeardIs
    <3>3. ~Handshake(m)
      BY <3>2 DEF Handshake
    <3>4. ASSUME Lives(client)
          PROVE  Beaten(client, t, ms)
      <4>1. Beaten(client, server, net)
        BY <1>3, <2>2, <3>4 DEF Bound
      <4>2. ASSUME m.datagram = Beat(server.key)
            PROVE  \E d \in ms : d.datagram = Beat(server.key)
        <5>1. packet.op = "Heartbeat" /\ server.mode = "Server"
          BY <1>3, <2>2, <3>2, <4>2
        <5>2. PICK i \in DOMAIN t.outgoing : t.outgoing[i] = Beat(server.key)
          BY <2>1, <5>1 DEF Responds
        <5>3. PICK d \in Sent("server", t) : d.datagram = t.outgoing[i]
          BY SentIs
        <5> QED
          BY <5>2, <5>3
      <4> QED
        BY <2>2, <4>1, <4>2 DEF Beaten
    <3> QED
      BY <1>4, <1>5, <1>10, <2>2, <2>3, <3>1, <3>3, <3>4 DEF Bound, client
  <2> QED
    BY <2>4, <2>5
<1> QED
  BY <1>6, <1>7, <1>8, <1>11, <1>12 DEF Answers, server

LEMMA DeliverAlive ==
    ASSUME ConnInv, Alive(sess, net), NEW m \in net, InTurn(m), DeliverNew(m)
    PROVE  Alive(sess', net')
<1> DEFINE h == m.to
           begun == Begun(h, m.datagram)
           left == net \ {m}
<1>1. PICK outcome \in Outcomes(m.datagram, Fresh, {1}) : Deliver(m, outcome, left)
  BY DEF DeliverNew, Fresh
<1> DEFINE t == ProcessIncoming(begun, outcome, drawn + 1)
           d == DrawnBy(t, begun)
<1>2. Fresh \in SUBSET (Effects \ {"Malformed"}) /\ {1} \in SUBSET Nat
  BY ChannelChoices DEF Fresh
<1>3. left \in SUBSET net
  OBVIOUS
<1>4. CASE begun.state = "None"
  <2>1. net' = left /\ sess' = sess
    BY <1>1, <1>4 DEF Deliver
  <2>2. h \in Host /\ ~Lives(sess[h])
    <3>1. h \in Host
      BY DEF ConnInv, Consistent, Allowed
    <3>2. begun = New("Server") \/ begun = sess[h]
      BY DEF Begun
    <3>3. New("Server").state # "None"
      BY NewIs
    <3> QED
      BY <1>4, <3>1, <3>2, <3>3 DEF Lives
  <2>3. ~(Lives(sess["client"]) /\ Lives(sess["server"]))
    BY <2>2 DEF Host
  <2>4. Lives(sess["server"]) => Heeds(sess["server"], left)
    BY <1>3 DEF Alive, Heeds
  <2>5. Alive(sess, left)
    BY <1>3, <2>3, <2>4 DEF Alive
  <2> QED
    BY <2>1, <2>5
<1>5. CASE begun.state # "None"
  <2>1. Settle([sess EXCEPT ![h] = t], left)
    BY <1>1, <1>5 DEF Deliver
  <2>2. /\ Called(h, t, log, requests, d)
        /\ d = drawn \/ d = drawn + 1
    BY <1>2, <1>5, DeliverCalled
  <2>3. /\ h \in Host /\ Arrives(m, outcome, Fresh)
        /\ Answers(h, sess[h], t, outcome) /\ Flushed(t)
        /\ \/ sess[h] = NoSession /\ Begins(h, sess[h], t, outcome)
           \/ sess[h].state # "None"
    BY <1>2, <1>5, DeliverAnswers
  <2> HIDE DEF d, t, begun
  <2>4. /\ requests \in Nat /\ d \in Nat /\ requests <= requests /\ drawn <= d
    <3>1. requests \in Nat /\ drawn \in Nat
      BY InUse
    <3> QED
      BY <2>2, <3>1
  <2> DEFINE ms == left \cup Sent(h, t)
  <2>5. ms = left \cup Sent(h, t) /\ ms = (net \ {m}) \cup Sent(h, t)
    OBVIOUS
  <2>6. CASE h = "client"
    <3>1. Live("client")
      BY <2>3, <2>6 DEF Begins, Live
    <3> HIDE DEF ms
    <3>2. ASSUME Lives(t)
          PROVE  /\ ~Inactive(t)
                 /\ Lives(sess["server"]) => Bound(t, sess["server"], ms)
      BY <2>3, <2>5, <2>6, <3>1, <3>2, ClientTakes
    <3> HIDE DEF left, h
    <3> QED
      BY <1>3, <2>1, <2>2, <2>4, <2>5, <2>6, <3>2, ClientCalled
  <2>7. CASE h = "server"
    <3>1. sess["server"] = NoSession \/ Live("server")
      BY <2>3, <2>7 DEF Live
    <3> HIDE DEF ms
    <3>2. /\ \A i \in DOMAIN t.outgoing : t.outgoing[i].op # "Unreliable"
          /\ Lives(t) => ~Inactive(t) /\ Heeds(t, ms)
          /\ Lives(t) /\ Lives(sess["client"]) => Bound(sess["client"], t, ms)
      BY <2>3, <2>5, <2>7, <3>1, ServerTakes
    <3> HIDE DEF left, h
    <3> QED
      BY <1>3, <2>1, <2>2, <2>4, <2>5, <2>7, <3>2, ServerCalled
  <2> QED
    BY <2>3, <2>6, <2>7 DEF Host
<1> QED
  BY <1>4, <1>5

-----------------------------------------------------------------------------
(* Which sessions time out on a live link. *)

LEMMA LiveNextAlive ==
    ASSUME ConnInv, Alive(sess, net), LiveNext, Beating
    PROVE  Alive(sess', net')
<1>1. CASE Connect
  BY <1>1, ConnectAlive
<1>2. ASSUME NEW h \in Host, Enqueue(h)
      PROVE  Alive(sess', net')
  BY <1>2, EnqueueAlive
<1>3. ASSUME NEW h \in Host, Close(h)
      PROVE  Alive(sess', net')
  BY <1>3, CloseAlive
<1>4. ASSUME NEW h \in Host, Tick(h)
      PROVE  Alive(sess', net')
  BY <1>4, TickAlive
<1>5. CASE SendBestEffort("client")
  BY <1>5, BestEffortAlive
<1>6. CASE Round
  BY <1>6, RoundAlive
<1>7. ASSUME NEW m \in net, InTurn(m), DeliverNew(m)
      PROVE  Alive(sess', net')
  BY <1>7, DeliverAlive
<1> QED
  BY <1>1, <1>2, <1>3, <1>4, <1>5, <1>6, <1>7 DEF LiveNext

\* LiveInv is inductive beside ConnInv.
LEMMA StaysAlive ==
    ASSUME ConnInv, LiveInv, [Next]_vars, Beating
    PROVE  LiveInv'
<1>1. link' = link
  BY DEF Next, vars
<1>2. CASE link = "live"
  <2>1. Alive(sess, net)
    BY <1>2 DEF LiveInv
  <2>2. CASE UNCHANGED vars
    BY <2>1, <2>2 DEF vars, LiveInv, Alive
  <2>3. CASE Next
    <3>1. LiveNext
      BY <1>2, <2>3 DEF Next
    <3> QED
      BY <2>1, <3>1, LiveNextAlive DEF LiveInv
  <2> QED
    BY <2>2, <2>3
<1>3. CASE link # "live"
  BY <1>1, <1>3 DEF LiveInv
<1> QED
  BY <1>2, <1>3

LEMMA BeginsAlive == Init => LiveInv
<1> SUFFICES ASSUME Init
             PROVE  Alive(sess, net)
  BY DEF LiveInv
<1>1. net = {} /\ \A h \in Host : sess[h] = NoSession
  BY DEF Init
<1>2. \A h \in Host : ~Lives(sess[h])
  BY <1>1, NoSessionIs DEF Lives
<1>3. "client" \in Host /\ "server" \in Host
  BY DEF Host
<1> QED
  BY <1>1, <1>2, <1>3 DEF Alive

\* On a live link a session that times out leaves none behind,
LEMMA HoldsAlive ==
    ASSUME ConnInv, LiveInv, [Next]_vars, Beating, link = "live",
           NEW h \in Host, TimesOut(h)
    PROVE  ~Live(Other(h))
<1>1. Alive(sess, net)
  BY DEF LiveInv
<1>2. Expires(h)
  BY ConnNext
<1>3. CASE Tick(h) /\ Inactive(sess[h])
  <2>1. Lives(sess[h])
    BY <1>3, LivesIs DEF Tick
  <2> QED
    BY <1>1, <1>3, <2>1 DEF Alive
<1>4. ASSUME Round, Live(h), Inactive(Age(sess[h])), Live(Other(h))
      PROVE  FALSE
  <2>1. Lives(sess[h]) /\ Lives(sess[Other(h)]) /\ Other(h) \in Host
    BY <1>4, LivesIs, HostsAre
  <2>2. Lives(sess["client"]) /\ Lives(sess["server"])
    BY <2>1 DEF Host, Other
  <2> QED
    BY <1>1, <1>4, <2>2, RoundHolds
<1> QED
  BY <1>2, <1>3, <1>4 DEF Expires

\* nor does any session time out if none may.
LEMMA NoneExpires ==
    ASSUME ConnInv, [Next]_vars, InactivityTimeout = 0, NEW h \in Host
    PROVE  ~TimesOut(h)
<1>1. TimesOut(h) => Expires(h)
  BY ConnNext
<1>2. ~Expires(h)
  BY DEF Expires, Inactive
<1> QED
  BY <1>1, <1>2

\* The timeouts that a live link bears: none, or one that comes after a
\* heartbeat is due (25 s and 30 s by default, src/constants.rs).
KeepAlive == InactivityTimeout = 0 \/ Beating

\* Of two sessions on a live link neither times out, whatever the application
\* of either sends, when it closes and however the datagrams overtake one
\* another: an idle client's heartbeats and their echoes keep both alive.
THEOREM LinkHolds ==
    ASSUME KeepAlive
    PROVE  Spec => LiveLinkHolds
<1>1. CASE InactivityTimeout = 0
  <2>1. ConnInv /\ [Next]_vars =>
            [\A h \in Host : (link = "live" /\ TimesOut(h)) =>
                                 ~Live(Other(h))]_vars
    BY <1>1, NoneExpires
  <2> QED
    BY <2>1, ConnSafe, PTL DEF Spec, LiveLinkHolds
<1>2. CASE Beating
  <2>1. Init => ConnInv /\ LiveInv
    BY ConnInit, BeginsAlive
  <2>2. (ConnInv /\ LiveInv) /\ [Next]_vars => (ConnInv /\ LiveInv)'
    BY <1>2, ConnNext, StaysAlive
  <2>3. (ConnInv /\ LiveInv) /\ [Next]_vars =>
            [\A h \in Host : (link = "live" /\ TimesOut(h)) =>
                                 ~Live(Other(h))]_vars
    BY <1>2, HoldsAlive
  <2> QED
    BY <2>1, <2>2, <2>3, PTL DEF Spec, LiveLinkHolds
<1> QED
  BY <1>1, <1>2 DEF KeepAlive
=============================================================================
