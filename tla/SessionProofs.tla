---------------------------- MODULE SessionProofs ----------------------------
(***************************************************************************)
(* What the operators of Session make of a sound session, one lemma for    *)
(* each method of SoeSession: for every number of reliable channels,       *)
(* window, heartbeat, timeout and set of seeds, whatever a remote sends.   *)
(* The proofs about one session, and about a multiplexer with many, rest   *)
(* on them.                                                                *)
(***************************************************************************)
EXTENDS Session, SequenceTheorems, WellFoundedInduction, TLAPS

-----------------------------------------------------------------------------
(* Sessions. *)

Reasons == {"None", "Application", "CorruptPacket", "ConnectError", "Timeout",
            "ConnectingToSelf", "ProtocolMismatch", "UnreachableConnection"}

Carried ==
    [op : {"Heartbeat"}]
    \cup [op : {"Acknowledge", "AcknowledgeAll"}, channel : Channels,
          covers : {0}]
    \cup [op : {"ReliableData"}, channel : Channels, effect : {"Dropped"}]

\* What a session sends of its channels, and its heartbeats.
Words(key) == {Contextual(key, packet) : packet \in Carried}

\* What a session sends, but for its Disconnect.
Quiet ==
    {SessionRequest(id) : id \in Ids}
    \cup {SessionResponse(id, key) : id \in Ids, key \in Keys}
    \cup {Unreliable(key) : key \in Seeds}
    \cup {Contextual(key, packet) : key \in Seeds, packet \in Carried}

Notices ==
    {Contextual(key, [op |-> "Disconnect", reason |-> reason]) :
        key \in Seeds, reason \in Reasons}

Inputs == [acks : Seq({"Acknowledge", "AcknowledgeAll"}), app : Nat,
           owed : BOOLEAN]

Outputs == [queued : Nat, sent : Nat, ready : Nat, overdue : BOOLEAN]

Sessions ==
    [mode : {"Client", "Server"},
     state : {"Negotiating", "Running", "Terminated"},
     key : Seeds, id : Ids \cup {NoId}, openOnNextPacket : BOOLEAN,
     idle : 0 .. MaxIdle, reason : Reasons, byRemote : BOOLEAN,
     inputs : [Channels -> Inputs], outputs : [Channels -> Outputs],
     outgoing : Seq(Quiet \cup Notices), received : Seq(0 .. ChannelCount),
     events : Seq({"Opened", "Closed"})]

Effects == {"InOrder", "Fragment", "Ahead", "Nudged", "Dropped", "Malformed"}
Bodies == {"Matching", "Mismatched", "Malformed"}

\* What a remote may send.
Arrivals ==
    [op : {"Disconnect"}, reason : Reasons]
    \cup [op : {"Heartbeat", "Malformed", "Other"}]
    \cup [op : {"ReliableData"}, channel : Channels, effect : Effects]
    \cup [op : {"Acknowledge", "AcknowledgeAll"}, channel : Channels,
          covers : Nat]

Incoming ==
    [op : {"SessionRequest"}, id : Ids, body : Bodies]
    \cup [op : {"SessionResponse"}, id : Ids, key : Keys, body : Bodies]
    \cup [op : {"Short", "UnknownSender", "RemapConnection"}]
    \cup [op : {"Unreliable"}, key : Seeds, known : BOOLEAN]
    \cup [op : {"Contextual"}, key : Seeds, packets : Seq(Arrivals)]

\* No channel holds anything that waits for a flush.
Flushed(s) ==
    \A ch \in Channels : /\ s.inputs[ch].acks = <<>>
                         /\ s.inputs[ch].app = 0
                         /\ s.outputs[ch].ready = 0

\* A window never holds more than was queued, or than it may.
WindowsHold(s) ==
    \A ch \in Channels : /\ s.outputs[ch].sent <= s.outputs[ch].queued
                         /\ s.outputs[ch].sent <= Window

\* A session's events are those since its caller last took them. What its
\* application heard before: "Open" if it heard Opened; else nothing, or, where
\* packets of a session that negotiates are accepted, data ("Lax").
Pasts == {"Fresh", "Lax", "Open"}

Opened(past, s) ==
    past = "Open" \/ s.events \in {<<"Opened">>, <<"Opened", "Closed">>}

\* The events that go with each state.
Told(past, s) ==
    /\ s.state = "Negotiating" => /\ past # "Open" /\ s.events = <<>>
                                  /\ s.openOnNextPacket = FALSE
                                  /\ s.key = NoKey
    /\ s.state = "Running" =>
          \/ /\ past # "Open" /\ s.events = <<>>
             /\ s.openOnNextPacket = TRUE
          \/ /\ past # "Open" /\ s.events = <<"Opened">>
             /\ s.openOnNextPacket = FALSE
          \/ /\ past = "Open" /\ s.events = <<>>
             /\ s.openOnNextPacket = FALSE
    /\ s.state = "Terminated" =>
          \/ s.events = <<"Closed">>
          \/ past # "Open" /\ s.events = <<"Opened", "Closed">>

\* Data may surface.
Entitled(past, s) == Opened(past, s) \/ (past = "Lax" /\ s.key = NoKey)

Surfacing(s) ==
    s.received # <<>> \/ \E ch \in Channels : s.inputs[ch].app # 0

\* Nothing but the last thing that an ended session sends is a Disconnect.
LastWords(s) ==
    IF s.state = "Terminated"
    THEN /\ Flushed(s)
         /\ \E quiet \in Seq(Quiet) :
               \/ s.outgoing = quiet
               \/ \E notice \in Notices : s.outgoing = Append(quiet, notice)
    ELSE s.outgoing \in Seq(Quiet)

Sound(past, s) ==
    /\ s \in Sessions
    /\ WindowsHold(s)
    /\ Told(past, s)
    /\ Surfacing(s) => Entitled(past, s)
    /\ LastWords(s)

\* What becomes of a session's events.
LEMMA EventSequences ==
    /\ Append(<<>>, "Opened") = <<"Opened">>
    /\ Append(<<>>, "Closed") = <<"Closed">>
    /\ Append(<<"Opened">>, "Closed") = <<"Opened", "Closed">>
    /\ <<>> \in Seq({"Opened", "Closed"})
    /\ <<"Opened">> \in Seq({"Opened", "Closed"})
    /\ <<"Closed">> \in Seq({"Opened", "Closed"})
    /\ <<"Opened", "Closed">> \in Seq({"Opened", "Closed"})
    /\ <<"Opened">> # <<>>
<1>1. /\ Append(<<>>, "Opened") = <<"Opened">>
      /\ Append(<<>>, "Closed") = <<"Closed">>
  OBVIOUS
<1>2. Append(<<"Opened">>, "Closed") = <<"Opened", "Closed">>
  <2> DEFINE T == {"Opened", "Closed"}
             told == Append(<<"Opened">>, "Closed")
             both == <<"Opened", "Closed">>
  <2>1. <<"Opened">> \in Seq(T) /\ "Closed" \in T /\ both \in Seq(T)
    OBVIOUS
  <2>2. Len(both) = 2 /\ both[1] = "Opened" /\ both[2] = "Closed"
    OBVIOUS
  <2>3. Len(<<"Opened">>) = 1 /\ <<"Opened">>[1] = "Opened"
    OBVIOUS
  <2> HIDE DEF T
  <2>4. /\ told \in Seq(T) /\ Len(told) = 2
        /\ told[1] = "Opened" /\ told[2] = "Closed"
    BY <2>1, <2>3
  <2> HIDE DEF told, both
  <2>5. \A i \in 1 .. Len(told) : told[i] = both[i]
    BY <2>2, <2>4
  <2>6. told = both
    BY <2>1, <2>2, <2>4, <2>5
  <2> QED
    BY <2>6 DEF told, both
<1>3. /\ <<>> \in Seq({"Opened", "Closed"})
      /\ <<"Opened">> \in Seq({"Opened", "Closed"})
      /\ <<"Closed">> \in Seq({"Opened", "Closed"})
      /\ <<"Opened", "Closed">> \in Seq({"Opened", "Closed"})
  OBVIOUS
<1>4. <<"Opened">> # <<>>
  OBVIOUS
<1> QED
  BY <1>1, <1>2, <1>3, <1>4

-----------------------------------------------------------------------------
(* Sequences of sequences. *)

\* Induction, for a set of natural numbers.
LEMMA NatSetInduction ==
    ASSUME NEW S, 0 \in S, \A k \in Nat : k \in S => k + 1 \in S
    PROVE  Nat \subseteq S
<1> DEFINE T == Nat \ S
           R == {pair \in Nat \X Nat : pair[1] < pair[2]}
<1>1. SUFFICES ASSUME T # {} PROVE FALSE
  OBVIOUS
<1>2. IsWellFoundedOn(R, Nat)
  BY NatLessThanWellFounded, Zenon DEF OpToRel
<1>3. T \subseteq Nat
  OBVIOUS
<1> HIDE DEF R, T
<1>4. PICK x \in T : \A y \in T : ~(<<y, x>> \in R)
  BY <1>1, <1>2, <1>3, WFMin
<1>5. x \in Nat /\ x \notin S /\ x > 0
  BY <1>4 DEF T
<1>6. x - 1 \in Nat /\ (x - 1) + 1 = x
  BY <1>5
<1>7. x - 1 \in T
  BY <1>5, <1>6 DEF T
<1>8. <<x - 1, x>> \in R
  BY <1>5, <1>6 DEF R
<1> QED
  BY <1>4, <1>7, <1>8

LEMMA FunctionIsSequence ==
    ASSUME NEW T, NEW n \in Nat, NEW f \in [1 .. n -> T]
    PROVE  f \in Seq(T)
OBVIOUS

Join(s, t) == s \o t

\* FlattenSeq's recursive definition does define every prefix's concatenation.
LEMMA FlattenSteps ==
    ASSUME NEW seqs, Len(seqs) \in Nat \ {0}
    PROVE  \E f : /\ f[1] = seqs[1]
                  /\ \A i \in 2 .. Len(seqs) : f[i] = Join(f[i - 1], seqs[i])
                  /\ FlattenSeq(seqs) = f[Len(seqs)]
<1> DEFINE n == Len(seqs)
           Body(g, m) == [i \in 1 .. m |->
                             IF i = 1 THEN seqs[i] ELSE Join(g[i - 1], seqs[i])]
           S == {m \in Nat : \E g : g = Body(g, m)}
<1> HIDE DEF n
<1>1. 0 \in S
  <2> DEFINE g == [i \in 1 .. 0 |-> seqs]
  <2>1. g = Body(g, 0)
    OBVIOUS
  <2> QED
    BY <2>1
<1>2. ASSUME NEW m \in Nat, m \in S
      PROVE  m + 1 \in S
  <2>1. PICK g : g = Body(g, m)
    BY <1>2
  <2> DEFINE h == [i \in 1 .. m + 1 |->
                      IF i <= m THEN g[i]
                      ELSE IF i = 1 THEN seqs[i] ELSE Join(g[m], seqs[m + 1])]
  <2>2. \A i \in 1 .. m : h[i] = g[i]
    OBVIOUS
  <2>3. ASSUME NEW i \in 1 .. m + 1
        PROVE  h[i] = Body(h, m + 1)[i]
    <3>1. CASE i = 1
      <4>1. CASE m = 0
        BY <3>1, <4>1
      <4>2. CASE m # 0
        <5>1. g[1] = seqs[1] /\ h[1] = g[1]
          BY <4>2, <2>1, <2>2
        <5> QED
          BY <5>1, <3>1
      <4> QED
        BY <4>1, <4>2
    <3>2. CASE i \in 2 .. m
      <4>1. g[i] = Join(g[i - 1], seqs[i])
        BY <3>2, <2>1
      <4>2. h[i - 1] = g[i - 1] /\ h[i] = g[i]
        BY <3>2, <2>2
      <4> QED
        BY <4>1, <4>2, <3>2
    <3>3. CASE i = m + 1 /\ i # 1
      <4>1. h[i - 1] = g[m]
        BY <3>3, <2>2
      <4> QED
        BY <4>1, <3>3
    <3> QED
      BY <3>1, <3>2, <3>3
  <2>4. h = Body(h, m + 1)
    BY <2>3
  <2> HIDE DEF h
  <2> QED
    BY <2>4
<1>3. n \in S
  <2>1. n \in Nat
    BY DEF n
  <2> HIDE DEF S
  <2> QED
    BY <1>1, <1>2, <2>1, NatSetInduction
<1>4. PICK g : g = Body(g, n)
  BY <1>3
<1> DEFINE f[i \in 1 .. n] ==
               IF i = 1 THEN seqs[i] ELSE Join(f[i - 1], seqs[i])
<1>5. f = Body(f, n)
  BY <1>4
<1>6. FlattenSeq(seqs) = f[n]
  BY DEF FlattenSeq, Join, n
<1> HIDE DEF f
<1>7. /\ f[1] = seqs[1]
      /\ \A i \in 2 .. n : f[i] = Join(f[i - 1], seqs[i])
  <2>1. n \in Nat \ {0}
    BY DEF n
  <2> QED
    BY <1>5, <2>1
<1> QED
  BY <1>6, <1>7 DEF n

\* Flattening brings in nothing new.
LEMMA FlattenType ==
    ASSUME NEW T, NEW seqs, Len(seqs) \in Nat \ {0},
           \A i \in 1 .. Len(seqs) : seqs[i] \in Seq(T)
    PROVE  FlattenSeq(seqs) \in Seq(T)
<1>1. PICK f : /\ f[1] = seqs[1]
               /\ \A i \in 2 .. Len(seqs) : f[i] = Join(f[i - 1], seqs[i])
               /\ FlattenSeq(seqs) = f[Len(seqs)]
  BY FlattenSteps
<1> DEFINE S == {i \in Nat : i \in 1 .. Len(seqs) => f[i] \in Seq(T)}
<1>2. 0 \in S
  OBVIOUS
<1>3. ASSUME NEW i \in Nat, i \in S
      PROVE  i + 1 \in S
  <2>1. SUFFICES ASSUME i + 1 \in 1 .. Len(seqs)
                 PROVE  f[i + 1] \in Seq(T)
    OBVIOUS
  <2>2. CASE i = 0
    BY <2>1, <2>2, <1>1
  <2>3. CASE i # 0
    <3>1. i + 1 \in 2 .. Len(seqs) /\ i \in 1 .. Len(seqs)
      BY <2>1, <2>3
    <3>2. f[i + 1] = Join(f[(i + 1) - 1], seqs[i + 1])
      BY <3>1, <1>1
    <3>4. (i + 1) - 1 = i
      BY <2>1
    <3>3. f[i] \in Seq(T) /\ seqs[i + 1] \in Seq(T)
      BY <3>1, <1>3
    <3> QED
      BY <3>2, <3>3, <3>4 DEF Join
  <2> QED
    BY <2>2, <2>3
<1>4. Nat \subseteq S
  <2> HIDE DEF S
  <2> QED
    BY <1>2, <1>3, NatSetInduction
<1> QED
  BY <1>1, <1>4

LEMMA FlattenEmpty ==
    ASSUME NEW seqs, Len(seqs) \in Nat \ {0},
           \A i \in 1 .. Len(seqs) : seqs[i] = <<>>
    PROVE  FlattenSeq(seqs) = <<>>
<1>1. <<>> \in Seq({})
  OBVIOUS
<1>2. FlattenSeq(seqs) \in Seq({})
  BY <1>1, FlattenType
<1> QED
  BY <1>2

-----------------------------------------------------------------------------
(* The channels. *)

LEMMA WordsAreQuiet ==
    ASSUME NEW key \in Seeds
    PROVE  /\ Words(key) \subseteq Quiet
           /\ Seq(Words(key)) \subseteq Seq(Quiet)
<1>1. Words(key) \subseteq Quiet
  BY DEF Words, Quiet
<1> QED
  BY <1>1

\* What is pending on a channel is nothing but data and acknowledgements.
LEMMA PendingIsQuiet ==
    ASSUME NEW s, s \in Sessions, NEW ch \in Channels
    PROVE  /\ Pending(s, ch) \in Seq(Words(s.key))
           /\ s.inputs[ch].acks = <<>> /\ s.outputs[ch].ready = 0
                 => Pending(s, ch) = <<>>
<1> DEFINE acks == s.inputs[ch].acks
           ready == s.outputs[ch].ready
           notes == [i \in DOMAIN acks |->
                        Contextual(s.key, [op |-> acks[i], channel |-> ch,
                                           covers |-> 0])]
           data == [i \in 1 .. ready |->
                       Contextual(s.key, [op |-> "ReliableData", channel |-> ch,
                                          effect |-> "Dropped"])]
<1>1. /\ acks \in Seq({"Acknowledge", "AcknowledgeAll"}) /\ ready \in Nat
      /\ s.key \in Seeds
  BY DEF Sessions, Inputs, Outputs
<1>2. Pending(s, ch) = notes \o data
  BY DEF Pending
<1> HIDE DEF acks, ready
<1>3. notes \in Seq(Words(s.key))
  <2>1. ASSUME NEW i \in DOMAIN acks
        PROVE  Contextual(s.key, [op |-> acks[i], channel |-> ch, covers |-> 0])
                  \in Words(s.key)
    <3>1. acks[i] \in {"Acknowledge", "AcknowledgeAll"}
      BY <1>1
    <3>2. [op |-> acks[i], channel |-> ch, covers |-> 0] \in Carried
      BY <3>1 DEF Carried
    <3> QED
      BY <1>1, <3>2 DEF Words
  <2>2. notes \in [1 .. Len(acks) -> Words(s.key)]
    BY <1>1, <2>1
  <2> QED
    BY <1>1, <2>2
<1>4. data \in Seq(Words(s.key))
  <2>1. Contextual(s.key, [op |-> "ReliableData", channel |-> ch,
                           effect |-> "Dropped"])
          \in Words(s.key)
    <3>1. [op |-> "ReliableData", channel |-> ch, effect |-> "Dropped"]
             \in Carried
      BY DEF Carried
    <3> QED
      BY <1>1, <3>1 DEF Words
  <2>2. data \in [1 .. ready -> Words(s.key)]
    BY <2>1
  <2> QED
    BY <1>1, <2>2
<1>5. ASSUME acks = <<>>, ready = 0
      PROVE  Pending(s, ch) = <<>>
  <2>1. notes = <<>> /\ data = <<>>
    BY <1>5
  <2> QED
    BY <1>2, <2>1
<1> HIDE DEF notes, data
<1>6. Pending(s, ch) \in Seq(Words(s.key))
  BY <1>2, <1>3, <1>4
<1> QED
  BY <1>5, <1>6 DEF acks, ready

\* What a flush adds to what a session sends, and surfaces.
FlushedOut(s) == FlattenSeq([i \in 1 .. ChannelCount |-> Pending(s, i - 1)])
FlushedUp(s) ==
    FlattenSeq([i \in 1 .. ChannelCount |->
                   [j \in 1 .. s.inputs[i - 1].app |-> i - 1]])

LEMMA FlushBrings ==
    ASSUME NEW s, s \in Sessions
    PROVE  /\ FlushedOut(s) \in Seq(Words(s.key))
           /\ FlushedOut(s) \in Seq(Quiet)
           /\ FlushedUp(s) \in Seq(0 .. ChannelCount)
           /\ Flushed(s) => FlushedOut(s) = <<>>
           /\ (\A ch \in Channels : s.inputs[ch].app = 0) => FlushedUp(s) = <<>>
<1> DEFINE outs == [i \in 1 .. ChannelCount |-> Pending(s, i - 1)]
           ups == [i \in 1 .. ChannelCount |->
                      [j \in 1 .. s.inputs[i - 1].app |-> i - 1]]
<1>1. ChannelCount \in Nat \ {0}
  BY SessionAssumption DEF SessionAssumption
<1>2. \A i \in 1 .. ChannelCount : i - 1 \in Channels
  BY <1>1 DEF Channels
<1>3. /\ Len(outs) = ChannelCount /\ Len(ups) = ChannelCount
      /\ \A i \in 1 .. ChannelCount : outs[i] = Pending(s, i - 1)
  BY <1>1
<1>4. ASSUME NEW i \in 1 .. ChannelCount
      PROVE  /\ ups[i] \in Seq(0 .. ChannelCount)
             /\ s.inputs[i - 1].app = 0 => ups[i] = <<>>
  <2>1. s.inputs[i - 1].app \in Nat
    BY <1>2 DEF Sessions, Inputs
  <2>2. i - 1 \in 0 .. ChannelCount
    BY <1>1
  <2>3. ups[i] = [j \in 1 .. s.inputs[i - 1].app |-> i - 1]
    OBVIOUS
  <2>4. ups[i] \in [1 .. s.inputs[i - 1].app -> 0 .. ChannelCount]
    BY <2>2, <2>3
  <2>5. s.inputs[i - 1].app = 0 => ups[i] = <<>>
    BY <2>3
  <2> DEFINE n == s.inputs[i - 1].app
  <2> HIDE DEF ups, n
  <2>6. n \in Nat /\ ups[i] \in [1 .. n -> 0 .. ChannelCount]
    BY <2>1, <2>4 DEF n
  <2>7. ups[i] \in Seq(0 .. ChannelCount)
    BY <2>6, FunctionIsSequence
  <2> QED
    BY <2>5, <2>7 DEF n
<1>5. FlushedOut(s) = FlattenSeq(outs) /\ FlushedUp(s) = FlattenSeq(ups)
  BY DEF FlushedOut, FlushedUp
<1> HIDE DEF outs, ups
<1>6. /\ FlattenSeq(outs) \in Seq(Words(s.key))
      /\ FlattenSeq(outs) \in Seq(Quiet)
  <2>1. \A i \in 1 .. Len(outs) : outs[i] \in Seq(Words(s.key))
    BY <1>2, <1>3, PendingIsQuiet
  <2>2. FlattenSeq(outs) \in Seq(Words(s.key))
    BY <1>1, <1>3, <2>1, FlattenType
  <2>3. s.key \in Seeds
    BY DEF Sessions
  <2> QED
    BY <2>2, <2>3, WordsAreQuiet
<1>7. FlattenSeq(ups) \in Seq(0 .. ChannelCount)
  BY <1>1, <1>3, <1>4, FlattenType
<1>8. ASSUME Flushed(s) PROVE FlattenSeq(outs) = <<>>
  <2>1. \A i \in 1 .. Len(outs) : outs[i] = <<>>
    BY <1>2, <1>3, <1>8, PendingIsQuiet DEF Flushed
  <2> QED
    BY <1>1, <1>3, <2>1, FlattenEmpty
<1>9. ASSUME \A ch \in Channels : s.inputs[ch].app = 0
      PROVE  FlattenSeq(ups) = <<>>
  <2>1. \A i \in 1 .. Len(ups) : ups[i] = <<>>
    BY <1>2, <1>3, <1>4, <1>9
  <2> QED
    BY <1>1, <1>3, <2>1, FlattenEmpty
<1> QED
  BY <1>5, <1>6, <1>7, <1>8, <1>9

LEMMA FlushEffect ==
    ASSUME NEW s, s \in Sessions
    PROVE  /\ FlushChannels(s) \in Sessions
           /\ FlushChannels(s).mode = s.mode
           /\ FlushChannels(s).state = s.state
           /\ FlushChannels(s).key = s.key
           /\ FlushChannels(s).idle = s.idle
           /\ FlushChannels(s).reason = s.reason
           /\ FlushChannels(s).byRemote = s.byRemote
           /\ FlushChannels(s).openOnNextPacket = s.openOnNextPacket
           /\ FlushChannels(s).events = s.events
           /\ FlushChannels(s).outgoing = s.outgoing \o FlushedOut(s)
           /\ FlushChannels(s).received = s.received \o FlushedUp(s)
           /\ \A ch \in Channels :
                 /\ FlushChannels(s).inputs[ch].acks = <<>>
                 /\ FlushChannels(s).inputs[ch].app = 0
                 /\ FlushChannels(s).inputs[ch].owed = s.inputs[ch].owed
                 /\ FlushChannels(s).outputs[ch].ready = 0
                 /\ FlushChannels(s).outputs[ch].sent = s.outputs[ch].sent
                 /\ FlushChannels(s).outputs[ch].queued = s.outputs[ch].queued
<1> DEFINE out == s.outgoing \o FlushedOut(s)
           up == s.received \o FlushedUp(s)
           ins == [ch \in Channels |->
                      [s.inputs[ch] EXCEPT !.acks = <<>>, !.app = 0]]
           outs == [ch \in Channels |-> [s.outputs[ch] EXCEPT !.ready = 0]]
<1>1. FlushChannels(s) = [s EXCEPT !.outgoing = out, !.received = up,
                                   !.inputs = ins, !.outputs = outs]
  BY DEF FlushChannels, FlushedOut, FlushedUp, Sessions
<1>2. out \in Seq(Quiet \cup Notices)
  <2>1. s.outgoing \in Seq(Quiet \cup Notices)
    BY DEF Sessions
  <2>2. FlushedOut(s) \in Seq(Quiet \cup Notices)
    BY FlushBrings
  <2> QED
    BY <2>1, <2>2
<1>3. up \in Seq(0 .. ChannelCount)
  <2>1. s.received \in Seq(0 .. ChannelCount)
    BY DEF Sessions
  <2>2. FlushedUp(s) \in Seq(0 .. ChannelCount)
    BY FlushBrings
  <2> QED
    BY <2>1, <2>2
<1>4. /\ ins \in [Channels -> Inputs] /\ outs \in [Channels -> Outputs]
      /\ \A ch \in Channels : /\ ins[ch].acks = <<>> /\ ins[ch].app = 0
                              /\ ins[ch].owed = s.inputs[ch].owed
                              /\ outs[ch].ready = 0
                              /\ outs[ch].sent = s.outputs[ch].sent
                              /\ outs[ch].queued = s.outputs[ch].queued
  <2>1. ASSUME NEW ch \in Channels
        PROVE  /\ ins[ch] \in Inputs /\ ins[ch].acks = <<>> /\ ins[ch].app = 0
               /\ ins[ch].owed = s.inputs[ch].owed
    <3>1. s.inputs[ch] \in Inputs
      BY DEF Sessions
    <3>2. <<>> \in Seq({"Acknowledge", "AcknowledgeAll"})
      OBVIOUS
    <3> QED
      BY <3>1, <3>2 DEF Inputs
  <2>2. ASSUME NEW ch \in Channels
        PROVE  /\ outs[ch] \in Outputs /\ outs[ch].ready = 0
               /\ outs[ch].sent = s.outputs[ch].sent
               /\ outs[ch].queued = s.outputs[ch].queued
    <3>1. s.outputs[ch] \in Outputs
      BY DEF Sessions
    <3> QED
      BY <3>1 DEF Outputs
  <2> QED
    BY <2>1, <2>2
<1> HIDE DEF out, up, ins, outs
<1>5. FlushChannels(s) \in Sessions
  BY <1>1, <1>2, <1>3, <1>4 DEF Sessions
<1>6. /\ FlushChannels(s).mode = s.mode
      /\ FlushChannels(s).state = s.state
      /\ FlushChannels(s).key = s.key
      /\ FlushChannels(s).idle = s.idle
      /\ FlushChannels(s).reason = s.reason
      /\ FlushChannels(s).byRemote = s.byRemote
      /\ FlushChannels(s).openOnNextPacket = s.openOnNextPacket
      /\ FlushChannels(s).events = s.events
      /\ FlushChannels(s).outgoing = out
      /\ FlushChannels(s).received = up
      /\ FlushChannels(s).inputs = ins
      /\ FlushChannels(s).outputs = outs
  BY <1>1 DEF Sessions
<1> QED
  BY <1>4, <1>5, <1>6 DEF out, up

LEMMA FlushSound ==
    ASSUME NEW past \in Pasts, NEW s, Sound(past, s)
    PROVE  Sound(past, FlushChannels(s)) /\ Flushed(FlushChannels(s))
<1> DEFINE r == FlushChannels(s)
<1>1. s \in Sessions
  BY DEF Sound
<1>2. /\ r \in Sessions
      /\ r.mode = s.mode /\ r.state = s.state /\ r.key = s.key
      /\ r.openOnNextPacket = s.openOnNextPacket /\ r.events = s.events
      /\ r.outgoing = s.outgoing \o FlushedOut(s)
      /\ r.received = s.received \o FlushedUp(s)
      /\ \A ch \in Channels : /\ r.inputs[ch].acks = <<>>
                              /\ r.inputs[ch].app = 0
                              /\ r.outputs[ch].ready = 0
                              /\ r.outputs[ch].sent = s.outputs[ch].sent
                              /\ r.outputs[ch].queued = s.outputs[ch].queued
  BY <1>1, FlushEffect
<1> HIDE DEF r
<1>3. Flushed(r) /\ WindowsHold(r) /\ Told(past, r)
  BY <1>2 DEF Flushed, WindowsHold, Told, Sound
<1>4. ASSUME Surfacing(r) PROVE Entitled(past, r)
  <2>1. Surfacing(s)
    <3>1. r.received # <<>>
      BY <1>2, <1>4 DEF Surfacing
    <3>2. SUFFICES ASSUME s.received = <<>>,
                          \A ch \in Channels : s.inputs[ch].app = 0
                   PROVE  FALSE
      BY DEF Surfacing
    <3>3. FlushedUp(s) = <<>>
      BY <1>1, <3>2, FlushBrings
    <3> QED
      BY <1>2, <3>1, <3>2, <3>3
  <2> QED
    BY <1>2, <2>1 DEF Sound, Entitled, Opened
<1>5. LastWords(r)
  <2>1. CASE s.state = "Terminated"
    <3>1. Flushed(s) /\ LastWords(s)
      BY <2>1 DEF Sound, LastWords
    <3>2. s.outgoing \o FlushedOut(s) = s.outgoing
      <4>1. FlushedOut(s) = <<>> /\ s.outgoing \in Seq(Quiet \cup Notices)
        BY <1>1, <3>1, FlushBrings DEF Sessions
      <4> QED
        BY <4>1
    <3> QED
      BY <1>2, <1>3, <2>1, <3>1, <3>2 DEF LastWords
  <2>2. CASE s.state # "Terminated"
    <3>1. s.outgoing \in Seq(Quiet)
      BY <2>2 DEF Sound, LastWords
    <3>2. FlushedOut(s) \in Seq(Quiet)
      BY <1>1, FlushBrings
    <3>3. r.outgoing \in Seq(Quiet)
      BY <1>2, <3>1, <3>2
    <3> QED
      BY <1>2, <2>2, <3>3 DEF LastWords
  <2> QED
    BY <2>1, <2>2
<1> QED
  BY <1>2, <1>3, <1>4, <1>5 DEF Sound, r

LEMMA TickOutputsEffect ==
    ASSUME NEW s, s \in Sessions, WindowsHold(s)
    PROVE  /\ TickOutputs(s) \in Sessions
           /\ WindowsHold(TickOutputs(s))
           /\ TickOutputs(s) = [s EXCEPT !.outputs = TickOutputs(s).outputs]
<1> DEFINE outs == [ch \in Channels |-> TickOutput(s.outputs[ch])]
<1>1. TickOutputs(s) = [s EXCEPT !.outputs = outs]
  BY DEF TickOutputs, Sessions
<1>2. ASSUME NEW ch \in Channels
      PROVE  /\ outs[ch] \in Outputs
             /\ outs[ch].sent <= outs[ch].queued
             /\ outs[ch].sent <= Window
  <2> DEFINE o == s.outputs[ch]
             first == IF o.overdue /\ o.sent > 0 THEN 0 ELSE o.sent
             limit == Least(o.queued, Window)
  <2>1. /\ o \in Outputs /\ o.sent <= o.queued /\ o.sent <= Window
        /\ Window \in Nat
    BY SessionAssumption DEF Sessions, WindowsHold, SessionAssumption
  <2>2. /\ outs[ch] = [o EXCEPT !.ready = o.ready + limit - first,
                                !.sent = limit, !.overdue = FALSE]
    BY DEF TickOutput
  <2> HIDE DEF o, outs
  <2>3. /\ o.queued \in Nat /\ o.sent \in Nat /\ o.ready \in Nat
    BY <2>1 DEF Outputs
  <2>4. first \in Nat /\ first <= o.sent
    BY <2>3
  <2>5. limit \in Nat /\ limit <= o.queued /\ limit <= Window /\ o.sent <= limit
    BY <2>1, <2>3 DEF Least
  <2> HIDE DEF first, limit
  <2>6. o.ready + limit - first \in Nat
    BY <2>3, <2>4, <2>5
  <2> QED
    BY <2>1, <2>2, <2>5, <2>6 DEF Outputs
<1>3. outs \in [Channels -> Outputs]
  BY <1>2
<1> HIDE DEF outs
<1>4. TickOutputs(s) \in Sessions /\ TickOutputs(s).outputs = outs
  BY <1>1, <1>3 DEF Sessions
<1> QED
  BY <1>1, <1>2, <1>4 DEF WindowsHold

\* A session whose outputs alone change stays sound while it lives.
LEMMA OutputsChange ==
    ASSUME NEW past \in Pasts, NEW s, Sound(past, s), s.state # "Terminated",
           NEW outs \in [Channels -> Outputs],
           \A ch \in Channels : outs[ch].sent <= outs[ch].queued
                                /\ outs[ch].sent <= Window
    PROVE  /\ Sound(past, [s EXCEPT !.outputs = outs])
           /\ [s EXCEPT !.outputs = outs].state = s.state
           /\ Entitled(past, s) => Entitled(past, [s EXCEPT !.outputs = outs])
<1> DEFINE r == [s EXCEPT !.outputs = outs]
<1>1. s \in Sessions
  BY DEF Sound
<1>2. /\ r \in Sessions /\ r.outputs = outs
      /\ r.state = s.state /\ r.key = s.key /\ r.events = s.events
      /\ r.openOnNextPacket = s.openOnNextPacket
      /\ r.outgoing = s.outgoing /\ r.received = s.received
      /\ r.inputs = s.inputs
  BY <1>1 DEF Sessions
<1> HIDE DEF r
<1>3. WindowsHold(r) /\ Told(past, r) /\ LastWords(r)
  BY <1>2 DEF Sound, WindowsHold, Told, LastWords
<1>4. /\ Surfacing(r) => Surfacing(s)
      /\ Entitled(past, s) => Entitled(past, r)
  BY <1>2 DEF Surfacing, Entitled, Opened
<1>5. Sound(past, r)
  BY <1>2, <1>3, <1>4 DEF Sound
<1> QED
  BY <1>2, <1>4, <1>5 DEF r

LEMMA TickOutputsSound ==
    ASSUME NEW past \in Pasts, NEW s, Sound(past, s), s.state # "Terminated"
    PROVE  Sound(past, TickOutputs(s)) /\ TickOutputs(s).state = s.state
<1>1. /\ TickOutputs(s) \in Sessions /\ WindowsHold(TickOutputs(s))
      /\ TickOutputs(s) = [s EXCEPT !.outputs = TickOutputs(s).outputs]
  BY TickOutputsEffect DEF Sound
<1> DEFINE outs == TickOutputs(s).outputs
<1>2. /\ outs \in [Channels -> Outputs]
      /\ \A ch \in Channels : outs[ch].sent <= outs[ch].queued
                              /\ outs[ch].sent <= Window
  BY <1>1 DEF Sessions, WindowsHold
<1>3. TickOutputs(s) = [s EXCEPT !.outputs = outs]
  BY <1>1
<1> HIDE DEF outs
<1>4. /\ Sound(past, [s EXCEPT !.outputs = outs])
      /\ [s EXCEPT !.outputs = outs].state = s.state
  BY <1>2, OutputsChange
<1> QED
  BY <1>3, <1>4

-----------------------------------------------------------------------------
(* Termination. *)

LEMMA TerminateSound ==
    ASSUME NEW past \in Pasts, NEW s, Sound(past, s), NEW reason \in Reasons,
           NEW notifyRemote \in BOOLEAN, NEW byRemote \in BOOLEAN
    PROVE  /\ Sound(past, Terminate(s, reason, notifyRemote, byRemote))
           /\ Terminate(s, reason, notifyRemote, byRemote).state = "Terminated"
           /\ Entitled(past, s) =>
                 Entitled(past, Terminate(s, reason, notifyRemote, byRemote))
<1>1. CASE s.state = "Terminated"
  <2>1. Terminate(s, reason, notifyRemote, byRemote) = s
    BY <1>1 DEF Terminate
  <2> QED
    BY <1>1, <2>1
<1>2. CASE s.state # "Terminated"
  <2> DEFINE f == FlushChannels(TickOutputs(s))
             notice == Contextual(s.key, [op |-> "Disconnect",
                                          reason |-> reason])
             out == IF notifyRemote /\ s.state = "Running"
                    THEN Append(f.outgoing, notice) ELSE f.outgoing
             told == Append(f.events, "Closed")
             r == [f EXCEPT !.state = "Terminated", !.reason = reason,
                            !.byRemote = byRemote, !.events = told,
                            !.outgoing = out]
  <2>1. Terminate(s, reason, notifyRemote, byRemote) = r
    BY <1>2 DEF Terminate
  <2>2. Sound(past, TickOutputs(s)) /\ TickOutputs(s).state = s.state
        /\ TickOutputs(s) \in Sessions
    BY <1>2, TickOutputsSound DEF Sound
  <2>3. /\ TickOutputs(s).key = s.key /\ TickOutputs(s).events = s.events
    <3>1. TickOutputs(s) = [s EXCEPT !.outputs = TickOutputs(s).outputs]
      BY TickOutputsEffect DEF Sound
    <3>2. s \in Sessions
      BY DEF Sound
    <3> QED
      BY <3>1, <3>2 DEF Sessions
  <2>4. /\ Sound(past, f) /\ Flushed(f)
        /\ f.state = s.state /\ f.key = s.key /\ f.events = s.events
    BY <2>2, <2>3, FlushSound, FlushEffect
  <2>5. s \in Sessions /\ s.key \in Seeds
    BY DEF Sound, Sessions
  <2>6. notice \in Notices
    BY <2>5 DEF Notices
  <2> HIDE DEF f, notice
  <2>7. f \in Sessions /\ f.outgoing \in Seq(Quiet)
    BY <1>2, <2>4 DEF Sound, LastWords
  <2>8. f.events = <<>> \/ (past # "Open" /\ f.events = <<"Opened">>)
    <3>1. s.state \in {"Negotiating", "Running"}
      BY <1>2, <2>5 DEF Sessions
    <3> QED
      BY <2>4, <3>1 DEF Sound, Told
  <2>9. /\ told \in Seq({"Opened", "Closed"})
        /\ f.events = <<>> => told = <<"Closed">>
        /\ f.events = <<"Opened">> => told = <<"Opened", "Closed">>
    <3>1. CASE f.events = <<>>
      BY <3>1, EventSequences, Zenon
    <3>2. CASE f.events = <<"Opened">>
      BY <3>2, EventSequences, Zenon
    <3> QED
      BY <2>8, <3>1, <3>2
  <2>10. /\ out \in Seq(Quiet \cup Notices)
         /\ \/ out = f.outgoing
            \/ out = Append(f.outgoing, notice)
    <3>1. f.outgoing \in Seq(Quiet \cup Notices)
      BY <2>7 DEF Sessions
    <3>2. Append(f.outgoing, notice) \in Seq(Quiet \cup Notices)
      BY <2>6, <3>1
    <3> QED
      BY <3>1, <3>2
  <2> HIDE DEF out, told
  <2>11. /\ r \in Sessions /\ r.state = "Terminated" /\ r.key = f.key
         /\ r.events = told /\ r.outgoing = out /\ r.received = f.received
         /\ r.inputs = f.inputs /\ r.outputs = f.outputs
    BY <2>7, <2>9, <2>10 DEF Sessions
  <2> HIDE DEF r
  <2>12. Flushed(r) /\ WindowsHold(r)
    BY <2>4, <2>11 DEF Flushed, WindowsHold, Sound
  <2>13. Told(past, r)
    BY <2>8, <2>9, <2>11 DEF Told
  <2>14. LastWords(r)
    BY <2>6, <2>7, <2>10, <2>11, <2>12 DEF LastWords
  <2>15. Entitled(past, f) => Entitled(past, r)
    BY <2>8, <2>9, <2>11 DEF Entitled, Opened
  <2>16. Surfacing(r) => Surfacing(f)
    BY <2>11 DEF Surfacing
  <2>17. Sound(past, r)
    BY <2>4, <2>11, <2>12, <2>13, <2>14, <2>15, <2>16 DEF Sound
  <2>18. Entitled(past, s) => Entitled(past, f)
    BY <2>4 DEF Entitled, Opened
  <2> QED
    BY <2>1, <2>11, <2>15, <2>17, <2>18
<1> QED
  BY <1>1, <1>2

LEMMA RefuseSound ==
    ASSUME NEW past \in Pasts, NEW s, Sound(past, s), NEW reason \in Reasons
    PROVE  /\ Sound(past, Refuse(s, reason))
           /\ Refuse(s, reason).state = "Terminated"
           /\ Entitled(past, s) => Entitled(past, Refuse(s, reason))
BY TerminateSound DEF Refuse

LEMMA AbandonSound ==
    ASSUME NEW past \in Pasts, NEW s, Sound(past, s), NEW reason \in Reasons
    PROVE  /\ Sound(past, Abandon(s, reason))
           /\ Abandon(s, reason).state = "Terminated"
           /\ Entitled(past, s) => Entitled(past, Abandon(s, reason))
BY TerminateSound DEF Abandon

-----------------------------------------------------------------------------
(* Packets. *)

\* A valid packet opens the session that waits for it.
LEMMA AcceptSound ==
    ASSUME NEW past \in Pasts, NEW s, Sound(past, s), s.state # "Terminated"
    PROVE  /\ Sound(past, Accept(s))
           /\ s.state = "Running" \/ past = "Lax"
                 => Entitled(past, Accept(s))
           /\ Accept(s).state = s.state /\ Accept(s).mode = s.mode
           /\ Accept(s).openOnNextPacket = FALSE
           /\ Accept(s).received = s.received /\ Accept(s).inputs = s.inputs
           /\ Accept(s).outputs = s.outputs /\ Accept(s).key = s.key
           /\ Accept(s).outgoing = s.outgoing /\ Accept(s).idle = 0
           /\ Accept(s).reason = s.reason /\ Accept(s).byRemote = s.byRemote
<1> DEFINE told == IF s.openOnNextPacket THEN Append(s.events, "Opened")
                                         ELSE s.events
           r == [s EXCEPT !.events = told, !.openOnNextPacket = FALSE,
                          !.idle = 0]
<1>1. Accept(s) = r
  BY DEF Accept
<1>2. s \in Sessions /\ s.state \in {"Negotiating", "Running"}
  BY DEF Sound, Sessions
<1>3. /\ s.state = "Negotiating" =>
            told = <<>> /\ s.key = NoKey /\ past # "Open"
      /\ s.state = "Running" =>
            told = IF past = "Open" THEN <<>> ELSE <<"Opened">>
      /\ told \in Seq({"Opened", "Closed"})
  <2>1. CASE s.state = "Negotiating"
    <3>1. /\ s.events = <<>> /\ s.openOnNextPacket = FALSE
          /\ s.key = NoKey /\ past # "Open"
      BY <2>1 DEF Sound, Told
    <3> QED
      BY <2>1, <3>1
  <2>2. CASE s.state = "Running" /\ s.openOnNextPacket = TRUE
    <3>1. s.events = <<>> /\ past # "Open"
      BY <2>2 DEF Sound, Told
    <3>2. told = Append(<<>>, "Opened")
      BY <2>2, <3>1
    <3> QED
      BY <2>2, <3>1, <3>2, EventSequences
  <2>3. CASE s.state = "Running" /\ s.openOnNextPacket = FALSE
    <3>1. s.events = IF past = "Open" THEN <<>> ELSE <<"Opened">>
      <4>1. \/ past # "Open" /\ s.events = <<"Opened">>
            \/ past = "Open" /\ s.events = <<>>
        BY <2>3 DEF Sound, Told
      <4> QED
        BY <4>1
    <3>2. told = s.events
      BY <2>3
    <3> QED
      BY <2>3, <3>1, <3>2, EventSequences
  <2>4. s.openOnNextPacket \in BOOLEAN
    BY <1>2 DEF Sessions
  <2> QED
    BY <1>2, <2>1, <2>2, <2>3, <2>4
<1>4. 0 \in 0 .. MaxIdle
  BY SessionAssumption DEF MaxIdle, SessionAssumption
<1> HIDE DEF told
<1>5. /\ r \in Sessions /\ r.events = told /\ r.openOnNextPacket = FALSE
      /\ r.mode = s.mode /\ r.state = s.state /\ r.key = s.key
      /\ r.outgoing = s.outgoing /\ r.received = s.received
      /\ r.inputs = s.inputs /\ r.outputs = s.outputs
      /\ r.idle = 0 /\ r.reason = s.reason /\ r.byRemote = s.byRemote
  BY <1>2, <1>3, <1>4 DEF Sessions
<1> HIDE DEF r
<1>6. WindowsHold(r) /\ LastWords(r)
  BY <1>2, <1>5 DEF Sound, WindowsHold, LastWords
<1>7. Told(past, r)
  <2>1. CASE s.state = "Negotiating"
    BY <1>3, <1>5, <2>1 DEF Told
  <2>2. CASE s.state = "Running" /\ past = "Open"
    BY <1>3, <1>5, <2>2 DEF Told
  <2>3. CASE s.state = "Running" /\ past # "Open"
    BY <1>3, <1>5, <2>3 DEF Told
  <2> QED
    BY <1>2, <2>1, <2>2, <2>3
<1>8. s.state = "Running" \/ past = "Lax" => Entitled(past, r)
  BY <1>2, <1>3, <1>5 DEF Entitled, Opened
<1>9. Surfacing(r) => Entitled(past, r)
  <2>1. Surfacing(r) => Entitled(past, s)
    BY <1>5 DEF Surfacing, Sound
  <2>2. CASE s.state = "Negotiating"
    <3>1. s.events = <<>>
      BY <2>2 DEF Sound, Told
    <3>2. <<>> # <<"Opened">> /\ <<>> # <<"Opened", "Closed">>
      BY EventSequences
    <3> QED
      BY <1>3, <1>5, <2>1, <2>2, <3>1, <3>2 DEF Entitled, Opened
  <2> QED
    BY <1>2, <1>8, <2>2
<1> QED
  BY <1>1, <1>5, <1>6, <1>7, <1>8, <1>9 DEF Sound

\* A session whose inputs alone change stays sound if it may surface data.
LEMMA InputsChange ==
    ASSUME NEW past \in Pasts, NEW s, Sound(past, s),
           s.state # "Terminated", Entitled(past, s),
           NEW ins \in [Channels -> Inputs]
    PROVE  /\ Sound(past, [s EXCEPT !.inputs = ins])
           /\ Entitled(past, [s EXCEPT !.inputs = ins])
           /\ [s EXCEPT !.inputs = ins].state = s.state
<1> DEFINE r == [s EXCEPT !.inputs = ins]
<1>1. s \in Sessions
  BY DEF Sound
<1>2. /\ r \in Sessions /\ r.outputs = s.outputs
      /\ r.state = s.state /\ r.key = s.key /\ r.events = s.events
      /\ r.openOnNextPacket = s.openOnNextPacket
      /\ r.outgoing = s.outgoing
  BY <1>1 DEF Sessions
<1> HIDE DEF r
<1>3. WindowsHold(r) /\ Told(past, r) /\ LastWords(r) /\ Entitled(past, r)
  BY <1>2 DEF Sound, WindowsHold, Told, LastWords, Entitled, Opened
<1>4. Sound(past, r)
  BY <1>2, <1>3 DEF Sound
<1> QED
  BY <1>2, <1>3, <1>4 DEF r

\* A session that sends one more thing, not a Disconnect, while it lives.
LEMMA SendSound ==
    ASSUME NEW past \in Pasts, NEW s, Sound(past, s),
           s.state # "Terminated", NEW message \in Quiet
    PROVE  /\ Sound(past, [s EXCEPT !.outgoing = Append(@, message)])
           /\ [s EXCEPT !.outgoing = Append(@, message)].state = s.state
           /\ Entitled(past, s) =>
                 Entitled(past, [s EXCEPT !.outgoing = Append(@, message)])
<1> DEFINE out == Append(s.outgoing, message)
           r == [s EXCEPT !.outgoing = out]
<1>1. s \in Sessions /\ s.outgoing \in Seq(Quiet)
  BY DEF Sound, LastWords
<1>2. out \in Seq(Quiet)
  BY <1>1
<1>3. out \in Seq(Quiet \cup Notices)
  <2>1. s.outgoing \in Seq(Quiet \cup Notices) /\ message \in Quiet \cup Notices
    BY <1>1 DEF Sessions
  <2> QED
    BY <2>1
<1> HIDE DEF out
<1>4. /\ r \in Sessions /\ r.outputs = s.outputs /\ r.inputs = s.inputs
      /\ r.state = s.state /\ r.key = s.key /\ r.events = s.events
      /\ r.openOnNextPacket = s.openOnNextPacket
      /\ r.outgoing = out /\ r.received = s.received
  BY <1>1, <1>3 DEF Sessions
<1> HIDE DEF r
<1>5. WindowsHold(r) /\ Told(past, r) /\ LastWords(r)
  BY <1>2, <1>4 DEF Sound, WindowsHold, Told, LastWords
<1>6. /\ Surfacing(r) => Surfacing(s)
      /\ Entitled(past, s) => Entitled(past, r)
  BY <1>4 DEF Surfacing, Entitled, Opened
<1>7. Sound(past, r)
  BY <1>4, <1>5, <1>6 DEF Sound
<1> QED
  BY <1>4, <1>6, <1>7 DEF r, out

LEMMA OneInputChanges ==
    ASSUME NEW past \in Pasts, NEW s, Sound(past, s),
           s.state # "Terminated", Entitled(past, s),
           NEW ch \in Channels, NEW input \in Inputs
    PROVE  /\ Sound(past, [s EXCEPT !.inputs[ch] = input])
           /\ Entitled(past, [s EXCEPT !.inputs[ch] = input])
           /\ [s EXCEPT !.inputs[ch] = input].state = s.state
<1> DEFINE ins == [s.inputs EXCEPT ![ch] = input]
<1>1. s.inputs \in [Channels -> Inputs]
  BY DEF Sound, Sessions
<1>2. ins \in [Channels -> Inputs]
  BY <1>1
<1>3. [s EXCEPT !.inputs[ch] = input] = [s EXCEPT !.inputs = ins]
  OBVIOUS
<1> HIDE DEF ins
<1>4. /\ Sound(past, [s EXCEPT !.inputs = ins])
      /\ Entitled(past, [s EXCEPT !.inputs = ins])
      /\ [s EXCEPT !.inputs = ins].state = s.state
  BY <1>2, InputsChange
<1> QED
  BY <1>3, <1>4

LEMMA OneOutputChanges ==
    ASSUME NEW past \in Pasts, NEW s, Sound(past, s), s.state # "Terminated",
           NEW ch \in Channels, NEW output \in Outputs,
           output.sent <= output.queued, output.sent <= Window
    PROVE  /\ Sound(past, [s EXCEPT !.outputs[ch] = output])
           /\ [s EXCEPT !.outputs[ch] = output].state = s.state
           /\ Entitled(past, s) =>
                 Entitled(past, [s EXCEPT !.outputs[ch] = output])
<1> DEFINE outs == [s.outputs EXCEPT ![ch] = output]
<1>1. /\ s.outputs \in [Channels -> Outputs]
      /\ \A c \in Channels : s.outputs[c].sent <= s.outputs[c].queued
                             /\ s.outputs[c].sent <= Window
  BY DEF Sound, Sessions, WindowsHold
<1>2. outs \in [Channels -> Outputs]
  BY <1>1
<1>3. \A c \in Channels : outs[c].sent <= outs[c].queued
                          /\ outs[c].sent <= Window
  BY <1>1
<1>4. [s EXCEPT !.outputs[ch] = output] = [s EXCEPT !.outputs = outs]
  OBVIOUS
<1> HIDE DEF outs
<1>5. /\ Sound(past, [s EXCEPT !.outputs = outs])
      /\ [s EXCEPT !.outputs = outs].state = s.state
      /\ Entitled(past, s) => Entitled(past, [s EXCEPT !.outputs = outs])
  BY <1>2, <1>3, OutputsChange
<1> QED
  BY <1>4, <1>5

\* What a reliable packet, or its malformed companion, does to a session.
LEMMA ReliableDataSound ==
    ASSUME NEW past \in Pasts, NEW s, Sound(past, s),
           s.state # "Terminated", Entitled(past, s),
           NEW packet, packet.channel \in Channels, packet.effect \in Effects
    PROVE  /\ Sound(past, HandleReliableData(s, packet))
           /\ Entitled(past, HandleReliableData(s, packet))
<1> DEFINE ch == packet.channel
           input == s.inputs[ch]
           more == [input EXCEPT !.app = @ + 1]
           ahead == [input EXCEPT !.acks = Append(@, "Acknowledge")]
           nudged == [input EXCEPT !.acks = Append(@, "AcknowledgeAll"),
                                   !.owed = FALSE]
           delivered == [s EXCEPT !.inputs[ch] = more]
<1>1. /\ ch \in Channels /\ input \in Inputs /\ s \in Sessions
      /\ s.inputs \in [Channels -> Inputs]
  BY DEF Sound, Sessions
<1>2. more \in Inputs /\ [more EXCEPT !.owed = TRUE] \in Inputs
  <2>1. input.app \in Nat
    BY <1>1 DEF Inputs
  <2>2. more = [input EXCEPT !.app = input.app + 1] /\ input.app + 1 \in Nat
    BY <2>1
  <2> HIDE DEF more
  <2>3. more \in Inputs
    BY <1>1, <2>2 DEF Inputs
  <2> QED
    BY <2>3 DEF Inputs
<1>3. /\ Sound(past, delivered) /\ Entitled(past, delivered)
      /\ delivered.state # "Terminated"
  BY <1>1, <1>2, OneInputChanges
<1>4. delivered = [s EXCEPT !.inputs[ch].app = @ + 1]
  OBVIOUS
<1>5. [input EXCEPT !.owed = TRUE] \in Inputs
  BY <1>1 DEF Inputs
<1>6. /\ input.acks \in Seq({"Acknowledge", "AcknowledgeAll"})
      /\ Append(input.acks, "Acknowledge")
            \in Seq({"Acknowledge", "AcknowledgeAll"})
      /\ Append(input.acks, "AcknowledgeAll")
            \in Seq({"Acknowledge", "AcknowledgeAll"})
  BY <1>1 DEF Inputs
<1>7. ahead \in Inputs /\ nudged \in Inputs
  BY <1>1, <1>6 DEF Inputs
<1>8. CASE packet.effect = "InOrder"
  <2>1. HandleReliableData(s, packet)
           = [s EXCEPT !.inputs[ch] = [more EXCEPT !.owed = TRUE]]
    <3>1. HandleReliableData(s, packet)
             = [delivered EXCEPT !.inputs[ch].owed = TRUE]
      BY <1>8, <1>4 DEF HandleReliableData
    <3>2. delivered.inputs[ch] = more
      BY <1>1 DEF Sessions
    <3> QED
      BY <1>1, <3>1, <3>2 DEF Sessions
  <2> QED
    BY <1>1, <1>2, <2>1, OneInputChanges
<1>9. CASE packet.effect = "Fragment"
  <2>1. HandleReliableData(s, packet)
           = [s EXCEPT !.inputs[ch] = [input EXCEPT !.owed = TRUE]]
    BY <1>9 DEF HandleReliableData
  <2> QED
    BY <1>1, <1>5, <2>1, OneInputChanges
<1>10. CASE packet.effect = "Ahead"
  <2>1. HandleReliableData(s, packet) = [s EXCEPT !.inputs[ch] = ahead]
    BY <1>10 DEF HandleReliableData
  <2> HIDE DEF ahead
  <2> QED
    BY <1>1, <1>7, <2>1, OneInputChanges
<1>11. CASE packet.effect = "Nudged"
  <2>1. HandleReliableData(s, packet)
           = [s EXCEPT !.inputs[ch] = nudged]
    <3>1. HandleReliableData(s, packet)
             = [s EXCEPT !.inputs[ch].acks = Append(@, "AcknowledgeAll"),
                         !.inputs[ch].owed = FALSE]
      BY <1>11 DEF HandleReliableData
    <3> QED
      BY <1>1, <3>1 DEF Sessions
  <2> HIDE DEF nudged
  <2> QED
    BY <1>1, <1>7, <2>1, OneInputChanges
<1>12. CASE packet.effect = "Dropped"
  <2>1. HandleReliableData(s, packet) = s
    BY <1>12 DEF HandleReliableData
  <2> QED
    BY <2>1
<1>13. CASE packet.effect = "Malformed"
  <2>1. HandleReliableData(s, packet) = Refuse(delivered, "CorruptPacket")
    BY <1>13, <1>4 DEF HandleReliableData
  <2> HIDE DEF delivered
  <2> QED
    BY <1>3, <2>1, RefuseSound DEF Reasons
<1> QED
  BY <1>8, <1>9, <1>10, <1>11, <1>12, <1>13 DEF Effects

LEMMA ReleaseType ==
    ASSUME NEW output \in Outputs, output.sent <= output.queued,
           output.sent <= Window, NEW covers \in Nat
    PROVE  /\ Release(output, covers) \in Outputs
           /\ Release(output, covers).sent <= Release(output, covers).queued
           /\ Release(output, covers).sent <= Window
<1> DEFINE n == Least(covers, output.sent)
<1>1. /\ output.sent \in Nat /\ output.queued \in Nat /\ Window \in Nat
  BY SessionAssumption DEF Outputs, SessionAssumption
<1>2. n \in Nat /\ n <= output.sent
  BY <1>1 DEF Least
<1>3. Release(output, covers) = [output EXCEPT !.queued = output.queued - n,
                                               !.sent = output.sent - n]
  BY DEF Release
<1> HIDE DEF n
<1>4. /\ output.queued - n \in Nat /\ output.sent - n \in Nat
      /\ output.sent - n <= output.queued - n /\ output.sent - n <= Window
  BY <1>1, <1>2
<1> DEFINE queued == output.queued - n
           sent == output.sent - n
           r == [output EXCEPT !.queued = queued, !.sent = sent]
<1>5. Release(output, covers) = r
  BY <1>3
<1>6. queued \in Nat /\ sent \in Nat /\ sent <= queued /\ sent <= Window
  BY <1>4
<1> HIDE DEF queued, sent
<1>7. r \in Outputs /\ r.queued = queued /\ r.sent = sent
  BY <1>6 DEF Outputs
<1> QED
  BY <1>5, <1>6, <1>7

LEMMA PacketSound ==
    ASSUME NEW past \in Pasts, NEW s, Sound(past, s),
           s.state # "Terminated", Entitled(past, s),
           NEW packet \in Arrivals
    PROVE  /\ Sound(past, HandlePacket(s, packet))
           /\ Entitled(past, HandlePacket(s, packet))
<1>1. s \in Sessions /\ s.key \in Seeds
  BY DEF Sound, Sessions
<1>2. CASE packet.op = "Disconnect"
  <2>1. packet.reason \in Reasons
    BY <1>2 DEF Arrivals, Reasons
  <2>2. HandlePacket(s, packet) = Terminate(s, packet.reason, FALSE, TRUE)
    BY <1>2 DEF HandlePacket
  <2> QED
    BY <2>1, <2>2, TerminateSound
<1>3. CASE packet.op = "Heartbeat"
  <2> DEFINE message == Contextual(s.key, [op |-> "Heartbeat"])
  <2>1. message \in Quiet
    BY <1>1 DEF Quiet, Carried
  <2>2. HandlePacket(s, packet)
           = IF s.mode = "Server"
             THEN [s EXCEPT !.outgoing = Append(@, message)] ELSE s
    BY <1>3 DEF HandlePacket
  <2> HIDE DEF message
  <2> QED
    BY <2>1, <2>2, SendSound
<1>4. CASE packet.op = "ReliableData"
  <2>1. packet.channel \in Channels /\ packet.effect \in Effects
    BY <1>4 DEF Arrivals, Effects
  <2>2. HandlePacket(s, packet) = HandleReliableData(s, packet)
    BY <1>4 DEF HandlePacket
  <2> QED
    BY <2>1, <2>2, ReliableDataSound
<1>5. CASE packet.op \in {"Acknowledge", "AcknowledgeAll"}
  <2> DEFINE ch == packet.channel
             output == Release(s.outputs[ch], packet.covers)
  <2>1. ch \in Channels /\ packet.covers \in Nat
    BY <1>5 DEF Arrivals
  <2>2. /\ s.outputs[ch] \in Outputs
        /\ s.outputs[ch].sent <= s.outputs[ch].queued
        /\ s.outputs[ch].sent <= Window
    BY <1>1, <2>1 DEF Sessions, Sound, WindowsHold
  <2>3. HandlePacket(s, packet) = [s EXCEPT !.outputs[ch] = output]
    BY <1>5 DEF HandlePacket
  <2>4. output \in Outputs /\ output.sent <= output.queued
        /\ output.sent <= Window
    BY <2>1, <2>2, ReleaseType
  <2> HIDE DEF ch, output
  <2> QED
    BY <2>1, <2>3, <2>4, OneOutputChanges
<1>6. CASE packet.op = "Malformed"
  <2>1. HandlePacket(s, packet) = Refuse(s, "CorruptPacket")
    BY <1>6 DEF HandlePacket
  <2> QED
    BY <2>1, RefuseSound DEF Reasons
<1>7. CASE packet.op = "Other"
  <2>1. HandlePacket(s, packet) = s
    BY <1>7 DEF HandlePacket
  <2> QED
    BY <2>1
<1> QED
  BY <1>2, <1>3, <1>4, <1>5, <1>6, <1>7 DEF Arrivals

\* The recursive definition does define the session after each packet.
LEMMA HandledSteps ==
    ASSUME NEW s, NEW packets, Len(packets) \in Nat
    PROVE  /\ Handled(s, packets)[0] = s
           /\ \A i \in 1 .. Len(packets) :
                 Handled(s, packets)[i] =
                     HandleNext(Handled(s, packets)[i - 1], packets[i])
<1> DEFINE n == Len(packets)
           Body(g, m) == [i \in 0 .. m |->
                            IF i = 0 THEN s ELSE HandleNext(g[i - 1], packets[i])]
           S == {m \in Nat : \E g : g = Body(g, m)}
<1> HIDE DEF n
<1>1. 0 \in S
  <2> DEFINE g == [i \in 0 .. 0 |-> s]
  <2>1. g = Body(g, 0)
    OBVIOUS
  <2> QED
    BY <2>1
<1>2. ASSUME NEW m \in Nat, m \in S
      PROVE  m + 1 \in S
  <2>1. PICK g : g = Body(g, m)
    BY <1>2
  <2> DEFINE h == [i \in 0 .. m + 1 |->
                      IF i <= m THEN g[i] ELSE HandleNext(g[m], packets[m + 1])]
  <2>2. \A i \in 0 .. m : h[i] = g[i]
    OBVIOUS
  <2>3. ASSUME NEW i \in 0 .. m + 1
        PROVE  h[i] = Body(h, m + 1)[i]
    <3>1. CASE i = 0
      BY <3>1, <2>1
    <3>2. CASE i \in 1 .. m
      <4>1. g[i] = HandleNext(g[i - 1], packets[i])
        BY <3>2, <2>1
      <4>2. h[i - 1] = g[i - 1] /\ h[i] = g[i]
        BY <3>2, <2>2
      <4> QED
        BY <4>1, <4>2, <3>2
    <3>3. CASE i = m + 1
      <4>1. h[i - 1] = g[m]
        BY <3>3, <2>2
      <4> QED
        BY <4>1, <3>3
    <3> QED
      BY <3>1, <3>2, <3>3
  <2>4. h = Body(h, m + 1)
    BY <2>3
  <2> HIDE DEF h
  <2> QED
    BY <2>4
<1>3. n \in S
  <2>1. n \in Nat
    BY DEF n
  <2> HIDE DEF S
  <2> QED
    BY <1>1, <1>2, <2>1, NatSetInduction
<1>4. PICK g : g = Body(g, n)
  BY <1>3
<1> DEFINE f[i \in 0 .. n] ==
               IF i = 0 THEN s ELSE HandleNext(f[i - 1], packets[i])
<1>5. f = Body(f, n)
  BY <1>4
<1>6. Handled(s, packets) = f
  BY DEF Handled, n
<1> HIDE DEF f
<1>7. /\ f[0] = s
      /\ \A i \in 1 .. n : f[i] = HandleNext(f[i - 1], packets[i])
  <2>1. n \in Nat
    BY DEF n
  <2> QED
    BY <1>5, <2>1
<1> QED
  BY <1>6, <1>7 DEF n

\* A bundle leaves a sound session sound, however many packets it has.
LEMMA PacketsSound ==
    ASSUME NEW past \in Pasts, NEW s, Sound(past, s),
           Entitled(past, s), NEW packets \in Seq(Arrivals)
    PROVE  /\ Sound(past, HandlePackets(s, packets))
           /\ Entitled(past, HandlePackets(s, packets))
<1> DEFINE f == Handled(s, packets)
           S == {i \in Nat : i <= Len(packets) =>
                    Sound(past, f[i]) /\ Entitled(past, f[i])}
<1>1. /\ f[0] = s
      /\ \A i \in 1 .. Len(packets) : f[i] = HandleNext(f[i - 1], packets[i])
  BY HandledSteps
<1> HIDE DEF f
<1>2. 0 \in S
  BY <1>1
<1>3. ASSUME NEW i \in Nat, i \in S
      PROVE  i + 1 \in S
  <2>1. SUFFICES ASSUME i + 1 <= Len(packets)
                 PROVE  Sound(past, f[i + 1]) /\ Entitled(past, f[i + 1])
    OBVIOUS
  <2>2. f[i + 1] = HandleNext(f[i], packets[i + 1])
    BY <1>1, <2>1
  <2>3. /\ Sound(past, f[i]) /\ Entitled(past, f[i])
        /\ packets[i + 1] \in Arrivals
    BY <1>3, <2>1
  <2>4. CASE f[i].state = "Terminated"
    <3>1. f[i + 1] = f[i]
      BY <2>2, <2>4 DEF HandleNext
    <3> QED
      BY <2>3, <3>1
  <2>5. CASE f[i].state # "Terminated"
    <3>1. f[i + 1] = HandlePacket(f[i], packets[i + 1])
      BY <2>2, <2>5 DEF HandleNext
    <3> QED
      BY <2>3, <2>5, <3>1, PacketSound
  <2> QED
    BY <2>4, <2>5
<1>4. Nat \subseteq S
  <2> HIDE DEF S
  <2> QED
    BY <1>2, <1>3, NatSetInduction
<1> QED
  BY <1>4 DEF HandlePackets, f

-----------------------------------------------------------------------------
(* Negotiation, and datagrams. *)

\* A session takes a request's id before anything else.
LEMMA NamedSound ==
    ASSUME NEW past \in Pasts, NEW s, Sound(past, s), NEW id \in Ids
    PROVE  /\ Sound(past, [s EXCEPT !.id = id])
           /\ [s EXCEPT !.id = id].state = s.state
<1> DEFINE r == [s EXCEPT !.id = id]
<1>1. s \in Sessions
  BY DEF Sound
<1>2. /\ r \in Sessions /\ r.outputs = s.outputs /\ r.inputs = s.inputs
      /\ r.state = s.state /\ r.key = s.key /\ r.events = s.events
      /\ r.openOnNextPacket = s.openOnNextPacket
      /\ r.outgoing = s.outgoing /\ r.received = s.received
  BY <1>1 DEF Sessions
<1> HIDE DEF r
<1>3. /\ WindowsHold(r) /\ Told(past, r)
      /\ Surfacing(r) => Entitled(past, r)
  BY <1>2 DEF Sound, WindowsHold, Told, Surfacing, Entitled, Opened
<1>4. LastWords(r)
  BY <1>2 DEF Sound, LastWords, Flushed
<1> QED
  BY <1>2, <1>3, <1>4 DEF Sound, r

LEMMA RequestSound ==
    ASSUME NEW past \in Pasts, NEW s, Sound(past, s),
           s.state # "Terminated", ~Surfacing(s),
           s.openOnNextPacket = FALSE,
           NEW request, request.id \in Ids, request.body \in Bodies,
           NEW key \in Keys
    PROVE  Sound(past, HandleSessionRequest(s, request, key))
<1> DEFINE named == [s EXCEPT !.id = request.id]
           r == HandleSessionRequest(s, request, key)
<1>1. Sound(past, named) /\ named.state = s.state
  BY NamedSound
<1>2. CASE s.mode = "Client"
  <2>1. r = Abandon(s, "ConnectingToSelf")
    BY <1>2 DEF HandleSessionRequest
  <2> QED
    BY <2>1, AbandonSound DEF Reasons
<1>3. CASE s.mode # "Client" /\ request.body = "Malformed"
  <2>1. r = Refuse(s, "CorruptPacket")
    BY <1>3 DEF HandleSessionRequest
  <2> QED
    BY <2>1, RefuseSound DEF Reasons
<1>4. CASE /\ s.mode # "Client" /\ request.body # "Malformed"
           /\ s.state # "Negotiating"
  <2>1. r = Refuse(named, "ConnectError")
    BY <1>4 DEF HandleSessionRequest
  <2> QED
    BY <1>1, <2>1, RefuseSound DEF Reasons
<1>5. CASE /\ s.mode # "Client" /\ request.body = "Mismatched"
           /\ s.state = "Negotiating"
  <2>1. r = Refuse(named, "ProtocolMismatch")
    BY <1>5 DEF HandleSessionRequest
  <2> QED
    BY <1>1, <2>1, RefuseSound DEF Reasons
<1>6. CASE /\ s.mode # "Client" /\ request.body = "Matching"
           /\ s.state = "Negotiating"
  <2> DEFINE response == SessionResponse(request.id, key)
             out == Append(s.outgoing, response)
             t == [s EXCEPT !.id = request.id, !.key = key, !.outgoing = out,
                            !.state = "Running", !.openOnNextPacket = TRUE]
  <2>1. s \in Sessions /\ s.outgoing \in Seq(Quiet)
    BY DEF Sound, LastWords
  <2>2. r = t
    <3>1. r = [named EXCEPT !.key = key,
                            !.outgoing = Append(named.outgoing, response),
                            !.state = "Running", !.openOnNextPacket = TRUE]
      BY <1>6 DEF HandleSessionRequest
    <3>2. named.outgoing = s.outgoing
      BY <2>1 DEF Sessions
    <3> QED
      BY <2>1, <3>1, <3>2 DEF Sessions
  <2>3. response \in Quiet
    BY DEF Quiet
  <2> HIDE DEF response
  <2>4. out \in Seq(Quiet)
    BY <2>1, <2>3
  <2>5. out \in Seq(Quiet \cup Notices)
    <3>1. s.outgoing \in Seq(Quiet \cup Notices)
          /\ response \in Quiet \cup Notices
      BY <2>1, <2>3 DEF Sessions
    <3> QED
      BY <3>1
  <2> HIDE DEF out
  <2>6. /\ t \in Sessions /\ t.outputs = s.outputs /\ t.inputs = s.inputs
        /\ t.state = "Running" /\ t.key = key /\ t.events = s.events
        /\ t.openOnNextPacket = TRUE
        /\ t.outgoing = out /\ t.received = s.received
    BY <2>1, <2>5 DEF Sessions, Seeds
  <2> HIDE DEF t
  <2>7. s.events = <<>> /\ past # "Open"
    BY <1>6 DEF Sound, Told
  <2>8. WindowsHold(t) /\ Told(past, t) /\ LastWords(t)
    BY <2>4, <2>6, <2>7 DEF Sound, WindowsHold, Told, LastWords
  <2>9. ~Surfacing(t)
    BY <2>6 DEF Surfacing
  <2> QED
    BY <2>2, <2>6, <2>8, <2>9 DEF Sound
<1> QED
  BY <1>2, <1>3, <1>4, <1>5, <1>6 DEF Bodies

LEMMA ResponseSound ==
    ASSUME NEW past \in Pasts, NEW s, Sound(past, s),
           s.state # "Terminated", ~Surfacing(s),
           NEW response, response.id \in Ids, response.body \in Bodies,
           response.key \in Keys
    PROVE  Sound(past, HandleSessionResponse(s, response))
<1> DEFINE r == HandleSessionResponse(s, response)
<1>1. CASE s.mode = "Server"
  <2>1. r = Abandon(s, "ConnectingToSelf")
    BY <1>1 DEF HandleSessionResponse
  <2> QED
    BY <2>1, AbandonSound DEF Reasons
<1>2. CASE s.mode # "Server" /\ response.body = "Malformed"
  <2>1. r = Refuse(s, "CorruptPacket")
    BY <1>2 DEF HandleSessionResponse
  <2> QED
    BY <2>1, RefuseSound DEF Reasons
<1>3. CASE /\ s.mode # "Server" /\ response.body # "Malformed"
           /\ s.state # "Negotiating"
  <2>1. r = Refuse(s, "ConnectError")
    BY <1>3 DEF HandleSessionResponse
  <2> QED
    BY <2>1, RefuseSound DEF Reasons
<1>4. CASE /\ s.mode # "Server" /\ response.body = "Mismatched"
           /\ s.state = "Negotiating"
  <2>1. r = Refuse(s, "ProtocolMismatch")
    BY <1>4 DEF HandleSessionResponse
  <2> QED
    BY <2>1, RefuseSound DEF Reasons
<1>5. CASE /\ s.mode # "Server" /\ response.body = "Matching"
           /\ s.state = "Negotiating"
  <2> DEFINE told == Append(s.events, "Opened")
             t == [s EXCEPT !.key = response.key, !.id = response.id,
                            !.state = "Running", !.events = told]
  <2>1. s \in Sessions /\ s.outgoing \in Seq(Quiet)
        /\ s.openOnNextPacket = FALSE /\ s.events = <<>> /\ past # "Open"
    BY <1>5 DEF Sound, LastWords, Told
  <2>2. r = t
    BY <1>5 DEF HandleSessionResponse
  <2>3. told = <<"Opened">> /\ told \in Seq({"Opened", "Closed"})
    BY <2>1, EventSequences
  <2> HIDE DEF told
  <2>4. /\ t \in Sessions /\ t.outputs = s.outputs /\ t.inputs = s.inputs
        /\ t.state = "Running" /\ t.events = told
        /\ t.openOnNextPacket = FALSE
        /\ t.outgoing = s.outgoing /\ t.received = s.received
    BY <2>1, <2>3 DEF Sessions, Seeds
  <2> HIDE DEF t
  <2>5. WindowsHold(t) /\ Told(past, t) /\ LastWords(t)
    BY <2>1, <2>3, <2>4 DEF Sound, WindowsHold, Told, LastWords
  <2>6. ~Surfacing(t)
    BY <2>4 DEF Surfacing
  <2> QED
    BY <2>2, <2>4, <2>5, <2>6 DEF Sound
<1> QED
  BY <1>1, <1>2, <1>3, <1>4, <1>5 DEF Bodies

LEMMA SurfaceSound ==
    ASSUME NEW past \in Pasts, NEW s, Sound(past, s),
           s.state # "Terminated", Entitled(past, s)
    PROVE  /\ Sound(past, [s EXCEPT !.received = Append(@, ChannelCount)])
           /\ [s EXCEPT !.received = Append(@, ChannelCount)].state = s.state
<1> DEFINE up == Append(s.received, ChannelCount)
           r == [s EXCEPT !.received = up]
<1>1. s \in Sessions
  BY DEF Sound
<1>2. up \in Seq(0 .. ChannelCount)
  <2>1. ChannelCount \in 0 .. ChannelCount
    BY SessionAssumption DEF SessionAssumption
  <2>2. s.received \in Seq(0 .. ChannelCount)
    BY <1>1 DEF Sessions
  <2> QED
    BY <2>1, <2>2, AppendProperties
<1> HIDE DEF up
<1>3. /\ r \in Sessions /\ r.outputs = s.outputs
      /\ r.state = s.state /\ r.key = s.key /\ r.events = s.events
      /\ r.openOnNextPacket = s.openOnNextPacket /\ r.outgoing = s.outgoing
  BY <1>1, <1>2 DEF Sessions
<1> HIDE DEF r
<1>4. WindowsHold(r) /\ Told(past, r) /\ LastWords(r) /\ Entitled(past, r)
  BY <1>3 DEF Sound, WindowsHold, Told, LastWords, Entitled, Opened
<1>5. Sound(past, r)
  BY <1>3, <1>4 DEF Sound
<1> QED
  BY <1>3, <1>5 DEF r, up

LEMMA UnreliableSound ==
    ASSUME NEW past \in Pasts, NEW s, Sound(past, s), s.state # "Terminated",
           NEW datagram, datagram.known \in BOOLEAN
    PROVE  Sound(past, HandleUnreliable(s, datagram))
<1> DEFINE r == HandleUnreliable(s, datagram)
<1>1. CASE s.state # "Running"
  <2>1. r = Refuse(s, "CorruptPacket")
    BY <1>1 DEF HandleUnreliable
  <2> QED
    BY <2>1, RefuseSound DEF Reasons
<1>2. CASE s.state = "Running" /\ datagram.key # s.key
  <2>1. r = s
    BY <1>2 DEF HandleUnreliable
  <2> QED
    BY <2>1
<1>3. CASE s.state = "Running" /\ datagram.key = s.key /\ ~datagram.known
  <2>1. r = Refuse(s, "CorruptPacket")
    BY <1>3 DEF HandleUnreliable
  <2> QED
    BY <2>1, RefuseSound DEF Reasons
<1>4. CASE s.state = "Running" /\ datagram.key = s.key /\ datagram.known
  <2> DEFINE told == IF s.openOnNextPacket THEN Append(s.events, "Opened")
                                           ELSE s.events
             a == [s EXCEPT !.events = told, !.openOnNextPacket = FALSE,
                            !.idle = 0]
             up == Append(s.received, ChannelCount)
  <2>1. r = [s EXCEPT !.idle = 0, !.events = told,
                      !.openOnNextPacket = FALSE, !.received = up]
    BY <1>4 DEF HandleUnreliable
  <2>2. Accept(s) = a
    BY DEF Accept
  <2>3. s \in Sessions
    BY DEF Sound
  <2>4. r = [a EXCEPT !.received = up] /\ a.received = s.received
    <3> HIDE DEF told, up
    <3> QED
      BY <2>1, <2>3 DEF Sessions
  <2>5. r = [Accept(s) EXCEPT !.received = Append(@, ChannelCount)]
    <3> HIDE DEF a
    <3> QED
      BY <2>2, <2>4
  <2>6. Sound(past, Accept(s)) /\ Entitled(past, Accept(s))
        /\ Accept(s).state # "Terminated"
    BY <1>4, AcceptSound
  <2>7. Sound(past, [Accept(s) EXCEPT !.received = Append(@, ChannelCount)])
    BY <2>6, SurfaceSound
  <2> QED
    BY <2>5, <2>7
<1> QED
  BY <1>1, <1>2, <1>3, <1>4

\* A call on a drained session leaves it sound, with nothing to flush.
LEMMA IncomingSound ==
    ASSUME NEW past \in Pasts, NEW s, Sound(past, s),
           s.state # "Terminated", ~Surfacing(s),
           NEW datagram \in Incoming,
           NEW key, datagram.op = "SessionRequest" => key \in Keys,
           \/ past = "Lax" \/ s.state = "Running"
           \/ ~(datagram.op = "Contextual" /\ datagram.key = s.key)
    PROVE  /\ Sound(past, ProcessIncoming(s, datagram, key))
           /\ Flushed(ProcessIncoming(s, datagram, key))
<1> DEFINE r == ProcessIncoming(s, datagram, key)
<1>1. /\ Sound(past, Accept(s))
      /\ s.state = "Running" \/ past = "Lax" => Entitled(past, Accept(s))
      /\ Accept(s).state # "Terminated" /\ Accept(s).openOnNextPacket = FALSE
  BY AcceptSound
<1>2. ~Surfacing(Accept(s))
  <2>1. Accept(s).received = s.received /\ Accept(s).inputs = s.inputs
    BY AcceptSound
  <2> QED
    BY <2>1 DEF Surfacing
<1>3. SUFFICES \/ \E t : Sound(past, t) /\ r = FlushChannels(t)
               \/ Sound(past, r) /\ r.state = "Terminated"
  BY FlushSound DEF Sound, LastWords
<1>4. CASE datagram.op = "Unreliable"
  <2>1. datagram.known \in BOOLEAN
    BY <1>4 DEF Incoming
  <2>2. r = FlushChannels(HandleUnreliable(s, datagram))
    BY <1>4 DEF ProcessIncoming
  <2> QED
    BY <2>1, <2>2, UnreliableSound
<1>5. CASE datagram.op = "Short"
  <2>1. r = Refuse(s, "CorruptPacket")
    BY <1>5 DEF ProcessIncoming
  <2> QED
    BY <2>1, RefuseSound DEF Reasons
<1>6. CASE datagram.op = "Contextual" /\ datagram.key = s.key
  <2>1. datagram.packets \in Seq(Arrivals)
    BY <1>6 DEF Incoming
  <2>2. r = FlushChannels(HandlePackets(Accept(s), datagram.packets))
    BY <1>6 DEF ProcessIncoming
  <2>3. Entitled(past, Accept(s))
    BY <1>1, <1>6
  <2> QED
    BY <1>1, <2>1, <2>2, <2>3, PacketsSound
<1>7. CASE datagram.op = "Contextual" /\ datagram.key # s.key
  <2>1. r = Refuse(s, "CorruptPacket")
    BY <1>7 DEF ProcessIncoming
  <2> QED
    BY <2>1, RefuseSound DEF Reasons
<1>8. CASE datagram.op = "SessionRequest"
  <2>1. datagram.id \in Ids /\ datagram.body \in Bodies
    BY <1>8 DEF Incoming, Bodies
  <2>2. r = FlushChannels(HandleSessionRequest(Accept(s), datagram, key))
    BY <1>8 DEF ProcessIncoming
  <2> QED
    BY <1>1, <1>2, <1>8, <2>1, <2>2, RequestSound
<1>9. CASE datagram.op = "SessionResponse"
  <2>1. /\ datagram.id \in Ids /\ datagram.body \in Bodies
        /\ datagram.key \in Keys
    BY <1>9 DEF Incoming, Bodies
  <2>2. r = FlushChannels(HandleSessionResponse(Accept(s), datagram))
    BY <1>9 DEF ProcessIncoming
  <2> QED
    BY <1>1, <1>2, <2>1, <2>2, ResponseSound
<1>10. CASE datagram.op = "UnknownSender"
  <2>1. r = FlushChannels(Abandon(Accept(s), "UnreachableConnection"))
    BY <1>10 DEF ProcessIncoming
  <2> QED
    BY <1>1, <2>1, AbandonSound DEF Reasons
<1>11. CASE datagram.op = "RemapConnection"
  <2>1. r = FlushChannels(Accept(s))
    BY <1>11 DEF ProcessIncoming
  <2> QED
    BY <1>1, <2>1
<1> QED
  BY <1>4, <1>5, <1>6, <1>7, <1>8, <1>9, <1>10, <1>11 DEF Incoming

-----------------------------------------------------------------------------
(* Time, and the application. *)

LEMMA TickInputsSound ==
    ASSUME NEW past \in Pasts, NEW s, Sound(past, s), s.state # "Terminated"
    PROVE  Sound(past, TickInputs(s)) /\ TickInputs(s).state = s.state
<1> DEFINE ins == [ch \in Channels |-> TickInput(s.inputs[ch])]
           r == [s EXCEPT !.inputs = ins]
<1>1. s \in Sessions
  BY DEF Sound
<1>2. TickInputs(s) = r
  BY <1>1 DEF TickInputs, Sessions
<1>3. ASSUME NEW ch \in Channels
      PROVE  TickInput(s.inputs[ch]) \in Inputs
             /\ TickInput(s.inputs[ch]).app = s.inputs[ch].app
  <2>1. s.inputs[ch] \in Inputs
    BY <1>1 DEF Sessions
  <2>2. /\ s.inputs[ch].acks \in Seq({"Acknowledge", "AcknowledgeAll"})
        /\ Append(s.inputs[ch].acks, "AcknowledgeAll")
              \in Seq({"Acknowledge", "AcknowledgeAll"})
    BY <2>1 DEF Inputs
  <2> QED
    BY <2>1, <2>2 DEF Inputs, TickInput
<1>4. /\ ins \in [Channels -> Inputs]
      /\ \A ch \in Channels : ins[ch].app = s.inputs[ch].app
  BY <1>3
<1> HIDE DEF ins
<1>5. /\ r \in Sessions /\ r.inputs = ins /\ r.outputs = s.outputs
      /\ r.state = s.state /\ r.key = s.key /\ r.events = s.events
      /\ r.openOnNextPacket = s.openOnNextPacket /\ r.outgoing = s.outgoing
      /\ r.received = s.received
  BY <1>1, <1>4 DEF Sessions
<1> HIDE DEF r
<1>6. WindowsHold(r) /\ Told(past, r) /\ LastWords(r)
  BY <1>5 DEF Sound, WindowsHold, Told, LastWords
<1>7. /\ Surfacing(r) => Surfacing(s)
      /\ Entitled(past, s) => Entitled(past, r)
  BY <1>4, <1>5 DEF Surfacing, Entitled, Opened
<1>8. Sound(past, r)
  BY <1>5, <1>6, <1>7 DEF Sound
<1> QED
  BY <1>2, <1>5, <1>8

LEMMA TickSound ==
    ASSUME NEW past \in Pasts, NEW s, Sound(past, s), s.state # "Terminated"
    PROVE  Sound(past, RunTick(s)) /\ Flushed(RunTick(s))
<1> DEFINE beaten == SendHeartbeatIfRequired(s)
<1>1. Sound(past, beaten) /\ beaten.state = s.state
  <2> DEFINE message == Contextual(s.key, [op |-> "Heartbeat"])
  <2>1. message \in Quiet
    BY DEF Quiet, Carried, Sound, Sessions
  <2>2. \/ beaten = s
        \/ beaten = [s EXCEPT !.outgoing = Append(@, message)]
    BY DEF SendHeartbeatIfRequired
  <2> HIDE DEF beaten, message
  <2>3. LET b == [s EXCEPT !.outgoing = Append(@, message)]
        IN  Sound(past, b) /\ b.state = s.state
    BY <2>1, SendSound
  <2> QED
    BY <2>2, <2>3
<1> HIDE DEF beaten
<1>2. CASE Inactive(s)
  <2>1. RunTick(s) = Abandon(beaten, "Timeout")
    BY <1>2 DEF RunTick, beaten
  <2>2. Sound(past, RunTick(s)) /\ RunTick(s).state = "Terminated"
    BY <1>1, <2>1, AbandonSound DEF Reasons
  <2> QED
    BY <2>2 DEF Sound, LastWords
<1>3. CASE ~Inactive(s)
  <2>1. RunTick(s) = FlushChannels(TickOutputs(TickInputs(beaten)))
    BY <1>3 DEF RunTick, beaten
  <2>2. /\ Sound(past, TickInputs(beaten))
        /\ TickInputs(beaten).state # "Terminated"
    BY <1>1, TickInputsSound
  <2>3. Sound(past, TickOutputs(TickInputs(beaten)))
    BY <2>2, TickOutputsSound
  <2> QED
    BY <2>1, <2>3, FlushSound
<1> QED
  BY <1>2, <1>3

LEMMA AgeSound ==
    ASSUME NEW past \in Pasts, NEW s, Sound(past, s),
           s.state # "Terminated", Flushed(s)
    PROVE  Sound(past, Age(s)) /\ Flushed(Age(s))
<1> DEFINE old == Least(s.idle + 1, MaxIdle)
           outs == [ch \in Channels |->
                       [s.outputs[ch] EXCEPT !.overdue = s.outputs[ch].sent > 0]]
           r == [s EXCEPT !.idle = old, !.outputs = outs]
<1>1. s \in Sessions
  BY DEF Sound
<1>2. Age(s) = r
  BY <1>1 DEF Age, Sessions
<1>3. old \in 0 .. MaxIdle
  <2>1. s.idle \in 0 .. MaxIdle /\ MaxIdle \in Nat
    BY <1>1, SessionAssumption DEF Sessions, MaxIdle, SessionAssumption
  <2> QED
    BY <2>1 DEF Least
<1>4. ASSUME NEW ch \in Channels
      PROVE  /\ outs[ch] \in Outputs /\ outs[ch].sent = s.outputs[ch].sent
             /\ outs[ch].queued = s.outputs[ch].queued
             /\ outs[ch].ready = s.outputs[ch].ready
  <2>1. s.outputs[ch] \in Outputs
    BY <1>1 DEF Sessions
  <2> DEFINE late == s.outputs[ch].sent > 0
  <2>2. late \in BOOLEAN
    OBVIOUS
  <2>3. outs[ch] = [s.outputs[ch] EXCEPT !.overdue = late]
    OBVIOUS
  <2> HIDE DEF late, outs
  <2> QED
    BY <2>1, <2>2, <2>3 DEF Outputs
<1>5. outs \in [Channels -> Outputs]
  BY <1>4
<1> HIDE DEF old, outs
<1>6. /\ r \in Sessions /\ r.inputs = s.inputs /\ r.outputs = outs
      /\ r.state = s.state /\ r.key = s.key /\ r.events = s.events
      /\ r.openOnNextPacket = s.openOnNextPacket /\ r.outgoing = s.outgoing
      /\ r.received = s.received
  BY <1>1, <1>3, <1>5 DEF Sessions
<1> HIDE DEF r
<1>7. WindowsHold(r) /\ Told(past, r) /\ LastWords(r) /\ Flushed(r)
  BY <1>4, <1>6 DEF Sound, WindowsHold, Told, LastWords, Flushed
<1>8. /\ Surfacing(r) => Surfacing(s)
      /\ Entitled(past, s) => Entitled(past, r)
  BY <1>6 DEF Surfacing, Entitled, Opened
<1> QED
  BY <1>2, <1>6, <1>7, <1>8 DEF Sound

LEMMA EnqueueReliableSound ==
    ASSUME NEW past \in Pasts, NEW s, Sound(past, s),
           Flushed(s), NEW ch \in Channels
    PROVE  /\ Sound(past, EnqueueReliable(s, ch))
           /\ Flushed(EnqueueReliable(s, ch))
<1>1. CASE s.state # "Running"
  <2>1. EnqueueReliable(s, ch) = s
    BY <1>1 DEF EnqueueReliable
  <2> QED
    BY <2>1
<1>2. CASE s.state = "Running"
  <2> DEFINE queued == s.outputs[ch].queued + 1
             output == [s.outputs[ch] EXCEPT !.queued = queued]
             r == [s EXCEPT !.outputs[ch] = output]
  <2>1. s \in Sessions /\ s.outputs \in [Channels -> Outputs]
    BY DEF Sound, Sessions
  <2>2. EnqueueReliable(s, ch) = r
    BY <1>2 DEF EnqueueReliable
  <2>3. /\ s.outputs[ch] \in Outputs /\ Window \in Nat
        /\ s.outputs[ch].sent <= s.outputs[ch].queued
        /\ s.outputs[ch].sent <= Window
    BY <2>1, SessionAssumption DEF Sound, WindowsHold, SessionAssumption
  <2>4. s.outputs[ch].queued \in Nat /\ s.outputs[ch].sent \in Nat
    BY <2>3 DEF Outputs
  <2>5. queued \in Nat /\ s.outputs[ch].sent <= queued
    BY <2>3, <2>4
  <2> HIDE DEF queued
  <2>6. /\ output \in Outputs /\ output.sent = s.outputs[ch].sent
        /\ output.queued = queued /\ output.ready = s.outputs[ch].ready
    BY <2>3, <2>5 DEF Outputs
  <2> HIDE DEF output
  <2>7. Sound(past, r)
    BY <1>2, <2>3, <2>5, <2>6, OneOutputChanges
  <2>8. /\ r.inputs = s.inputs
        /\ \A c \in Channels :
              r.outputs[c] = IF c = ch THEN output ELSE s.outputs[c]
    BY <2>1 DEF Sessions
  <2> HIDE DEF r
  <2>9. Flushed(r)
    BY <2>6, <2>8 DEF Flushed
  <2> QED
    BY <2>2, <2>7, <2>9
<1> QED
  BY <1>1, <1>2

LEMMA EnqueueUnreliableSound ==
    ASSUME NEW past \in Pasts, NEW s, Sound(past, s),
           Flushed(s), NEW tooLarge \in BOOLEAN
    PROVE  /\ Sound(past, EnqueueUnreliable(s, tooLarge))
           /\ Flushed(EnqueueUnreliable(s, tooLarge))
<1> DEFINE r == EnqueueUnreliable(s, tooLarge)
<1>1. CASE s.state # "Running"
  <2>1. r = s
    BY <1>1 DEF EnqueueUnreliable
  <2> QED
    BY <2>1
<1>2. CASE s.state = "Running" /\ tooLarge
  <2>1. r = EnqueueReliable(s, 0)
    BY <1>2 DEF EnqueueUnreliable
  <2>2. 0 \in Channels
    BY SessionAssumption DEF Channels, SessionAssumption
  <2> QED
    BY <2>1, <2>2, EnqueueReliableSound
<1>3. CASE s.state = "Running" /\ ~tooLarge
  <2>1. r = [s EXCEPT !.outgoing = Append(@, Unreliable(s.key))]
    BY <1>3 DEF EnqueueUnreliable
  <2>2. s \in Sessions /\ Unreliable(s.key) \in Quiet
    BY DEF Sound, Sessions, Quiet
  <2>3. Sound(past, r)
    BY <1>3, <2>1, <2>2, SendSound
  <2>4. r.inputs = s.inputs /\ r.outputs = s.outputs
    BY <2>1, <2>2 DEF Sessions
  <2>5. Flushed(r)
    BY <2>4 DEF Flushed
  <2> QED
    BY <2>3, <2>5
<1> QED
  BY <1>1, <1>2, <1>3

LEMMA ConnectSound ==
    ASSUME NEW past \in Pasts, NEW s, Sound(past, s),
           Flushed(s), NEW id \in Ids
    PROVE  /\ Sound(past, SendSessionRequest(s, id))
           /\ Flushed(SendSessionRequest(s, id))
<1> DEFINE r == SendSessionRequest(s, id)
           named == [s EXCEPT !.id = id]
           message == SessionRequest(id)
<1>1. CASE s.state # "Negotiating" \/ s.mode # "Client"
  <2>1. r = s
    BY <1>1 DEF SendSessionRequest
  <2> QED
    BY <2>1
<1>2. CASE s.state = "Negotiating" /\ s.mode = "Client"
  <2>1. s \in Sessions
    BY DEF Sound
  <2>2. r = [s EXCEPT !.id = id, !.outgoing = Append(s.outgoing, message)]
    BY <1>2 DEF SendSessionRequest
  <2>3. /\ named.outgoing = s.outgoing /\ named.inputs = s.inputs
        /\ named.outputs = s.outputs /\ named \in Sessions
    BY <2>1 DEF Sessions
  <2>4. r = [named EXCEPT !.outgoing = Append(@, message)]
    <3> HIDE DEF message
    <3> QED
      BY <2>1, <2>2, <2>3 DEF Sessions
  <2>5. Sound(past, named) /\ named.state = s.state
    BY NamedSound
  <2>6. message \in Quiet
    BY DEF Quiet
  <2> HIDE DEF named, message
  <2>7. Sound(past, [named EXCEPT !.outgoing = Append(@, message)])
    BY <1>2, <2>5, <2>6, SendSound
  <2>8. /\ [named EXCEPT !.outgoing = Append(@, message)].inputs = s.inputs
        /\ [named EXCEPT !.outgoing = Append(@, message)].outputs = s.outputs
    BY <2>3 DEF Sessions
  <2>9. Flushed([named EXCEPT !.outgoing = Append(@, message)])
    BY <2>8 DEF Flushed
  <2> QED
    BY <2>4, <2>7, <2>9
<1> QED
  BY <1>1, <1>2

\* A caller that has taken what a session sends and surfaces leaves it sound.
LEMMA TakenSound ==
    ASSUME NEW past \in Pasts, NEW s, Sound(past, s), Flushed(s),
           NEW t, t = [s EXCEPT !.outgoing = <<>>, !.received = <<>>]
    PROVE  /\ Sound(past, t) /\ Flushed(t) /\ ~Surfacing(t)
           /\ t.state = s.state
<1>1. s \in Sessions
  BY DEF Sound
<1>2. <<>> \in Seq(Quiet \cup Notices) /\ <<>> \in Seq(0 .. ChannelCount)
      /\ <<>> \in Seq(Quiet)
  OBVIOUS
<1>3. /\ t \in Sessions
      /\ t.outgoing = <<>> /\ t.received = <<>>
      /\ t.inputs = s.inputs /\ t.outputs = s.outputs
      /\ t.state = s.state /\ t.key = s.key /\ t.events = s.events
      /\ t.openOnNextPacket = s.openOnNextPacket
  BY <1>1, <1>2 DEF Sessions
<1>4. Flushed(t)
  BY <1>3 DEF Flushed
<1>5. ~Surfacing(t)
  BY <1>3, <1>4 DEF Surfacing, Flushed
<1>6. WindowsHold(t) /\ Told(past, t)
  BY <1>3 DEF Sound, WindowsHold, Told
<1>7. LastWords(t)
  BY <1>2, <1>3, <1>4 DEF LastWords
<1> QED
  BY <1>3, <1>4, <1>5, <1>6, <1>7 DEF Sound

LEMMA NewSound ==
    ASSUME NEW mode \in {"Client", "Server"},
           NEW past \in Pasts, past # "Open"
    PROVE  Sound(past, New(mode)) /\ Flushed(New(mode))
<1>1. /\ EmptyInput \in Inputs
      /\ EmptyInput.acks = <<>> /\ EmptyInput.app = 0
  <2>1. <<>> \in Seq({"Acknowledge", "AcknowledgeAll"})
    OBVIOUS
  <2> QED
    BY <2>1 DEF EmptyInput, Inputs
<1>2. /\ EmptyOutput \in Outputs
      /\ EmptyOutput.ready = 0 /\ EmptyOutput.sent = 0
      /\ EmptyOutput.queued = 0
  BY DEF EmptyOutput, Outputs
<1>3. /\ <<>> \in Seq(Quiet \cup Notices) /\ <<>> \in Seq(0 .. ChannelCount)
      /\ <<>> \in Seq(Quiet) /\ <<>> \in Seq({"Opened", "Closed"})
  OBVIOUS
<1>4. 0 \in 0 .. MaxIdle
  BY SessionAssumption DEF MaxIdle, SessionAssumption
<1>5. /\ New(mode) \in Sessions
      /\ New(mode).outgoing = <<>> /\ New(mode).received = <<>>
      /\ New(mode).events = <<>> /\ New(mode).state = "Negotiating"
      /\ New(mode).key = NoKey /\ New(mode).openOnNextPacket = FALSE
      /\ New(mode).inputs = [ch \in Channels |-> EmptyInput]
      /\ New(mode).outputs = [ch \in Channels |-> EmptyOutput]
  BY <1>1, <1>2, <1>3, <1>4 DEF New, Sessions, Seeds, Reasons
<1> DEFINE s == New(mode)
<1> HIDE DEF s
<1>6. WindowsHold(New(mode)) /\ Flushed(New(mode))
  BY <1>1, <1>2, <1>5, SessionAssumption
     DEF WindowsHold, Flushed, SessionAssumption
<1>7. Told(past, New(mode)) /\ LastWords(New(mode)) /\ ~Surfacing(New(mode))
  BY <1>1, <1>3, <1>5 DEF Told, LastWords, Surfacing
<1> QED
  BY <1>5, <1>6, <1>7 DEF Sound
=============================================================================
