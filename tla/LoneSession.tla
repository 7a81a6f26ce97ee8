----------------------------- MODULE LoneSession -----------------------------
(***************************************************************************)
(* A session against any remote: one that bundles packets, mixes channels, *)
(* sends malformed data and packets that belong to no state, under any     *)
(* seed a server may draw. Its caller drains it after every call, as       *)
(* SoeMultiplexer does: `outgoing` and `received` are those of the last    *)
(* call; `events` is kept.                                                 *)
(***************************************************************************)
EXTENDS Session

CONSTANTS
    MaxBundle,    \* packets in a datagram
    MaxQueued     \* packets queued on a channel

ASSUME LoneSessionAssumption == MaxBundle \in Nat /\ MaxQueued \in Nat

VARIABLE session

Packets ==
    [op : {"Disconnect"}, reason : {"Application"}]
    \cup [op : {"Heartbeat", "Malformed", "Other"}]
    \cup [op : {"ReliableData"}, channel : Channels,
          effect : {"InOrder", "Fragment", "Ahead", "Nudged", "Malformed"}]
    \cup [op : {"AcknowledgeAll"}, channel : Channels, covers : 0 .. Window]

Datagrams ==
    [op : {"SessionRequest"}, id : Ids,
     body : {"Matching", "Mismatched", "Malformed"}]
    \cup [op : {"SessionResponse"}, id : Ids, key : Keys,
          body : {"Matching", "Mismatched", "Malformed"}]
    \cup [op : {"Short", "UnknownSender", "RemapConnection"}]
    \cup [op : {"Unreliable"}, key : Seeds, known : BOOLEAN]
    \cup [op : {"Contextual"}, key : Seeds,
          packets : UNION {[1 .. n -> Packets] : n \in 1 .. MaxBundle}]

Init == session \in {New(mode) : mode \in {"Client", "Server"}}

drained == [session EXCEPT !.outgoing = <<>>, !.received = <<>>]

Connect(id) ==
    /\ session.id = NoId
    /\ session' = SendSessionRequest(drained, id)

\* Only a request makes the generator draw a seed.
Receive(datagram) ==
    /\ session.state # "Terminated"
    /\ \E key \in IF datagram.op = "SessionRequest" THEN Keys ELSE {NoKey} :
          session' = ProcessIncoming(drained, datagram, key)

Tick ==
    /\ session.state # "Terminated"
    /\ session' = RunTick(drained)

Elapse ==
    /\ session.state # "Terminated"
    /\ session' = Age(drained)

EnqueueOn(ch) ==
    session' = EnqueueReliable(drained, ch)

EnqueueBestEffort(tooLarge) ==
    session' = EnqueueUnreliable(drained, tooLarge)

Close(notifyRemote) ==
    session' = Terminate(drained, "Application", notifyRemote, FALSE)

Bounded == \A ch \in Channels : session'.outputs[ch].queued <= MaxQueued

Next ==
    /\ \/ \E id \in Ids : Connect(id)
       \/ \E datagram \in Datagrams : Receive(datagram)
       \/ Tick
       \/ Elapse
       \/ \E ch \in Channels : EnqueueOn(ch)
       \/ \E tooLarge \in BOOLEAN : EnqueueBestEffort(tooLarge)
       \/ \E notifyRemote \in BOOLEAN : Close(notifyRemote)
    /\ Bounded

Spec == Init /\ [][Next]_session

-----------------------------------------------------------------------------
(* Correctness. *)

\* Every field stays in its range.
TypeOK ==
    /\ session.mode \in {"Client", "Server"}
    /\ session.state \in {"Negotiating", "Running", "Terminated"}
    /\ session.key \in Seeds /\ session.id \in Ids \cup {NoId}
    /\ session.openOnNextPacket \in BOOLEAN /\ session.byRemote \in BOOLEAN
    /\ session.idle \in 0 .. MaxIdle
    /\ session.received \in Seq(0 .. ChannelCount)
    /\ session.events \in Seq({"Opened", "Closed"})
    /\ \A ch \in Channels :
          LET output == session.outputs[ch]
          IN  0 <= output.sent /\ output.sent <= output.queued

\* An application hears of a session at most twice: that it opened, then that
\* it closed, and of its end exactly when it has ended. Only a session that is
\* negotiating, or a server that waits for its client's first packet, has not
\* opened while it lives.
Lifecycle ==
    LET opened == \E i \in DOMAIN session.events : session.events[i] = "Opened"
    IN  /\ session.events \in {<<>>, <<"Opened">>, <<"Closed">>,
                               <<"Opened", "Closed">>}
        /\ session.state = "Terminated" <=>
              \E i \in DOMAIN session.events : session.events[i] = "Closed"
        /\ session.state = "Running" =>
              (opened <=> ~session.openOnNextPacket)

\* Application data comes after the session opened, whichever packet opens it:
\* the packet that completes the handshake on the server's side may be the one
\* that carries the data, reliable or not. Only a session that has agreed on no
\* seed may surface data before: while it negotiates it accepts what is framed
\* with the seed it starts with.
DataAfterOpened ==
    session.received # <<>> =>
        \/ session.events # <<>> /\ session.events[1] = "Opened"
        \/ session.key = NoKey

\* The Disconnect is the last thing a session sends: what its channels had to
\* send goes out before it, and nothing after it.
DisconnectIsLast ==
    /\ \A i \in DOMAIN session.outgoing :
          (session.outgoing[i].op = "Contextual"
              /\ session.outgoing[i].packets[1].op = "Disconnect")
          => i = Len(session.outgoing)
    /\ session.state = "Terminated" =>
          \A ch \in Channels : Pending(session, ch) = <<>>
=============================================================================
