----------------------------- MODULE Connection -----------------------------
(***************************************************************************)
(* A client and a server, each a SoeMultiplexer (src/socket.rs) that knows *)
(* the other as its one remote, and UDP between them: datagrams are lost,  *)
(* reordered and delivered twice, and those of an ended session meet the   *)
(* session that follows it.                                                *)
(*                                                                         *)
(* A multiplexer drains a session after every call, keeps it while it has  *)
(* not terminated, and hands its events on, each tagged here with the seed *)
(* of the session; data that follows data is not recorded again.           *)
(***************************************************************************)
EXTENDS Session

CONSTANTS
    Links,          \* the links to look at: "faulty", "live" or both
    MaxSessions,    \* sessions the client opens, one after the other
    MaxQueued,      \* packets queued on a channel of a faulty link
    LiveQueued,     \* packets queued on a channel of a live link
    MaxNet,         \* datagrams under way that best-effort data may add to
    MaxCopies       \* second copies the network delivers

ASSUME ConnectionAssumption ==
    /\ MaxSessions \in Nat
    /\ MaxCopies \in Nat
    /\ 1 .. MaxSessions \subseteq Ids
    /\ 1 .. MaxSessions + MaxCopies \subseteq Keys

Host == {"client", "server"}
Other(h) == IF h = "client" THEN "server" ELSE "client"

NoSession == [New("Client") EXCEPT !.state = "None"]

VARIABLES
    link,       \* what the network does with datagrams
    sess,       \* each host's session with the other, or NoSession
    net,        \* datagrams under way
    copies,     \* second copies the network has made
    log,        \* the events each host's application was given
    requests,   \* sessions the client has opened
    drawn       \* CRC seeds the server has drawn

vars == <<link, sess, net, copies, log, requests, drawn>>

Init ==
    /\ link \in Links
    /\ sess = [h \in Host |-> NoSession]
    /\ net = {}
    /\ copies = 0
    /\ log = [h \in Host |-> <<>>]
    /\ requests = 0
    /\ drawn = 0

Live(h) == sess[h].state # "None"
Running(h) == sess[h].state = "Running"

-----------------------------------------------------------------------------
(* drain_session and remove_if_terminated. *)

Has(s, event) == \E i \in DOMAIN s.events : s.events[i] = event

OpenedEvents(s) ==
    IF Has(s, "Opened") THEN <<[event |-> "Opened", key |-> s.key]>> ELSE <<>>
DataEvents(s, before) ==
    IF s.received = <<>> \/ (before # <<>> /\ Last(before).event = "Data")
    THEN <<>> ELSE <<[event |-> "Data", key |-> s.key]>>
ClosedEvents(s) ==
    IF Has(s, "Closed")
    THEN <<[event |-> "Closed", key |-> s.key, reason |-> s.reason,
            byRemote |-> s.byRemote]>>
    ELSE <<>>

\* Mutant of Surfaced: the data a datagram carries comes before its events.
SurfacedDataFirst(before, s) ==
    before \o DataEvents(s, before) \o OpenedEvents(s) \o ClosedEvents(s)

Surfaced(before, s) ==
    LET open == before \o OpenedEvents(s)
    IN  open \o DataEvents(s, open) \o ClosedEvents(s)

Drained(s) ==
    [s EXCEPT !.outgoing = <<>>, !.received = <<>>, !.events = <<>>]

Sent(h, s) ==
    {[to |-> Other(h), datagram |-> s.outgoing[i]] : i \in DOMAIN s.outgoing}

\* The hosts' sessions are now `after`, and `left` is left of the network.
Settle(after, left) ==
    /\ sess' = [h \in Host |-> IF after[h].state = "Terminated" THEN NoSession
                                                 ELSE Drained(after[h])]
    /\ net' = left \cup UNION {Sent(h, after[h]) : h \in Host}
    /\ log' = [h \in Host |-> Surfaced(log[h], after[h])]

-----------------------------------------------------------------------------

Connect ==
    /\ ~Live("client")
    /\ requests < MaxSessions
    /\ requests' = requests + 1
    /\ Settle([sess EXCEPT !["client"] =
                  SendSessionRequest(New("Client"), requests + 1)], net)
    /\ UNCHANGED <<copies, drawn>>

Enqueue(h) ==
    /\ Running(h)
    /\ sess[h].outputs[0].queued <
          IF link = "live" THEN LiveQueued ELSE MaxQueued
    /\ Settle([sess EXCEPT ![h] = EnqueueReliable(@, 0)], net)
    /\ UNCHANGED <<copies, requests, drawn>>

SendBestEffort(h) ==
    /\ Running(h)
    /\ Cardinality(net) < MaxNet
    /\ Settle([sess EXCEPT ![h] = EnqueueUnreliable(@, FALSE)], net)
    /\ UNCHANGED <<copies, requests, drawn>>

Close(h) ==
    /\ Live(h)
    /\ Settle([sess EXCEPT ![h] = Refuse(@, "Application")], net)
    /\ UNCHANGED <<copies, requests, drawn>>

Tick(h) ==
    /\ Live(h)
    /\ Settle([sess EXCEPT ![h] = RunTick(@)], net)
    /\ UNCHANGED <<copies, requests, drawn>>

Elapse ==
    /\ \E h \in Host : Live(h) /\ Age(sess[h]) # sess[h]
    /\ sess' = [h \in Host |-> IF Live(h) THEN Age(sess[h]) ELSE sess[h]]
    /\ UNCHANGED <<net, copies, log, requests, drawn>>

-----------------------------------------------------------------------------
(* The network. *)

\* A SessionRequest from a stranger opens a session; any other datagram of a
\* stranger is dropped.
Begun(h, datagram) ==
    IF ~Live(h) /\ datagram.op = "SessionRequest" THEN New("Server") ELSE sess[h]

\* What the channels may make of a datagram.
Outcomes(datagram, effects, counts) ==
    IF datagram.op # "Contextual" THEN {datagram}
    ELSE CASE datagram.packets[1].op = "ReliableData" ->
                  {[datagram EXCEPT !.packets[1].effect = e] : e \in effects}
           [] datagram.packets[1].op \in {"Acknowledge", "AcknowledgeAll"} ->
                  {[datagram EXCEPT !.packets[1].covers = n] : n \in counts}
           [] OTHER -> {datagram}

Deliver(m, outcome, left) ==
    LET h     == m.to
        begun == Begun(h, m.datagram)
        next  == ProcessIncoming(begun, outcome, drawn + 1)
    IN  /\ m \in net
        /\ IF begun.state = "None"
           THEN net' = left /\ UNCHANGED <<sess, log, drawn>>
           ELSE /\ Settle([sess EXCEPT ![h] = next], left)
                /\ drawn' = IF next.key # begun.key /\ next.mode = "Server"
                            THEN drawn + 1 ELSE drawn
        /\ UNCHANGED requests

AnyOutcome(datagram) ==
    Outcomes(datagram, {"InOrder", "Ahead", "Nudged", "Dropped"}, 0 .. Window)

DeliverOnce(m) ==
    /\ \E outcome \in AnyOutcome(m.datagram) : Deliver(m, outcome, net \ {m})
    /\ UNCHANGED copies

\* The network delivers a copy and keeps another.
DeliverCopy(m) ==
    /\ copies < MaxCopies
    /\ \E outcome \in AnyOutcome(m.datagram) : Deliver(m, outcome, net)
    /\ copies' = copies + 1

Lose(m) ==
    /\ m \in net
    /\ net' = net \ {m}
    /\ UNCHANGED <<sess, copies, log, requests, drawn>>

FaultyNext ==
    \/ Connect
    \/ \E h \in Host : Enqueue(h) \/ SendBestEffort(h) \/ Close(h) \/ Tick(h)
    \/ Elapse
    \/ \E m \in net : DeliverOnce(m) \/ DeliverCopy(m) \/ Lose(m)

-----------------------------------------------------------------------------
(* A live link: every datagram arrives, once and in the unit of time in    *)
(* which it was sent, and both drivers tick in every unit, more than once  *)
(* if a channel has something to send.                                     *)

NothingDue ==
    \A h \in Host : \A ch \in Channels :
        /\ ~sess[h].inputs[ch].owed
        /\ TickOutput(sess[h].outputs[ch]) = sess[h].outputs[ch]

Round ==
    /\ net = {}
    /\ NothingDue
    /\ \E h \in Host : Live(h)
    /\ Settle([h \in Host |-> IF Live(h) THEN RunTick(Age(sess[h]))
                                         ELSE sess[h]], {})
    /\ UNCHANGED <<copies, requests, drawn>>

\* The handshake's datagrams overtake nothing and nothing overtakes them.
Handshake(m) == m.datagram.op # "Contextual" /\ m.datagram.op # "Unreliable"
InTurn(m) == Handshake(m) \/ \A n \in net : ~Handshake(n)

\* Nothing is sent twice, so that every packet is new to its channel.
DeliverNew(m) ==
    /\ \E outcome \in Outcomes(m.datagram, {"InOrder", "Fragment", "Ahead"},
                                {1}) :
          Deliver(m, outcome, net \ {m})
    /\ UNCHANGED copies

LiveNext ==
    \/ Connect
    \/ \E h \in Host : Enqueue(h) \/ Close(h) \/ Tick(h)
    \/ SendBestEffort("client")
    \/ Round
    \/ \E m \in net : InTurn(m) /\ DeliverNew(m)

-----------------------------------------------------------------------------

Next ==
    /\ \/ link = "faulty" /\ FaultyNext
       \/ link = "live" /\ LiveNext
    /\ UNCHANGED link

Spec == Init /\ [][Next]_vars

\* The drivers tick and the clock runs; the network owes nothing.
FaultyElapse == link = "faulty" /\ Elapse /\ UNCHANGED link
FaultyTick(h) == link = "faulty" /\ Tick(h) /\ UNCHANGED link

FairSpec ==
    Spec /\ WF_vars(FaultyElapse) /\ \A h \in Host : WF_vars(FaultyTick(h))

-----------------------------------------------------------------------------
(* Correctness. *)

ClosedAt(h, i) == log[h][i].event = "Closed"

\* README.md:241-245: a session's SessionOpened comes before any of its data
\* and its SessionClosed after, in whatever datagrams the three came about,
\* across the sessions that follow one another on an address.
EventsInOrder ==
    \A h \in Host : \A i \in DOMAIN log[h] :
        /\ log[h][i].event = "Data" =>
              \E j \in 1 .. i - 1 : /\ log[h][j].event = "Opened"
                                    /\ \A k \in j .. i : ~ClosedAt(h, k)
        /\ log[h][i].event = "Opened" =>
              i = 1 \/ ClosedAt(h, i - 1)

\* A session ends as terminated by its remote only if that remote did end the
\* very session, for the reason given: the Disconnect of an earlier session
\* between the same hosts never ends a later one.
ByRemoteIsTrue ==
    \A h \in Host : \A i \in DOMAIN log[h] :
        (ClosedAt(h, i) /\ log[h][i].byRemote) =>
            \E j \in DOMAIN log[Other(h)] :
                log[Other(h)][j] = [log[h][i] EXCEPT !.byRemote = FALSE]

\* Two sessions that agreed on different seeds (a response to an earlier
\* request answered a later one) do not stay in each other's way for ever.
MismatchEnds ==
    (link = "faulty" /\ Running("client") /\ Running("server")
        /\ sess["client"].key # sess["server"].key)
    ~> ~(Running("client") /\ Running("server")
            /\ sess["client"].key # sess["server"].key)

\* A client is not left negotiating, though it asks only once.
NegotiationEnds ==
    (link = "faulty" /\ sess["client"].state = "Negotiating")
        ~> sess["client"].state # "Negotiating"

\* A server does not keep for ever the session of a client that is gone,
\* whether the Disconnect arrives, is lost, or was never sent; nor one that
\* the second copy of a request opened behind it.
NoSessionOutlivesItsClient ==
    (link = "faulty" /\ <>[](~Live("client"))) => <>[](~Live("server"))

\* On a live link no session times out while the other end has one: heartbeats
\* and their echoes keep idle sessions alive, however little time
\* inactivity_timeout leaves after heartbeat_after. (Best-effort data that only
\* the server sends is left out: its client would stay silent.)
TimesOut(h) ==
    /\ Len(log'[h]) > Len(log[h])
    /\ LET event == log'[h][Len(log'[h])]
       IN  event.event = "Closed" /\ event.reason = "Timeout"

LiveLinkHolds ==
    [][\A h \in Host : (link = "live" /\ TimesOut(h)) => ~Live(Other(h))]_vars
=============================================================================
