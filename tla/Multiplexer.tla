----------------------------- MODULE Multiplexer -----------------------------
(***************************************************************************)
(* SoeMultiplexer (src/socket.rs): the sessions of one socket, by remote   *)
(* address, against any remotes. Connection composes two multiplexers of   *)
(* one session each; here one has several, opened from both sides,         *)
(* replaced and moved to other addresses.                                  *)
(*                                                                         *)
(* Every call drains the sessions it touched, so that the others have      *)
(* nothing to drain: Settle drains them all. The datagrams a session sends *)
(* leave the model there.                                                  *)
(***************************************************************************)
EXTENDS Session

CONSTANTS
    Addr,               \* remote addresses
    SameHost(_, _),     \* RemoteAddr::same_host
    AllowPortRemaps,    \* SocketConfig::allow_port_remaps
    MaxBirths,          \* sessions that are created
    MaxQueued           \* packets queued on a channel

ASSUME MultiplexerAssumption ==
    AllowPortRemaps \in BOOLEAN /\ MaxBirths \in Nat /\ MaxQueued \in Nat

NoSession == [New("Client") EXCEPT !.state = "None"]

VARIABLES
    sessions,   \* the session of each address, or NoSession
    births,     \* sessions created: next_seed, counted from 0
    birth,      \* history: which of them each address has
    told,       \* history: the events surfaced of each session
    view,       \* history: what the events of each address say of it
    disturbed,  \* history: addresses replaced or moved since their last event
    stray,      \* history: where the last call surfaced data before Opened,
                \* though nothing was disturbed there
    replaced    \* history: sessions that connect put another one over

history == <<birth, told, view, disturbed, stray, replaced>>
vars == <<sessions, births, history>>

Init ==
    /\ sessions = [a \in Addr |-> NoSession]
    /\ births = 0
    /\ birth = [a \in Addr |-> 0]
    /\ told = [b \in 1 .. MaxBirths |-> <<>>]
    /\ view = [a \in Addr |-> "Unknown"]
    /\ disturbed = {} /\ stray = {} /\ replaced = {}

Live(a) == sessions[a].state # "None"

-----------------------------------------------------------------------------
(* drain_into and the removal of terminated sessions. *)

Has(s, event) == \E i \in DOMAIN s.events : s.events[i] = event
If(condition, event) == IF condition THEN <<event>> ELSE <<>>

\* Mutants of Surfaced. The end is told before the data that came with it.
SurfacedDataLast(s) ==
    If(Has(s, "Opened"), "Opened") \o If(Has(s, "Closed"), "Closed")
        \o If(s.received # <<>>, "Data")

\* A session's events are dropped when it ended in the call that opened it.
SurfacedFirst(s) ==
    IF s.events = <<>> THEN If(s.received # <<>>, "Data")
    ELSE If(Head(s.events) = "Opened", "Opened") \o If(s.received # <<>>, "Data")
            \o If(Head(s.events) = "Closed", "Closed")

\* What one drain tells of a session, in its order.
Surfaced(s) ==
    If(Has(s, "Opened"), "Opened") \o If(s.received # <<>>, "Data")
        \o If(Has(s, "Closed"), "Closed")

\* Data that follows data is not told again.
Heard(before, events) ==
    IF events # <<>> /\ before # <<>>
          /\ Head(events) = "Data" /\ Last(before) = "Data"
    THEN before \o Tail(events)
    ELSE before \o events

Drained(s) ==
    [s EXCEPT !.outgoing = <<>>, !.received = <<>>, !.events = <<>>]

Kept(s) == IF s.state = "Terminated" THEN NoSession ELSE Drained(s)

Seen(before, events) ==
    IF Contains(events, "Closed") THEN "Closed"
    ELSE IF Contains(events, "Opened") THEN "Open"
    ELSE before

Lifecycle(events) == Contains(events, "Opened") \/ Contains(events, "Closed")

\* The sessions are now `after`, those of `newborn`; `upset` are the addresses
\* this call took a session from or gave another's to.
Settle(after, newborn, upset) ==
    LET events == [a \in Addr |-> Surfaced(after[a])]
    IN  /\ sessions' = [a \in Addr |-> Kept(after[a])]
        /\ birth' = newborn
        /\ told' = [b \in 1 .. MaxBirths |->
              IF \E a \in Addr : newborn[a] = b /\ after[a].state # "None"
              THEN LET a == CHOOSE x \in Addr :
                                newborn[x] = b /\ after[x].state # "None"
                   IN  Heard(told[b], events[a])
              ELSE told[b]]
        /\ view' = [a \in Addr |-> Seen(view[a], events[a])]
        /\ disturbed' = (disturbed \cup upset)
              \ {a \in Addr : Lifecycle(events[a])}
        /\ stray' = {a \in Addr : /\ a \notin disturbed \cup upset
                                  /\ Contains(events[a], "Data")
                                  /\ view[a] # "Open"
                                  /\ ~Contains(events[a], "Opened")}

-----------------------------------------------------------------------------
(* The application's calls. *)

Created(a) == [birth EXCEPT ![a] = births + 1]

\* The new session takes the address, whatever session has it.
Connect(a, id) ==
    /\ births < MaxBirths
    /\ births' = births + 1
    /\ replaced' = replaced \cup (IF Live(a) THEN {birth[a]} ELSE {})
    /\ Settle([sessions EXCEPT ![a] = SendSessionRequest(New("Client"), id)],
              Created(a), IF Live(a) THEN {a} ELSE {})

Enqueue(a, s) ==
    /\ Live(a)
    /\ s.outputs[0].queued <= MaxQueued
    /\ Settle([sessions EXCEPT ![a] = s], birth, {})
    /\ UNCHANGED <<births, replaced>>

EnqueueDataOn(a) ==
    \/ Enqueue(a, EnqueueReliable(sessions[a], 0))
    \/ \E tooLarge \in BOOLEAN :
          Enqueue(a, EnqueueUnreliable(sessions[a], tooLarge))

TerminateAt(a) ==
    /\ Live(a)
    /\ Settle([sessions EXCEPT ![a] = Refuse(@, "Application")], birth, {})
    /\ UNCHANGED <<births, replaced>>

-----------------------------------------------------------------------------
(* Datagrams. *)

Data == [op |-> "ReliableData", channel |-> 0, effect |-> "InOrder"]
Bye  == [op |-> "Disconnect", reason |-> "Application"]

Datagrams ==
    [op : {"SessionRequest"}, id : Ids, body : {"Matching", "Malformed"}]
    \cup [op : {"SessionResponse"}, id : Ids, key : Keys, body : {"Matching"}]
    \cup [op : {"Contextual"}, key : Keys,
          packets : {<<Data>>, <<Bye>>, <<Data, Bye>>}]
    \cup [op : {"UnknownSender"}]

\* A SessionRequest from a stranger opens a session; any other datagram of a
\* stranger, but a remap, is dropped.
Begun(a, datagram) ==
    IF ~Live(a) /\ datagram.op = "SessionRequest" THEN New("Server")
                                                  ELSE sessions[a]

ProcessIncomingAt(a, datagram) ==
    LET begun == Begun(a, datagram)
    IN  /\ begun.state # "None"
        /\ births' = births + (IF Live(a) THEN 0 ELSE 1)
        /\ births' <= MaxBirths
        /\ \E key \in IF datagram.op = "SessionRequest" THEN Keys ELSE {NoKey} :
              Settle([sessions EXCEPT ![a] = ProcessIncoming(begun, datagram, key)],
                     IF Live(a) THEN birth ELSE Created(a), {})
        /\ UNCHANGED replaced

\* Mutant of HandleRemap: another host's session may be taken.
HandleRemapAnyHost(from, id, key) ==
    /\ AllowPortRemaps /\ ~Live(from)
    /\ \E old \in Addr :
          /\ Live(old) /\ sessions[old].id = id /\ sessions[old].key = key
          /\ Settle([sessions EXCEPT ![from] = sessions[old], ![old] = NoSession],
                    [birth EXCEPT ![from] = birth[old]], {old, from})
    /\ UNCHANGED <<births, replaced>>

\* The first session found that agrees with the remap, in the map's own order,
\* moves to `from`, which has none.
HandleRemap(from, id, key) ==
    /\ AllowPortRemaps /\ ~Live(from)
    /\ \E old \in Addr :
          /\ Live(old) /\ sessions[old].id = id /\ sessions[old].key = key
          /\ SameHost(old, from)
          /\ Settle([sessions EXCEPT ![from] = sessions[old], ![old] = NoSession],
                    [birth EXCEPT ![from] = birth[old]], {old, from})
    /\ UNCHANGED <<births, replaced>>

-----------------------------------------------------------------------------
(* Time. *)

\* Mutant of RunTickAll: the sessions that end are removed before they are
\* drained.
RunTickSweeping ==
    LET ticked == [a \in Addr |-> IF Live(a) THEN RunTick(sessions[a])
                                             ELSE NoSession]
    IN  /\ \E a \in Addr : Live(a)
        /\ Settle([a \in Addr |-> IF ticked[a].state = "Terminated"
                                  THEN NoSession ELSE ticked[a]], birth, {})
        /\ UNCHANGED <<births, replaced>>

RunTickAll ==
    /\ \E a \in Addr : Live(a)
    /\ Settle([a \in Addr |-> IF Live(a) THEN RunTick(sessions[a])
                                         ELSE NoSession], birth, {})
    /\ UNCHANGED <<births, replaced>>

Elapse ==
    /\ \E a \in Addr : Live(a) /\ Age(sessions[a]) # sessions[a]
    /\ sessions' = [a \in Addr |-> IF Live(a) THEN Age(sessions[a])
                                              ELSE NoSession]
    /\ stray' = {}
    /\ UNCHANGED <<births, birth, told, view, disturbed, replaced>>

Next ==
    \/ \E a \in Addr :
          \/ \E id \in Ids : Connect(a, id)
          \/ EnqueueDataOn(a)
          \/ TerminateAt(a)
          \/ \E datagram \in Datagrams : ProcessIncomingAt(a, datagram)
          \/ \E id \in Ids, key \in Keys \cup {NoKey} : HandleRemap(a, id, key)
    \/ RunTickAll
    \/ Elapse

Spec == Init /\ [][Next]_vars

-----------------------------------------------------------------------------
(* Correctness. *)

Homes(b) == {a \in Addr : Live(a) /\ birth[a] = b}

\* No session is lost between the calls that create, move, replace, end and
\* sweep sessions: each one created has one address, or its application was
\* told that it closed, or connect put another one over it.
NoSessionVanishes ==
    \A b \in 1 .. births :
        \/ Cardinality(Homes(b)) = 1 /\ ~Contains(told[b], "Closed")
        \/ Homes(b) = {} /\ (Contains(told[b], "Closed") \/ b \in replaced)

\* Whatever call drains it, each session is told as opened once, before its
\* data, and as closed last (the comment on drain_into), even if it moved.
ToldInOrder ==
    \A b \in 1 .. births :
        told[b] \in {<<>>, <<"Opened">>, <<"Opened", "Data">>, <<"Closed">>,
                     <<"Opened", "Closed">>, <<"Opened", "Data", "Closed">>}

\* An application that keeps its state by address, as the comment on drain_into
\* suggests, is right about every address: it takes it for open if and only if
\* the session there has opened, and gets data only then. Only connecting over
\* a session or moving one makes it wrong, and only until the next event of
\* that address.
ViewIsTrue ==
    /\ \A a \in Addr \ disturbed :
          view[a] = "Open" <=> Live(a) /\ Contains(told[birth[a]], "Opened")
    /\ stray = {}

\* A session changes its address only within its host, onto an address that
\* has no session, and as it was: its state, its keys and all that it has
\* queued move with it.
RemapMovesWhole ==
    [][\A b \in 1 .. births : \A old \in Homes(b) :
          ~(Live(old) /\ birth[old] = b)' =>
              \A new \in Addr : (Live(new) /\ birth[new] = b)' =>
                  /\ SameHost(old, new) /\ ~Live(new)
                  /\ sessions'[new] = sessions[old]
                  /\ told'[b] = told[b]]_vars
=============================================================================
