------------------------------- MODULE Driver -------------------------------
(***************************************************************************)
(* What drives a multiplexer over a UDP socket:                            *)
(*   "server"  drive_loop, the task of a TokioSoeServer;                   *)
(*   "client"  client_drive_loop, the task of a TokioSoeClient;            *)
(*   "step"    TokioSoeSocket::step (all three in src/tokio_rt.rs);        *)
(*   "sync"    SyncSoeSocket::step (src/sync_rt.rs);                       *)
(*   "drive"   SoeMultiplexer::drive (src/socket.rs).                      *)
(* The first two are actors: tasks post commands to them through handles,  *)
(* and they give their events to the receiver that their owner holds. The  *)
(* other three are called over and over by the thread that owns them.      *)
(*                                                                         *)
(* The multiplexer is reduced to what a call on it leaves in it: some      *)
(* datagrams and some events, each known by its number.                    *)
(***************************************************************************)
EXTENDS Naturals, Sequences, FiniteSets, SequencesExt

CONSTANTS
    Kinds,          \* the drivers to look at
    MaxDatagrams,   \* datagrams the multiplexer makes
    MaxEvents,      \* events it makes
    MaxPerCall,     \* at most so many of each in one call
    MaxCommands,    \* commands that are posted
    MaxHandles      \* handles, the owner's not counted

Actors == {"server", "client"}
ASSUME DriverAssumption ==
    /\ Kinds \subseteq Actors \cup {"step", "sync", "drive"}
    /\ MaxPerCall \in Nat

VARIABLES
    kind,
    flood,        \* datagrams keep arriving: the socket never runs dry
    phase,        \* "select", "sending", "publishing" or "stopped"
    outgoing,     \* the multiplexer's datagrams
    events,       \* the multiplexer's events
    beat,         \* history: flips whenever the sessions are ticked
    datagrams,    \* how many datagrams it has made
    eventsMade,   \* how many events it has made
    batch,        \* taken from `outgoing`, being sent
    batchEnds,    \* history: how many datagrams it had made at each taking
    taken,        \* taken from `events`, being published
    sent,         \* datagrams given to the network
    failed,       \* datagrams whose own send failed
    cancelled,    \* datagrams whose send was awaited when a step was dropped
    heard,        \* events the application was given
    commands,     \* the command channel
    posted,       \* how many commands were accepted
    executed,     \* commands run on the multiplexer
    handles,      \* handles that are alive, the owner's not counted
    owner         \* the owner, with its handle and the event receiver, is alive

mux == <<outgoing, events, datagrams, eventsMade, beat>>
ends == <<handles, owner>>
inbox == <<commands, posted, executed>>
outbox == <<batch, batchEnds, taken, sent, failed, cancelled, heard>>
vars == <<kind, flood, phase, mux, outbox, inbox, ends>>

Upto(n) == [i \in 1 .. n |-> i]
From(n, count) == [i \in 1 .. count |-> n + i]

\* A client's first batch is the session request it starts with.
Init ==
    /\ kind \in Kinds
    /\ flood \in BOOLEAN
    /\ datagrams = IF kind = "client" THEN 1 ELSE 0
    /\ batch = Upto(datagrams) /\ batchEnds = {datagrams}
    /\ phase = IF kind = "client" THEN "sending" ELSE "select"
    /\ outgoing = <<>> /\ events = <<>> /\ eventsMade = 0 /\ beat = 0
    /\ taken = <<>> /\ sent = <<>> /\ failed = {} /\ cancelled = {}
    /\ heard = <<>>
    /\ commands = <<>> /\ posted = 0 /\ executed = <<>>
    /\ handles = 0 /\ owner = TRUE

Actor == kind \in Actors
Selecting == phase = "select"

\* A call on the multiplexer: what it makes is added to what is there.
Work ==
    \E d, e \in 0 .. MaxPerCall :
        /\ datagrams + d <= MaxDatagrams
        /\ eventsMade + e <= MaxEvents
        /\ outgoing' = outgoing \o From(datagrams, d)
        /\ datagrams' = datagrams + d
        /\ events' = events \o From(eventsMade, e)
        /\ eventsMade' = eventsMade + e

-----------------------------------------------------------------------------
(* The branches of the select; receiving that fails changes nothing. *)

Stepped == kind \in {"step", "sync"}

\* Mutant of ReceiveDatagram: a step ticks only if no datagram came.
ReceiveDatagramInstead ==
    /\ Selecting
    /\ Work
    /\ UNCHANGED beat
    /\ phase' = IF kind = "drive" THEN "select" ELSE "sending"
    /\ UNCHANGED <<kind, flood, outbox, inbox, ends>>

\* An actor processes the datagram, a step ticks after it, drive() reads on.
ReceiveDatagram ==
    /\ Selecting
    /\ Work
    /\ beat' = IF Stepped THEN 1 - beat ELSE beat
    /\ phase' = IF kind = "drive" THEN "select" ELSE "sending"
    /\ UNCHANGED <<kind, flood, outbox, inbox, ends>>

\* The interval of a Tokio driver fires whatever arrives; the others tick when
\* no datagram does.
TickReady == kind \in {"sync", "drive"} => ~flood

RunTick ==
    /\ Selecting /\ TickReady
    /\ Work
    /\ beat' = 1 - beat
    /\ phase' = "sending"
    /\ UNCHANGED <<kind, flood, outbox, inbox, ends>>

RunCommand ==
    /\ Actor /\ Selecting
    /\ commands # <<>>
    /\ Work
    /\ UNCHANGED beat
    /\ executed' = Append(executed, Head(commands))
    /\ commands' = Tail(commands)
    /\ phase' = "sending"
    /\ UNCHANGED <<kind, flood, outbox, posted, ends>>

\* Mutant of Disconnected: the loop keeps a handle of its own.
DisconnectedNever == FALSE

\* The channel is closed: no handle is left, and nothing is left in it.
Disconnected == commands = <<>> /\ ~owner /\ handles = 0

Stop ==
    /\ Actor /\ Selecting
    /\ Disconnected
    /\ phase' = "stopped"
    /\ UNCHANGED <<kind, flood, mux, outbox, inbox, ends>>

-----------------------------------------------------------------------------
(* The end of a cycle: datagrams out one by one, then the events. *)

\* take_outgoing, once the call on the multiplexer returned. What is taken at
\* once is a batch of its own.
TakeOutgoing ==
    /\ phase = "sending" /\ outgoing # <<>>
    /\ batch' = outgoing
    /\ batchEnds' = batchEnds \cup {datagrams}
    /\ outgoing' = <<>>
    /\ UNCHANGED <<kind, flood, phase, events, datagrams, eventsMade, beat,
                   taken, sent, failed, cancelled, heard, inbox, ends>>

SendReady == phase = "sending" /\ outgoing = <<>> /\ batch # <<>>

SendDatagram ==
    /\ SendReady
    /\ sent' = Append(sent, Head(batch))
    /\ batch' = Tail(batch)
    /\ UNCHANGED <<kind, flood, phase, mux, batchEnds, taken, failed, cancelled,
                   heard, inbox, ends>>

\* Mutants of SendFails. The events were taken before the sends.
SendFailsWithEvents ==
    /\ SendReady
    /\ failed' = failed \cup {Head(batch)}
    /\ IF Actor
       THEN batch' = Tail(batch) /\ UNCHANGED <<phase, events>>
       ELSE batch' = <<>> /\ phase' = "select" /\ events' = <<>>
    /\ UNCHANGED <<kind, flood, outgoing, datagrams, eventsMade, beat, batchEnds,
                   taken, sent, cancelled, heard, inbox, ends>>

\* A failed send ends the batch, whoever drives.
SendFailsForAll ==
    /\ SendReady
    /\ failed' = failed \cup {Head(batch)}
    /\ batch' = <<>>
    /\ UNCHANGED <<kind, flood, phase, mux, batchEnds, taken, sent, cancelled,
                   heard, inbox, ends>>

\* An actor goes on with the next one; the others return the error, and with it
\* drop the rest of the batch. The events stay in the multiplexer.
SendFails ==
    /\ SendReady
    /\ failed' = failed \cup {Head(batch)}
    /\ IF Actor
       THEN batch' = Tail(batch) /\ UNCHANGED phase
       ELSE batch' = <<>> /\ phase' = "select"
    /\ UNCHANGED <<kind, flood, mux, batchEnds, taken, sent, cancelled, heard,
                   inbox, ends>>

\* take_events: an actor publishes them, the others return them; drive()
\* leaves them to its caller, who takes them.
TakeEvents ==
    /\ phase = "sending" /\ outgoing = <<>> /\ batch = <<>>
    /\ events' = <<>>
    /\ IF Actor
       THEN taken' = events /\ phase' = "publishing" /\ UNCHANGED heard
       ELSE heard' = heard \o events /\ phase' = "select" /\ UNCHANGED taken
    /\ UNCHANGED <<kind, flood, outgoing, datagrams, eventsMade, beat, batch,
                   batchEnds, sent, failed, cancelled, inbox, ends>>

Publish ==
    /\ phase = "publishing"
    /\ IF taken = <<>> THEN phase' = "select" /\ UNCHANGED <<taken, heard>>
       ELSE IF owner
       THEN /\ heard' = Append(heard, Head(taken))
            /\ taken' = Tail(taken)
            /\ UNCHANGED phase
       ELSE phase' = "stopped" /\ UNCHANGED <<taken, heard>>
    /\ UNCHANGED <<kind, flood, mux, batch, batchEnds, sent, failed, cancelled,
                   inbox, ends>>

-----------------------------------------------------------------------------
(* The tasks around it. *)

\* A handle's call, which says whether the command was accepted.
Post ==
    /\ Actor /\ phase # "stopped"
    /\ owner \/ handles > 0
    /\ posted < MaxCommands
    /\ posted' = posted + 1
    /\ commands' = Append(commands, posted + 1)
    /\ UNCHANGED <<kind, flood, phase, mux, outbox, executed, ends>>

\* connect, enqueue_data and terminate on the socket itself, between steps.
CallBetweenSteps ==
    /\ ~Actor /\ Selecting
    /\ Work
    /\ UNCHANGED beat
    /\ UNCHANGED <<kind, flood, phase, outbox, inbox, ends>>

CloneHandle ==
    /\ Actor
    /\ owner \/ handles > 0
    /\ handles < MaxHandles
    /\ handles' = handles + 1
    /\ UNCHANGED <<kind, flood, phase, mux, outbox, inbox, owner>>

DropHandle ==
    /\ handles > 0
    /\ handles' = handles - 1
    /\ UNCHANGED <<kind, flood, phase, mux, outbox, inbox, owner>>

DropOwner ==
    /\ Actor /\ owner
    /\ owner' = FALSE
    /\ UNCHANGED <<kind, flood, phase, mux, outbox, inbox, handles>>

\* abort() stops the task where it awaits; publishing does not await.
Abort ==
    /\ Actor /\ owner
    /\ phase \in {"select", "sending"}
    /\ phase' = "stopped"
    /\ UNCHANGED <<kind, flood, mux, outbox, inbox, ends>>

\* The future of step() is dropped where it awaits a send.
CancelStep ==
    /\ kind = "step" /\ SendReady
    /\ cancelled' = cancelled \cup {Head(batch)}
    /\ batch' = <<>>
    /\ phase' = "select"
    /\ UNCHANGED <<kind, flood, mux, batchEnds, taken, sent, failed, heard, inbox,
                   ends>>

-----------------------------------------------------------------------------

Next ==
    \/ ReceiveDatagram \/ RunTick \/ RunCommand \/ Stop
    \/ TakeOutgoing \/ SendDatagram \/ SendFails \/ TakeEvents \/ Publish
    \/ Post \/ CallBetweenSteps \/ CloneHandle \/ DropHandle \/ DropOwner
    \/ Abort \/ CancelStep

Spec == Init /\ [][Next]_vars

\* Every send returns, one way or the other. select! polls its branches in a
\* random order, so that a branch that is ready over and over is taken; what
\* is stepped is stepped for ever, and receiving does not always fail.
FairSpec ==
    /\ Spec
    /\ WF_vars(TakeOutgoing) /\ WF_vars(SendDatagram \/ SendFails)
    /\ WF_vars(TakeEvents) /\ WF_vars(Publish)
    /\ WF_vars(Stepped /\ (ReceiveDatagram \/ RunTick))
    /\ SF_vars(RunTick) /\ SF_vars(RunCommand) /\ SF_vars(Stop)

-----------------------------------------------------------------------------
(* Correctness. *)

Stopped == phase = "stopped"

\* Every event reaches the application, once and in the order in which it was
\* made, however sends fail, steps are dropped half-way and calls add to what
\* a failed step left behind; a driver that stops may take the last of them
\* with it, never one from the middle.
NoEventIsLost ==
    IF Stopped
    THEN heard = Upto(Len(heard))
    ELSE heard \o taken \o events = Upto(eventsMade)

\* Two datagrams were taken for the network by the same cycle.
SameBatch(m, n) == ~\E end \in batchEnds : m <= end /\ end < n

\* A send of the same batch failed or was cancelled, of n or before n.
Behind(n) == \E m \in failed \cup cancelled : m <= n /\ SameBatch(m, n)

\* The datagrams that were made and are neither sent nor still to be sent.
Lost == 1 .. datagrams \ (ToSet(sent) \cup ToSet(batch) \cup ToSet(outgoing))

\* A datagram that cannot be sent costs an actor that datagram alone ("a send
\* failure for one datagram shouldn't tear down every session"). It costs a
\* step, as dropping its future does, that datagram and those behind it in the
\* same batch, and nothing of an earlier or a later cycle, nor what a call
\* between two steps queued. Those sent go out once, in the order they were
\* made.
FailureStaysLocal ==
    /\ \A i, j \in DOMAIN sent : i < j => sent[i] < sent[j]
    /\ Lost = IF Actor THEN failed ELSE {n \in 1 .. datagrams : Behind(n)}

\* No command that was accepted waits for ever, and no driver outlives the
\* last of its handles: the one and the other under a stream of datagrams that
\* never ends.
NothingWaitsForEver ==
    /\ \A n \in 1 .. MaxCommands :
          (posted >= n) ~> (Contains(executed, n) \/ Stopped)
    /\ (Actor /\ ~owner /\ handles = 0) ~> Stopped

\* While it runs, a driver ticks its sessions for ever, whatever arrives: no
\* stream of datagrams keeps timeouts and acknowledgements from falling due.
\* (Such a stream does keep drive() from it, which reads until the socket runs
\* dry: there the stream must pause.)
TickedForEver ==
    \/ <>Stopped
    \/ kind = "drive" /\ flood
    \/ []<>(beat = 0) /\ []<>(beat = 1)
=============================================================================
