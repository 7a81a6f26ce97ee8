# A TLA+ model of soe-protocol

soe-protocol is a Rust implementation of the SOE protocol: sessions over UDP,
each with up to four reliable channels (sequenced, acknowledged, retransmitted)
and one best-effort channel. This directory holds TLA+ modules translated from
its source, the TLC configurations that check them, and TLAPS proofs about them.

    tlc -config MCReliableInput.cfg MCReliableInput     # one run
    tlapm ReliableInputProofs.tla                       # the proofs of a module

Paths below are relative to `src/src/`.

## The system

| part | state | operations | used by |
|---|---|---|---|
| sequence numbers, `channel/mod.rs` | none | `true_incoming_sequence`: a 16-bit number back to a count | both channels |
| input channel, `channel/input.rs` | window start, stash, reassembly buffer, last AcknowledgeAll and its time | data and fragments in, tick, take acknowledgements and data | session |
| output channel, `channel/output.rs` | dispatch queue and index, counts, retransmit timeout | enqueue, tick, Acknowledge, AcknowledgeAll, take packets | session |
| session, `session.rs` | state, negotiated parameters, time of the last packet, four lazily made channels each way, three outboxes | datagram in, tick, enqueue, terminate, request a session | multiplexer |
| multiplexer, `socket.rs` | sessions by address, outboxes | connect, enqueue, terminate, datagram in, tick, remap | drivers |
| drivers, `tokio_rt.rs`, `sync_rt.rs` | socket, timer, command and event queues | one loop: receive, tick or command, then send and hand out events | application |
| framing, `packets.rs`, `packet_utils.rs`, `protocol.rs`, `io.rs`, `varint.rs` | none | parse, validate, serialise | session |
| `rc4.rs`, `crc32/`, `zlib.rs` | cipher state | byte computations | channels, session |

Everything below the drivers is a synchronous state machine: no threads, no
locks, `now` is an argument. What makes it hard is its environment (datagrams
lost, reordered, repeated, or left over from an earlier session; timers against
late answers) and the agreement it needs between two ends that see different
things: two windows, two roles in keeping a session alive, one CRC seed.

What makes each part correct:

- *Sequence numbers*: a number within the window decodes to the count that was
  sent, across any number of wraps.
- *Input channel*: every sequence is processed once and in order; nothing is
  acknowledged that is not held; the stash holds only what lies ahead.
- *Output channel*: the queue is the ordered tail of what was enqueued, no
  packet is passed over, and no more than the window is in flight.
- *Both*: an ordered, lossless stream. No packet leaves the queue before the
  receiver holds it. Everything is delivered in the end.
- *Session*: Opened once and before any data, Closed once and last, nothing
  sent after the Disconnect; a session whose remote is gone ends.
- *Two hosts*: no datagram of one session harms the next; hosts that disagree
  do not stay so; a live link keeps a session alive.
- *Multiplexer*: no session vanishes without a word, an application that keeps
  its state by address is right about it, a remap moves a session whole.
- *Drivers*: no event is lost and a failed send costs one datagram; what was
  accepted is run, ticks are not starved, a task without handles ends.
- *Bytes*: what was sent is what arrives, the two ends of a cipher stay in step,
  and no datagram is longer than the remote accepts.

`PROJECT.json` lists the hazards in this code, each at its line, with the
properties that cover it.

## The modules

| module | what it is |
|---|---|
| `Sequence` | `Wire` (`as u16`) and `TrueIncomingSequence`, for any size of the number space |
| `ReliableInput` | the input channel; `HandleReliable` is the whole of `handle_reliable_data` and `handle_reliable_data_fragment`, stash and reassembly included |
| `ReliableOutput` | the output channel: one action per method |
| `TimedOutput` | extends it with send times, round-trip samples, the retransmit timeout and its backoff |
| `ReliableStream` | the abstract promise: messages come out whole, in order, once |
| `ReliableChannel` | an output, a network and an input, by INSTANCE of the two with the network as their `outgoing`; refines `ReliableStream` |
| `Session` | one session as a record, each method of `SoeSession` an operator on it |
| `LoneSession` | one session against any remote and any caller |
| `Connection` | two multiplexers with one session each, and UDP between them |
| `Multiplexer` | one multiplexer with several remotes, replaced and remapped sessions included |
| `Driver` | the five loops that drive a multiplexer over a socket, with the tasks around them |
| `Bytes`, `Packets`, `Rc4` | numbers, fields and lengths as bytes; OP codes, the packets' fields, minimum lengths; the cipher |
| `Wire` | application data and packets through all of these, from one session to the other |
| `MC*` | bounds for TLC |
| `SessionProofs` | one lemma for each operator of `Session`, for `LoneSessionProofs`, `MultiplexerProofs` and `ConnectionProofs` |
| other `*Proofs` | the proofs about the module of that name; those about `Sequence` are in `ReliableInputProofs`, those about `ReliableOutput` in `TimedOutputProofs` |

Operators named in a comment "Mutant of ..." are wrong versions of the
definition that follows them. Nothing uses them; put in its place, each makes a
run fail, which shows that the run's property depends on the code.

### How state and actions correspond

*Reliable channels.* A packet is `[id, frag, total]`: `id` is the sender's
`total_sequence`, which a handler sees only as `Wire(id)`; `total` is the length
prefix of a master fragment. Lengths count fragments. Delivered data is the
sequence of the ids it was assembled from, so that a lost, repeated or
misplaced fragment shows. Time in the input channel is the age of the last
AcknowledgeAll. In `ReliableOutput` it is left out: a packet in flight may be
overdue at any tick, which covers every timeout that the estimator computes, and
is what `ReliableChannel` needs.

*The output channel's clock.* `TimedOutput` conjoins to each action of
`ReliableOutput` what that method does to `sent_at`, `resent`, `srtt`, `rttvar`
and `rto`. `run_tick`'s choice is then no choice: `TimedOut` compares the age of
the front packet with `rto`. Durations are whole units and divisions truncate,
as those of `Duration` do at a finer grain. Two history variables count the
dispatches of a packet and the time since the window was last sent again.

*Sessions.* A session sees of an output how many packets are queued, sent and
ready, and of an input which acknowledgements and data are to be flushed; what a
channel makes of a packet is chosen by the run ("InOrder", "Fragment", "Ahead",
"Nudged", "Dropped", "Malformed"; how many packets an acknowledgement covers).
Flushing order, the flush in `terminate_inner`, early returns and the state
each handler refuses are as in the code. A CRC is modelled by its seed: a
datagram framed with another seed fails validation (`crc_length` is never 0
here, and `acknowledge_all_data` is off). A session starts with the seed
`NoKey`, 0, and nothing keeps the seed a server draws from being 0 as well. An unknown OP code is an "Unreliable"
datagram, known or not, as in `handle_unreliable`. A unit of time is longer than
the largest retransmit timeout (8 s against a heartbeat after 25 s).

*Two hosts.* `Settle` is what every call of the multiplexer ends with:
`drain_session`, with the order of events that `drain_into` imposes, and
`remove_if_terminated`. The network is a set of datagrams: any may be delivered
or lost at any moment, and delivered while a copy stays. A set merges equal
datagrams. The log tags each event with the CRC seed of its session, so that
properties can tell sessions between the same two hosts apart. `Links` gives the
network that is faulty, and the live one on which everything arrives within the
unit of time in which it was sent.

*Several remotes.* `Multiplexer` has one record of `Session` per address. Its
remotes say anything, except under the seed 0 that a session starts with
(`SeedsTell`, below). Every call drains the session it touched, and the tick all
of them, so that `Settle` may drain all: the others have nothing. `told` and
`view` are the application: what it heard of each session, and what an
application that keys its state by address (as the comment on `drain_into`
suggests) takes the address for.

*Drivers.* `Driver` covers `drive_loop`, `client_drive_loop`, both `step`
functions and `drive`. A call on the multiplexer is reduced to what it leaves:
some datagrams, some events, each known by its number. One action is one branch
of the select, one `send_to`, one event published; tasks act in between. A send
may fail, and the future of `step` be dropped where it awaits one. `flood` says
that the socket never runs dry.

*Bytes.* `Wire` has one direction of a running session and a network in order. A
byte has 32 values instead of 256 (`Radix`): enough for all the OP codes, so
that every boundary of the format (0, 0xFF, 0xFFFF, the width of a length) is a
few bytes away. The sender may also be a remote that bundles, since this
implementation reads bundles though it writes none. `Hash` stands in for the
CRC: what the properties depend on is which bytes it covers. In the other models
a session's data is one value and its datagrams are records.

## The runs

| run | question | bounds |
|---|---|---|
| `input_reorder` | input channel against reordering and repetition | space 6, window 2, ids 0..6: every slot is shared by two ids in turn, the numbers wrap; packets and fragments, prefixes up to 2 |
| `output_timed` | output channel and its clock against arbitrary acknowledgements | space 5, window 2, ids to 5 in messages of up to two; timeout 2, within 1 to 3, ages to 4: two backoffs reach the limit |
| `channel_safe` | both ends, data and acknowledgements lost | space 5, windows 2 (sender) and 1, six packets: sequences wrap, the window fills, go-back-N repeats what was received |
| `channel_live` | delivery | three packets, window 2: the last waits for the window to move |
| `window_mismatch` | *violated*: windows in the proportion of the defaults | windows 2 (sender) and 3 |
| `ack_loss_stall` | *violated*: delivery when acknowledgements are lost | as `channel_live` with losses |
| `session_any_remote` | a session against any remote | two channels, window 1, bundles of up to two packets, two seeds, heartbeat 1, timeout 2 |
| `connection_faulty` | safety of successive sessions | two client sessions, one repeated datagram, best-effort data, timeout 1 |
| `connection_ends` | sessions end; on a live link they live | faulty: one client session, one repeated datagram (enough for a second session at the server, and so for two seeds). Live: two queued packets. Heartbeat 1, timeout 2, the tightest two that differ |
| `mux` | several remotes, connect, remap, sweep | two ports of one host and another host, three sessions, one id and seed (so that every remap may match several sessions), timeout 1 |
| `driver` | the five drivers | three datagrams, two events, two commands, two in one call, one handle beside the owner's |
| `wire` | what was sent arrives | two messages; checksums of 0 and 2 bytes, with and without flag and cipher, datagrams of 16 and 48 bytes on either side, channels 0 and 3; data of 1 to 31 bytes around the widths that change. No message reaches 0xFFFF: `LengthsSurvive`, an assumption about constants that TLC evaluates, covers the lengths on either side of it |

Deadlock is not checked: every run has a state in which all is delivered and
every bound is reached, or a session has ended for good, and the system rightly
stops there. Bounds on counts are constants whose names begin with `Max`.

### Why these bounds are enough

The interesting boundaries are a full window, an id one past it, two ids in one
slot, and a number used twice. A window of 1 or 2 in a space just large enough
(`2 * window < SeqSpace`) meets all of them within six packets. A sender's
window one above the receiver's is the smallest with which the channel is safe
(see the first finding), so `channel_safe` runs on that edge. A session's state
machine has no counter but its queues, and two packets in a bundle suffice for
"a packet after the one that ended the session".

### Fairness

`ReliableChannel!Fairness`: a driver ticks for ever (`tokio_rt.rs` and
`sync_rt.rs` tick in every cycle), the clock advances, and the network neither
loses the same packet for ever nor, in `channel_live`, any acknowledgement.
Delivery is strongly fair per packet, since it is enabled only while a copy is
under way. No one is obliged to enqueue.

`Connection!FairSpec`: weak fairness of the two hosts' ticks and of the clock,
and nothing of the network. The three liveness properties of `connection_ends`
are about the inactivity timeout, which has to work when nothing arrives.

`LiveLinkHolds` is a safety property over a restricted network: all datagrams
arrive in the unit of time in which they were sent, the handshake in order.

`Driver!FairSpec`: a send returns, and a batch is worked off (weak). `select!`
polls its ready branches in random order, so a branch that is ready again and
again is taken: ticks, commands and the closed command channel are strongly fair.
The owner of `step` calls it for ever. `drive` and the blocking `step` tick by
themselves only when no datagram comes; the blocking `step` also ticks after each
datagram, `drive` does not. Under a flood nothing is claimed of `drive`.

## Where the code and its documentation disagree

- `window_mismatch`. `session.rs:73` calls the channels lossless. A sender reads
  an acknowledgement relative to the highest it has seen, within its own window.
  With a sender's window not above the receiver's, an AcknowledgeAll can be
  older than that and decode a wrap ahead: the queue is released though the
  receiver lacks the packets. The defaults (196 out, 256 in) are such windows.
- `ack_loss_stall`. The nudge for a duplicate (`input.rs:277-280`) has its
  condition the wrong way round: it is sent only when an acknowledgement was
  sent a moment ago. A lost AcknowledgeAll is not repeated, and a sender whose
  window is full waits for ever.

What else the code does that its users may not expect, and that the properties
exclude or state as it is:

- A client that is only sent best-effort data sends no heartbeat: any datagram
  refreshes `last_received` (`session.rs:797`), where `constants.rs:14-15` speaks
  of contextual packets. The server, hearing nothing, times out.
- `Connected` is not always a client's first event (`tokio_rt.rs:343-344`): when
  the negotiation fails, the first is `Disconnected` (`tokio_rt.rs:595`).
- A session that negotiates verifies packets with its initial seed, 0
  (`session.rs:421`): a packet framed with it is handled at once. Its data
  surfaces before `Opened`, which `drain_into` orders within a call but cannot
  order across calls, and the channel it names is made before the parameters are
  agreed (`session.rs:298-300` says otherwise). `DataAfterOpened` states the
  exception; the remotes of `Connection` and `Multiplexer` frame packets only
  with seeds that a server drew.
- `connect` over a live session ends that one without `SessionClosed`, and a
  remap moves a session without any event (`socket.rs:280`, `socket.rs:305`).
- `step` drops the datagrams behind one that cannot be sent (`tokio_rt.rs:84`);
  their retransmission is left to the channels. The same when its future is
  dropped.
- An actor whose event receiver is gone notices at its next event
  (`tokio_rt.rs:323`), and runs on until then while handles live.
- One byte of best-effort data without a checksum is shorter than an OP code:
  the receiver ends the session as corrupt (`session.rs:438`). Reliable data in
  the clear that starts with 00 19 is taken for a bundle (`input.rs:348`).
- Reliable packets are cut to this party's `udp_length`, not the remote's
  (`session.rs:290`); best-effort data to the remote's.

## The proofs

Checked by TLAPS for every value of the constants that satisfies the named
assumptions: the bounds of the runs do not enter. What a table says is proved
of the specification that the module's proofs are about, without fairness.

| theorem | states |
|---|---|
| `ReliableInputProofs` | |
| `DecodeInWindow` | what is within the window of the reference decodes exactly |
| `DecodeOutsideWindow` | what is outside the window is not decoded into it |
| `InputTypes` | `TypeOK` |
| `StashIsAhead` | `StashAheadOfWindow` |
| `ExactlyOnceInOrder` | `OnceInOrder`: `EachSequenceOnce` and `DeliveredInOrder` |
| `OnlyHeldIsAcknowledged` | `AcknowledgedIsHeld` |
| `StashIsKept` | `StashedStaysUntilProcessed` |
| `TimedOutputProofs` | |
| `OutputTypes` | `TypeOK` of `ReliableOutput` |
| `OutputKeepsTheTail` | `QueueIsOrderedTail` |
| `OutputPassesNothingOver` | `NothingPassedOver` |
| `TimedFrontIsOldest` | `FrontIsOldest` |
| `TimedKeepsHeadroom` | `TimeoutHasHeadroom` |
| `TimedSparesTheLink` | `NoResendStorm` |
| `TimedFollowsKarn` | `KarnsRule` |
| `TimedIsUntimed` | every behaviour of `TimedOutput` is one of `ReliableOutput` |
| `ReliableChannelProofs` | |
| `ChannelStaysSound` | `NeverCorrupt` |
| `ChannelIsAStream` | `ImplementsStream`: the channel implements `ReliableStream` |
| `ChannelLosesNothing` | `NothingLost`, if the windows fit |
| `ChannelReadsAcks` | `MaxClientWasReceived`, if the windows fit |
| `ChannelKeepsItsIndex` | `DispatchIndexExact`, if the windows fit |
| `LoneSessionProofs` | |
| `SessionTypes` | `TypeOK` |
| `SessionTellsItsLife` | `Lifecycle` |
| `SessionOpensFirst` | `DataAfterOpened` |
| `SessionEndsWithDisconnect` | `DisconnectIsLast` |
| `MultiplexerProofs` | |
| `MuxLosesNoSession` | `NoSessionVanishes` |
| `MuxRemapsWhole` | `RemapMovesWhole` |
| `MuxTellsInOrder` | `ToldInOrder`, if seeds tell |
| `MuxViewIsTrue` | `ViewIsTrue`, if seeds tell |
| `ConnectionProofs` | |
| `ConnSafe` | `ConnInv`: what is under way and how sessions rest, see below |
| `OrderKept` | `EventsInOrder` |
| `RemotesAreTrue` | `ByRemoteIsTrue` |
| `LinkHolds` | `LiveLinkHolds`, if a heartbeat is due before a session times out |
| `DriverProofs` | |
| `DriverLosesNoEvent` | `NoEventIsLost` |
| `DriverFailsLocally` | `FailureStaysLocal` |

### Assumptions

- `SeqSpaceAssumption`, `InputAssumption`, `OutputAssumption`: sizes are
  positive, an acknowledgement's delay is a number. `InputWindowAssumption`,
  `OutputWindowAssumption`: twice a window is less than the number space. The
  code leaves that to its configuration; 65536 against a few hundred.
- `WithinLifetime`, a guard of the network: it holds no packet for a whole wrap
  of the number space. A violation takes a datagram older than tens of
  thousands of later ones.
- Acknowledgements arrive in order, though any of them may be lost
  (`ReliableChannel`'s network). Of `ChannelIsAStream` and `ChannelStaysSound`
  no proof step uses it.
- `WindowsFit`, a hypothesis of three theorems only: the receiver's window is
  below the sender's. The code does not check it and its defaults (256 and 196)
  violate it; `window_mismatch` shows that the three statements then fail. What
  does not fail is that the receiver delivers nothing wrong: soundness and the
  refinement are proved for all windows.
- `SeedsTell`, a hypothesis of the last two theorems about the multiplexer: no
  seed is 0, the seed with which a session starts; neither one that a server
  draws nor one that a remote frames packets with. The code does not see to the
  first, and what it makes of the second is told above (`session.rs:421`): data
  surfaces before `Opened`, so the two statements are false without it.
  `MuxLosesNoSession` and `MuxRemapsWhole` do without.
- `TimeAssumption`: the timeout's limits are positive and in order.
  `SessionAssumption`, `LoneSessionAssumption`, `MultiplexerAssumption`,
  `DriverAssumption`: counts are numbers. Which addresses are of the same host
  is left open.

- `ConnectionAssumption`: the bounds of `Connection` are numbers, and there is
  an id for every session that may be opened and a seed for every one that may
  be drawn. `Connection` numbers the seeds its server draws, from 1: no two
  sessions share one and none is 0. The code draws 32 random bits, so that this
  leaves out a coincidence; `ByRemoteIsTrue` would not survive it.
- `KeepAlive`, a hypothesis of `LinkHolds`: there is no inactivity timeout, or
  `heartbeat_after` is neither zero nor as long as it. The defaults are 25 s and
  30 s (`constants.rs:16`, `constants.rs:20`), but nothing validates what a
  configuration says. Without it an idle client is silent until the server times
  out. As in the property itself, no host sends best-effort data only.

### Arguments

*Decoding* rests on `WireDecomposition`: a count is a multiple of the space plus
its wire number, which is what widening reconstructs, one multiple up or down.

*The receiver's* four invariants are proved together, as `InputInvariant`. None
is inductive alone. That each sequence is processed once needs the stash to
hold, in the slot of the next sequence, that sequence and no other; that needs
the stash to lie ahead of the window with no two sequences in a slot, which
needs decoding to be exact for whatever the network still holds; and what is
acknowledged stays held only because processing moves a packet from the stash to
below the window. The step of `ProcessInOrder` is the hard one: it absorbs a run
of stashed packets at once, so a lemma about `Absorb` is lifted to a run of any
length by induction over the run (`NatSetInduction`, stated over sets, since the
provers cannot instantiate an operator). The order (`DeliveredInOrder`) rides on
the same induction: what is absorbed is the window's start, which is above
everything held before.

*The sender's* three are inductive together, as `OutputInvariant`. That nothing
above `max_client_sequence` leaves the queue needs its order, and that every
packet in it was numbered below `total_sequence`, or a new message could take a
number that is queued. The work is in the two acknowledgements, which renumber
the queue under the dispatch index: `RemoveAtType` and `DroppedFirst` say which
old packet stands at each new position. Nothing is used about how an
acknowledgement's number is read.

*The sender's clock.* `TimedInv` adds to `OutputInvariant` that a packet is
marked `resent` exactly if it was dispatched twice (`MarkedIfResent`), and that nothing in flight is older than the last go-back
(`StampedSinceReset`), which is `NoResendStorm`. `FrontIsOldest` is inductive
with them: a go-back stamps the whole window, and taking a packet out anywhere
keeps the order of the others. Of an AcknowledgeAll `KarnsRule` needs both: the
marks say which of the packets it releases may be measured, and the order of
ages that the last of those, whose sample is kept, is the freshest
(`LaterIsFresher`). Headroom is arithmetic on the estimator's
truncating divisions. Since every action of `TimedOutput` conjoins one of
`ReliableOutput`, `TimedIsUntimed` has one step per action; the one with content
is the tick, where the comparison of two times must imply one of the choices the
untimed channel has.

*The channel.* The invariant has two parts. `StreamInv` says that every packet
in the queue, on the network or in the stash carries the part of an accepted
message that its number calls for (`Carries`), and that what the receiver has
processed is a beginning of the accepted stream (`Follows`). It needs nothing of
the sender's window: packets that leave the queue too early are lost, but the
receiver decodes by its own window and takes in what is left in order. It gives `NeverCorrupt` and the
refinement, for which a step of the receiver is a step of the stream exactly if
it completes messages. `WindowInv` holds when the windows fit: packets above
`max_client_sequence` are queued without a gap (`QueueIsContiguous`), what the
receiver holds or is under way was sent (`SeenWasSent`), and no acknowledgement
under way is further behind `max_client_sequence`, or behind an earlier one, than
the receiver's window and one (`AcksAreRecent`): so the sender reads each
exactly. It is this last step that needs `WindowsFit`, and the behaviour of
`window_mismatch` is where it fails without.

*A session.* `Sound(past, s)` relates a session's state, the pending open, its
data and the events that its caller has not taken yet to what the application
heard before (`past`: nothing, data only, or `Opened`). It holds between any two
calls of the session's methods, also inside a handler; `Flushed` holds after
each call. `SessionProofs` has one lemma per method of `SoeSession`, in the order
in which they call each other; a bundle of any length goes by induction over its
packets (`HandledSteps`), which is where the test of `Terminated` after each
packet is needed. `LoneSessionProofs` never takes the events, so that `past`
stays what it was. `DisconnectIsLast` follows from what `FlushEffect` says of the
datagrams that flushing appends.

*The multiplexer.* `MuxInv` says of each address that the session there is sound
for what was told of it and has been drained (`Housed`), that no two addresses
share a session (`Apart`), that a session without an address was closed or
replaced (`Accounted`), and where the view must agree (`ViewFollows`). None
stands alone: `Accounted` needs `Apart` when a session is replaced, the view
needs the events to come in order, which needs every session to be sound for its
own past and not for that of the one it replaced. `Prepared` is what each call
owes before the drain, and `SettleKeeps` that draining then restores `MuxInv`;
each action has a lemma that what it hands over is `Prepared`. The order of
events is a case analysis of what one drain may find (`SurfacedCases`) after
what was told before (`HeardInOrder`).

*Two hosts, any network.* `ConnInv` accounts for what is under way by what its
sender's application was told. `Allowed`: a datagram is framed with a seed that
was drawn, a request or a response names a session of the client's, and a
Disconnect is of a session that its sender's log shows closed, for that
reason (`Closes`). `Houses`: a host's session rests as `SessionProofs` has it,
sound for what the log holds of it and of no other, or there is no session and
the log is empty or ends with `Closed`. Seeds are conserved: those drawn and the requests
under way are no more than the requests made and the copies. The log alone is not inductive: that a
Disconnect of an earlier session does no harm is a fact of the seeds on the
network, and that a Disconnect is honest a fact of the log at the time it left.
`Says` and `Called` state what one call of either host leaves before the drain,
one lemma for each call; `SettleKeeps` says that draining restores `ConnInv`.
`OrderKept` and `RemotesAreTrue` then read off the logs.

*A live link.* `LiveInv` bounds how long each host has heard nothing. The two
sessions agree on the seed or the handshake is under way (`Agreed`). If the
client has been silent for longer than `heartbeat_after`, a heartbeat or its
echo is under way (`Beaten`), so it never reaches the timeout. The server has
heard something as recently as the client has, or what it is to hear is under
way or owed by the client (`Reached`). A server that owes the client something,
or has an answer to it under way, heard it in this unit of time (`Heeds`). A unit of time begins with nothing under way (`RoundBound`), and at
that moment the bounds leave no session at its timeout. Each clause needs the
others: an echo refreshes the client only if the seeds agree, and the client's
silence bounds the server's only through the heartbeat in between.

*The drivers.* `NoEventIsLost` is inductive while a driver runs, once it is known
that nothing is half published in the phases before (`EventsKept`); a stop then
leaves a beginning of the events. `FailureStaysLocal` is about batches,
which the code does not name: two history variables say where each batch ended
(`batchEnds`) and which sends were cancelled. The proof needs the order of all
datagrams from `outgoing` over the batch to `sent` (`DatagramsInOrder`), and that
a batch is emptied before another is taken and no batch ended in the middle of it
(`BatchesEnd`). From these `LossIsLocal` says, number
by number, what became of each datagram: a step that empties the rest of its
batch loses what is behind the failure there and nothing else.

### What is only model-checked

- Liveness (`EverythingDelivered`, `EverythingAcknowledged`,
  `NothingWaitsForEver`, `TickedForEver`, and of two hosts `MismatchEnds`,
  `NegotiationEnds`, `NoSessionOutlivesItsClient`): the provers have no rule for
  fairness here.
- `Bytes`, `Rc4` and `Wire` (`DeliveredIntact`, `KeysInStep`, `FitsRemote`): they
  are recursive over data, and what a recursive definition computes for every
  input cannot be proved with these provers.

## What is not modelled

- CRC-32 and zlib: computations without state. `Wire` has a stand-in for the
  checksum; compressed data is never sent by this code, and inflating what
  others send is left out.
- Configurations that the assumptions exclude: a receive window of 0 (the code
  divides by it), datagram lengths too short for a fragment's header.
- Statistics and logging.
