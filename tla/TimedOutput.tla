----------------------------- MODULE TimedOutput -----------------------------
(***************************************************************************)
(* ReliableOutput with its clock (src/channel/output.rs): when the oldest  *)
(* packet is overdue, which acknowledgements are taken as round-trip       *)
(* samples, and how the retransmit timeout follows them.                   *)
(*                                                                         *)
(* An Instant is kept as its age, in whole units of time. Ages stop at     *)
(* MaxAge, beyond every timeout.                                           *)
(***************************************************************************)
EXTENDS ReliableOutput

CONSTANTS
    AckWait,        \* OutputConfig::ack_wait, the first timeout
    RtoMin,         \* RTO_MIN
    RtoMax,         \* RTO_MAX
    Granularity,    \* RTO_GRANULARITY
    MaxAge          \* ages are counted up to it

ASSUME TimeAssumption ==
    /\ RtoMin \in Nat \ {0} /\ Granularity \in Nat \ {0}
    /\ AckWait \in RtoMin .. RtoMax
    /\ RtoMax \in Nat /\ MaxAge \in Nat /\ MaxAge > RtoMax

NoEstimate == -1    \* srtt before the first sample

VARIABLES
    age,        \* of each packet in flight: how long ago it was sent last
    resent,     \* those of them marked as sent again
    srtt, rttvar, rto,
    dispatches, \* history: how often each packet in flight was sent, to 2
    sinceReset  \* history: how long ago the window was last sent again

timing == <<age, resent, srtt, rttvar, rto, dispatches, sinceReset>>
allVars == <<vars, timing>>

TimedInit ==
    /\ Init
    /\ age = <<>> /\ resent = {} /\ dispatches = <<>>
    /\ srtt = NoEstimate /\ rttvar = 0 /\ rto = AckWait
    /\ sinceReset = MaxAge

-----------------------------------------------------------------------------

Greater(a, b) == IF a < b THEN b ELSE a

\* Ids of the packets of a queue that were sent.
Flying(q) == {q[i].packet.id : i \in {j \in DOMAIN q : q[j].sent}}

\* The oldest packet went unacknowledged for longer than the timeout.
TimedOut ==
    /\ queue # <<>> /\ queue[1].sent
    /\ age[queue[1].packet.id] > rto

\* What run_tick moves out: the ids whose dispatch this tick is.
Due(timedOut) ==
    {queue[i].packet.id :
        i \in (IF timedOut THEN 1 ELSE dispatchIndex + 1)
                .. Least(Len(queue), MaxQueuedOutgoing)}

\* Mutants of Restamp. The time of the first dispatch is kept.
RestampFirst(due) ==
    /\ age' = [id \in Flying(queue) \cup due |->
                  IF id \in Flying(queue) THEN age[id] ELSE 0]
    /\ resent' = resent \cup (due \cap Flying(queue))

\* Only the packet whose timer fired is stamped.
RestampFront(due) ==
    /\ age' = [id \in Flying(queue) \cup due |->
                  IF id \notin Flying(queue) \/ id = queue[1].packet.id THEN 0
                                                                      ELSE age[id]]
    /\ resent' = resent \cup (due \cap Flying(queue))

\* sent_at and resent of the packets that are dispatched.
Restamp(due) ==
    /\ age' = [id \in Flying(queue) \cup due |-> IF id \in due THEN 0 ELSE age[id]]
    /\ resent' = resent \cup (due \cap Flying(queue))

\* Mutant of Backoff: no upper limit.
BackoffUnlimited(timedOut) == rto' = IF timedOut THEN 2 * rto ELSE rto

Backoff(timedOut) == rto' = IF timedOut THEN Least(2 * rto, RtoMax) ELSE rto

Tick ==
    LET due == Due(TimedOut)
    IN  /\ RunTick(TimedOut)
        /\ Restamp(due)
        /\ Backoff(TimedOut)
        /\ sinceReset' = IF TimedOut THEN 0 ELSE sinceReset
        /\ dispatches' = [id \in Flying(queue) \cup due |->
                             IF id \notin due THEN dispatches[id]
                             ELSE IF id \in Flying(queue) THEN 2 ELSE 1]
        /\ UNCHANGED <<srtt, rttvar>>

-----------------------------------------------------------------------------

\* update_rto: the Jacobson/Karels estimator.
Apart(a, b) == IF a < b THEN b - a ELSE a - b

NextSrtt(sample) ==
    IF srtt = NoEstimate THEN sample ELSE (srtt * 7 + sample) \div 8

NextRttvar(sample) ==
    IF srtt = NoEstimate THEN sample \div 2
    ELSE (rttvar * 3 + Apart(srtt, sample)) \div 4

\* Mutant of Timeout: no floor under the variance term.
TimeoutWithoutFloor(estimate, variance) ==
    Least(Greater(estimate + 4 * variance, RtoMin), RtoMax)

Timeout(estimate, variance) ==
    Least(Greater(estimate + Greater(Granularity, 4 * variance), RtoMin), RtoMax)

UpdateRto(sample) ==
    /\ srtt' = NextSrtt(sample)
    /\ rttvar' = NextRttvar(sample)
    /\ rto' = Timeout(srtt', rttvar')

\* The packets that leave the queue.
Released == {queue[i].packet.id : i \in DOMAIN queue}
              \ {queue'[i].packet.id : i \in DOMAIN queue'}

\* Mutant of Samples: a batch with a packet that was sent once is measured at
\* its last packet, whether that one was sent again or not.
SamplesOfBatch ==
    IF (Released \cap Flying(queue)) \ resent = {} THEN {}
    ELSE Released \cap Flying(queue)

\* Those of them that can give a sample; the last one does, if there is one.
Samples == (Released \cap Flying(queue)) \ resent

Measure ==
    \/ /\ Samples = {}
       /\ UNCHANGED <<srtt, rttvar, rto>>
    \/ \E last \in Samples :
          /\ \A id \in Samples : id <= last
          /\ UpdateRto(age[last])

Forget ==
    /\ age' = [id \in Flying(queue') |-> age[id]]
    /\ dispatches' = [id \in Flying(queue') |-> dispatches[id]]
    /\ resent' = resent \cap Flying(queue')
    /\ UNCHANGED sinceReset

Acknowledge(wire)    == NotifyOfAcknowledge(wire) /\ Measure /\ Forget
AcknowledgeAll(wire) == NotifyOfAcknowledgeAll(wire) /\ Measure /\ Forget

-----------------------------------------------------------------------------

Elapse ==
    /\ age' = [id \in DOMAIN age |-> Least(age[id] + 1, MaxAge)]
    /\ sinceReset' = Least(sinceReset + 1, MaxAge)
    /\ age' # age
    /\ UNCHANGED <<vars, resent, srtt, rttvar, rto, dispatches>>

\* The session takes what a tick moves out before it calls the channel again
\* (flush_channels, in session.rs).
TimedNext ==
    \/ TakeOutgoing /\ UNCHANGED timing
    \/ /\ outgoing = {}
       /\ \/ \E n \in 1 .. MaxFragments : EnqueueData(n) /\ UNCHANGED timing
          \/ Tick
          \/ \E wire \in 0 .. SeqSpace - 1 :
                Acknowledge(wire) \/ AcknowledgeAll(wire)
          \/ Elapse

TimedSpec == TimedInit /\ [][TimedNext]_allVars

-----------------------------------------------------------------------------
(* Correctness. *)

\* The timeout is that of the front packet because no packet in flight waits
\* longer: the packet at the front is always the one sent longest ago, through
\* go-backs, new packets and acknowledgements from the middle. So no packet
\* waits unnoticed behind a younger one.
FrontIsOldest ==
    \A i, j \in DOMAIN queue :
        i < j /\ queue[j].sent =>
            queue[i].sent /\ age[queue[i].packet.id] >= age[queue[j].packet.id]

\* The whole window is never sent again on two ticks in a row: more than
\* RTO_MIN passes between two go-backs, whatever was acknowledged between
\* (the comment in run_tick: not every tick may resend the whole window).
NoResendStorm == TimedOut => sinceReset > RtoMin

\* Karn's rule: what moves the estimate is the round trip of a packet that was
\* sent once and is acknowledged in this step, never that of one sent again,
\* whose acknowledgement may answer either dispatch. Of a batch it is the
\* freshest of those (the comment in notify_of_acknowledge_all: "the freshest
\* (most recently sent) unambiguous sample"), whatever was sent again between
\* them.
KarnsRule ==
    [][<<srtt, rttvar>>' # <<srtt, rttvar>> =>
          \E id \in DOMAIN dispatches \ DOMAIN dispatches' :
              /\ dispatches[id] = 1
              /\ srtt' = NextSrtt(age[id]) /\ rttvar' = NextRttvar(age[id])
              /\ \A other \in DOMAIN dispatches \ DOMAIN dispatches' :
                    dispatches[other] = 1 => age[id] <= age[other]]_allVars

\* The timeout stays within its limits and keeps its headroom over the
\* smoothed round trip, however the samples and the back-offs alternate: a
\* steady link does not resend just as acknowledgements arrive.
TimeoutHasHeadroom ==
    /\ rto \in RtoMin .. RtoMax
    /\ srtt # NoEstimate => rto >= Least(srtt + Granularity, RtoMax)
=============================================================================
