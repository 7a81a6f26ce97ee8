-------------------------- MODULE TimedOutputProofs --------------------------
(***************************************************************************)
(* The sending channel, for every window, message length and remote: first *)
(* its queue, without a clock (ReliableOutput); then the clock, for every  *)
(* choice of the limits of the timeout.                                    *)
(***************************************************************************)
EXTENDS TimedOutput, TLAPS

-----------------------------------------------------------------------------
(* The queue.                                                              *)

OutputInvariant == TypeOK /\ QueueIsOrderedTail /\ NothingPassedOver

-----------------------------------------------------------------------------
(* The operators on the queue. *)

LEMMA JoinedType ==
    ASSUME NEW S, NEW q \in Seq(S), NEW r \in Seq(S)
    PROVE  q \o r \in Seq(S) /\ Len(q \o r) = Len(q) + Len(r)
OBVIOUS

LEMMA DroppedFirst ==
    ASSUME NEW S, NEW q \in Seq(S), NEW n \in 0 .. Len(q)
    PROVE  /\ SubSeq(q, n + 1, Len(q)) \in Seq(S)
           /\ Len(SubSeq(q, n + 1, Len(q))) = Len(q) - n
           /\ \A j \in 1 .. Len(q) - n :
                 SubSeq(q, n + 1, Len(q))[j] = q[n + j]
<1>1. SubSeq(q, n + 1, Len(q)) \in Seq(S)
  OBVIOUS
<1>2. Len(SubSeq(q, n + 1, Len(q))) = Len(q) - n
  OBVIOUS
<1>3. \A j \in 1 .. Len(q) - n : SubSeq(q, n + 1, Len(q))[j] = q[n + j]
  OBVIOUS
<1>4. QED
  BY <1>1, <1>2, <1>3

LEMMA RemoveAtType ==
    ASSUME NEW S, NEW q \in Seq(S), NEW i \in DOMAIN q
    PROVE  /\ RemoveAt(q, i) \in Seq(S)
           /\ Len(RemoveAt(q, i)) = Len(q) - 1
           /\ \A j \in 1 .. Len(q) - 1 :
                 RemoveAt(q, i)[j] = q[IF j < i THEN j ELSE j + 1]
<1> DEFINE front == SubSeq(q, 1, i - 1)
           back  == SubSeq(q, i + 1, Len(q))
<1>1. /\ front \in Seq(S)
      /\ Len(front) = i - 1
      /\ \A j \in 1 .. i - 1 : front[j] = q[j]
  OBVIOUS
<1>2. /\ back \in Seq(S)
      /\ Len(back) = Len(q) - i
      /\ \A j \in 1 .. Len(q) - i : back[j] = q[i + j]
  OBVIOUS
<1>3. RemoveAt(q, i) = front \o back
  BY DEF RemoveAt
<1>4. i \in 1 .. Len(q) /\ Len(q) \in Nat
  OBVIOUS
<1> HIDE DEF front, back
<1>5. RemoveAt(q, i) \in Seq(S) /\ Len(RemoveAt(q, i)) = Len(q) - 1
  BY <1>1, <1>2, <1>3, <1>4
<1>6. ASSUME NEW j \in 1 .. Len(q) - 1
      PROVE  RemoveAt(q, i)[j] = q[IF j < i THEN j ELSE j + 1]
  <2>1. CASE j < i
    BY <2>1, <1>1, <1>2, <1>3, <1>4
  <2>2. CASE ~(j < i)
    <3>1. (front \o back)[j] = back[j - (i - 1)]
      BY <2>2, <1>1, <1>2, <1>4
    <3>2. j - (i - 1) \in 1 .. Len(q) - i
      BY <2>2, <1>4
    <3>3. back[j - (i - 1)] = q[i + (j - (i - 1))]
      BY <3>2, <1>2
    <3>4. i + (j - (i - 1)) = j + 1
      BY <1>4
    <3>5. QED
      BY <2>2, <3>1, <3>3, <3>4, <1>3
  <2>3. QED
    BY <2>1, <2>2
<1>7. QED
  BY <1>5, <1>6

\* However it is read, an acknowledgement names an integer.
LEMMA TrueIncomingType ==
    ASSUME TypeOK, NEW wire \in 0 .. SeqSpace - 1
    PROVE  TrueIncoming(wire) \in Int
<1>1. SeqSpace \in Nat /\ MaxQueuedOutgoing \in Nat /\ maxClient \in Nat
  BY SeqSpaceAssumption, OutputAssumption DEF TypeOK
<1>2. maxClient % SeqSpace \in Int
  BY <1>1, SeqSpaceAssumption
<1>3. QED
  BY <1>1, <1>2 DEF TrueIncoming, TrueIncomingSequence, Wire

LEMMA RaiseMaxClientType ==
    ASSUME TypeOK, NEW sequence \in Int, RaiseMaxClient(sequence)
    PROVE  maxClient' \in Nat /\ maxClient' >= maxClient
                              /\ maxClient' >= sequence
BY DEF TypeOK, RaiseMaxClient

-----------------------------------------------------------------------------
(* The steps. *)

LEMMA OutputInit == Init => OutputInvariant
BY OutputAssumption
   DEF Init, OutputInvariant, TypeOK, QueueIsOrderedTail, NothingPassedOver,
       Queued, Least

LEMMA OutputEnqueues ==
    ASSUME OutputInvariant, NEW n \in 1 .. MaxFragments, EnqueueData(n)
    PROVE  OutputInvariant'
<1> DEFINE new == [i \in 1 .. n |-> [packet |-> Fragment(i, n), sent |-> FALSE]]
<1>1. /\ queue \in Seq(Stashed) /\ totalSequence \in Nat /\ maxClient \in Nat
      /\ dispatchIndex \in Nat /\ outgoing \subseteq Packet
      /\ n \in Nat /\ MaxFragments \in Nat /\ MaxQueuedOutgoing \in Nat
      /\ Len(queue) \in Nat
  BY OutputAssumption DEF OutputInvariant, TypeOK
<1>2. \A i \in 1 .. n : /\ Fragment(i, n) \in Packet
                        /\ Fragment(i, n).id = totalSequence + i - 1
  BY <1>1, OutputAssumption DEF Fragment, Packet, NoPrefix, NoMaster
<1>3. /\ new \in Seq(Stashed)
      /\ Len(new) = n
      /\ \A i \in 1 .. n : /\ new[i].packet.id = totalSequence + i - 1
                           /\ new[i].sent = FALSE
  BY <1>1, <1>2 DEF Stashed
<1>4. /\ queue' = queue \o new
      /\ totalSequence' = totalSequence + n
      /\ UNCHANGED <<maxClient, dispatchIndex, outgoing>>
  BY DEF EnqueueData
<1> HIDE DEF new
<1>5. /\ queue' \in Seq(Stashed)
      /\ Len(queue') = Len(queue) + n
      /\ DOMAIN queue = 1 .. Len(queue)
      /\ DOMAIN queue' = 1 .. Len(queue) + n
      /\ \A i \in 1 .. Len(queue) : queue'[i] = queue[i]
      /\ \A i \in Len(queue) + 1 .. Len(queue) + n :
            queue'[i] = new[i - Len(queue)]
  <2>1. queue' \in Seq(Stashed) /\ Len(queue') = Len(queue) + n
    <3>1. /\ queue \in Seq(Stashed) /\ new \in Seq(Stashed) /\ Len(new) = n
          /\ queue' = queue \o new
      BY <1>1, <1>3, <1>4
    <3> QED
      BY <3>1, JoinedType
  <2>2. DOMAIN queue = 1 .. Len(queue) /\ DOMAIN queue' = 1 .. Len(queue')
    BY <2>1, <1>1
  <2>3. \A i \in 1 .. Len(queue) : queue'[i] = queue[i]
    BY <1>1, <1>3, <1>4
  <2>4. \A i \in Len(queue) + 1 .. Len(queue) + n :
           queue'[i] = new[i - Len(queue)]
    BY <1>1, <1>3, <1>4
  <2>5. QED
    BY <2>1, <2>2, <2>3, <2>4
<1>6. \A i \in Len(queue) + 1 .. Len(queue) + n :
         /\ queue'[i].packet.id = totalSequence + (i - Len(queue)) - 1
         /\ queue'[i].sent = FALSE
  <2> TAKE i \in Len(queue) + 1 .. Len(queue) + n
  <2>1. i - Len(queue) \in 1 .. n
    BY <1>1
  <2>2. QED
    BY <2>1, <1>3, <1>5
<1>7. TypeOK'
  BY <1>1, <1>4, <1>5 DEF TypeOK
<1>8. QueueIsOrderedTail'
  <2>1. \A i \in 1 .. Len(queue) : queue[i].packet.id \in Nat
    <3> TAKE i \in 1 .. Len(queue)
    <3>1. queue[i] \in Stashed
      BY <1>1
    <3>2. QED
      BY <3>1 DEF Stashed, Packet
  <2>2. \A i \in 1 .. Len(queue) : queue[i].packet.id < totalSequence
    BY <1>5 DEF OutputInvariant, QueueIsOrderedTail
  <2>3. ASSUME NEW i \in DOMAIN queue', NEW j \in DOMAIN queue', i < j
        PROVE  queue'[i].packet.id < queue'[j].packet.id
    <3>1. i \in Int /\ j \in Int
      BY <1>5
    <3>2. CASE j <= Len(queue)
      BY <2>3, <3>1, <3>2, <1>5 DEF OutputInvariant, QueueIsOrderedTail
    <3>3. CASE i <= Len(queue) /\ ~(j <= Len(queue))
      <4>1. i \in 1 .. Len(queue) /\ j \in Len(queue) + 1 .. Len(queue) + n
        BY <3>1, <3>3, <1>1, <1>5
      <4>2. queue'[i].packet.id \in Nat /\ queue'[i].packet.id < totalSequence
        BY <4>1, <2>1, <2>2, <1>5
      <4>3. queue'[j].packet.id = totalSequence + (j - Len(queue)) - 1
        BY <4>1, <1>6
      <4>4. QED
        BY <4>1, <4>2, <4>3, <1>1
    <3>4. CASE ~(i <= Len(queue)) /\ ~(j <= Len(queue))
      BY <2>3, <3>1, <3>4, <1>1, <1>5, <1>6
    <3>5. QED
      BY <2>3, <3>1, <3>2, <3>3, <3>4, <1>1
  <2>4. ASSUME NEW i \in DOMAIN queue'
        PROVE  queue'[i].packet.id < totalSequence'
    <3>1. CASE i <= Len(queue)
      BY <2>1, <2>2, <3>1, <1>1, <1>4, <1>5
    <3>2. CASE ~(i <= Len(queue))
      BY <3>2, <1>1, <1>4, <1>5, <1>6
    <3>3. QED
      BY <3>1, <3>2
  <2>5. ASSUME NEW s \in 0 .. totalSequence' - 1, s > maxClient'
        PROVE  Queued(s)'
    <3>1. CASE s < totalSequence
      <4>1. s \in 0 .. totalSequence - 1 /\ s > maxClient
        BY <2>5, <3>1, <1>1, <1>4
      <4>2. PICK i \in DOMAIN queue : queue[i].packet.id = s
        BY <4>1 DEF OutputInvariant, QueueIsOrderedTail, Queued
      <4>3. i \in DOMAIN queue' /\ queue'[i].packet.id = s
        BY <4>2, <1>1, <1>5
      <4>4. QED
        BY <4>3 DEF Queued
    <3>2. CASE ~(s < totalSequence)
      <4> DEFINE i == Len(queue) + (s - totalSequence) + 1
      <4>1. i \in Len(queue) + 1 .. Len(queue) + n
        BY <3>2, <1>1, <1>4
      <4>2. i \in DOMAIN queue'
        BY <4>1, <1>1, <1>5
      <4>3. queue'[i].packet.id = totalSequence + (i - Len(queue)) - 1
        BY <4>1, <1>6
      <4>4. queue'[i].packet.id = s
        BY <4>3, <1>1, <1>4
      <4>5. QED
        BY <4>2, <4>4 DEF Queued
    <3>3. QED
      BY <3>1, <3>2
  <2>6. QED
    BY <2>3, <2>4, <2>5 DEF QueueIsOrderedTail
<1>9. NothingPassedOver'
  <2>1. /\ dispatchIndex <= Len(queue) /\ dispatchIndex <= MaxQueuedOutgoing
        /\ \A i \in 1 .. dispatchIndex : queue[i].sent
        /\ \A i \in 1 .. Len(queue) : queue[i].sent => i <= MaxQueuedOutgoing
    <3>1. NothingPassedOver
      BY DEF OutputInvariant
    <3>2. dispatchIndex <= Len(queue) /\ dispatchIndex <= MaxQueuedOutgoing
      BY <3>1, <1>1 DEF NothingPassedOver, Least
    <3>3. QED
      BY <3>1, <3>2, <1>5 DEF NothingPassedOver
  <2>2. dispatchIndex' <= Least(Len(queue'), MaxQueuedOutgoing)
    BY <2>1, <1>1, <1>4, <1>5 DEF Least
  <2>3. \A i \in 1 .. dispatchIndex' : queue'[i].sent
    BY <2>1, <1>1, <1>4, <1>5
  <2>4. \A i \in DOMAIN queue' : queue'[i].sent => i <= MaxQueuedOutgoing
    BY <2>1, <1>1, <1>5, <1>6
  <2>5. QED
    BY <2>2, <2>3, <2>4 DEF NothingPassedOver
<1>10. QED
  BY <1>7, <1>8, <1>9 DEF OutputInvariant

LEMMA OutputTicks ==
    ASSUME OutputInvariant, NEW timedOut \in BOOLEAN, RunTick(timedOut)
    PROVE  OutputInvariant'
<1> DEFINE first == IF timedOut THEN 0 ELSE dispatchIndex
           limit == Least(Len(queue), MaxQueuedOutgoing)
           due   == first + 1 .. limit
<1>1. /\ queue \in Seq(Stashed) /\ totalSequence \in Nat /\ maxClient \in Nat
      /\ dispatchIndex \in Nat /\ outgoing \subseteq Packet
      /\ MaxQueuedOutgoing \in Nat /\ Len(queue) \in Nat
      /\ DOMAIN queue = 1 .. Len(queue)
      /\ \A i \in 1 .. Len(queue) : queue[i] \in Stashed
  BY OutputAssumption DEF OutputInvariant, TypeOK
<1>2. /\ dispatchIndex <= limit
      /\ \A i \in 1 .. dispatchIndex : queue[i].sent
      /\ \A i \in 1 .. Len(queue) : queue[i].sent => i <= MaxQueuedOutgoing
  BY <1>1 DEF OutputInvariant, NothingPassedOver
<1>3. /\ limit \in Nat /\ limit <= Len(queue) /\ limit <= MaxQueuedOutgoing
      /\ first \in Nat /\ first <= limit
  BY <1>1, <1>2 DEF Least
<1>4. /\ queue' = [i \in DOMAIN queue |->
                     IF i \in due THEN [queue[i] EXCEPT !.sent = TRUE]
                                  ELSE queue[i]]
      /\ dispatchIndex' = IF first < limit THEN limit ELSE first
      /\ outgoing' = outgoing \cup {queue[i].packet : i \in due}
      /\ UNCHANGED <<totalSequence, maxClient>>
  BY DEF RunTick
<1>5. dispatchIndex' = limit
  BY <1>3, <1>4
<1>6. due \subseteq 1 .. limit /\ due \subseteq 1 .. Len(queue)
  BY <1>3, <1>1
<1>7. \A i \in 1 .. Len(queue) :
         /\ queue'[i] \in Stashed
         /\ queue'[i].packet = queue[i].packet
         /\ i \in due => queue'[i].sent
         /\ i \notin due => queue'[i] = queue[i]
  BY <1>1, <1>4 DEF Stashed
<1>8. /\ DOMAIN queue' = 1 .. Len(queue)
      /\ queue' \in Seq(Stashed)
      /\ Len(queue') = Len(queue)
  BY <1>1, <1>4, <1>7
<1> HIDE DEF first, limit, due
<1>9. TypeOK'
  <2>1. {queue[i].packet : i \in due} \subseteq Packet
    BY <1>1, <1>6 DEF Stashed
  <2>2. QED
    BY <2>1, <1>1, <1>3, <1>4, <1>5, <1>8 DEF TypeOK
<1>10. QueueIsOrderedTail'
  BY <1>1, <1>4, <1>7, <1>8
     DEF OutputInvariant, QueueIsOrderedTail, Queued
<1>11. NothingPassedOver'
  <2>1. dispatchIndex' <= Least(Len(queue'), MaxQueuedOutgoing)
    BY <1>1, <1>3, <1>5, <1>8 DEF Least
  <2>2. ASSUME NEW i \in 1 .. limit
        PROVE  queue'[i].sent
    <3>1. i \in 1 .. Len(queue)
      BY <1>3, <1>1
    <3>2. CASE i \in due
      BY <3>1, <3>2, <1>7
    <3>3. CASE i \notin due
      <4>1. first = dispatchIndex /\ i <= dispatchIndex
        <5>1. i <= first
          BY <3>3, <1>3 DEF due
        <5>2. first # 0
          BY <5>1
        <5>3. QED
          BY <5>1, <5>2 DEF first
      <4>2. queue[i].sent
        BY <4>1, <1>1, <1>2
      <4>3. QED
        BY <3>1, <3>3, <4>2, <1>7
    <3>4. QED
      BY <3>2, <3>3
  <2>3. ASSUME NEW i \in 1 .. Len(queue), queue'[i].sent
        PROVE  i <= MaxQueuedOutgoing
    <3>1. CASE i \in due
      BY <3>1, <1>1, <1>3, <1>6
    <3>2. CASE i \notin due
      BY <2>3, <3>2, <1>2, <1>7
    <3>3. QED
      BY <3>1, <3>2
  <2>4. QED
    BY <2>1, <2>2, <2>3, <1>5, <1>8 DEF NothingPassedOver
<1>12. QED
  BY <1>9, <1>10, <1>11 DEF OutputInvariant

LEMMA OutputIsTaken ==
    ASSUME OutputInvariant, TakeOutgoing
    PROVE  OutputInvariant'
BY DEF OutputInvariant, TakeOutgoing, TypeOK, QueueIsOrderedTail,
       NothingPassedOver, Queued

\* The packet at i leaves: the others close up, and the index goes back by one.
LEMMA OutputReleasesOne ==
    ASSUME OutputInvariant, NEW i \in DOMAIN queue,
           queue' = RemoveAt(queue, i),
           dispatchIndex' = SaturatingSub(dispatchIndex, 1),
           UNCHANGED <<totalSequence, outgoing>>,
           maxClient' \in Nat, maxClient' >= maxClient,
           maxClient' >= queue[i].packet.id
    PROVE  OutputInvariant'
<1>1. /\ queue \in Seq(Stashed) /\ totalSequence \in Nat /\ maxClient \in Nat
      /\ dispatchIndex \in Nat /\ MaxQueuedOutgoing \in Nat
      /\ Len(queue) \in Nat /\ DOMAIN queue = 1 .. Len(queue)
  BY OutputAssumption DEF OutputInvariant, TypeOK
<1>2. \A j \in 1 .. Len(queue) : queue[j].packet.id \in Nat
  <2> TAKE j \in 1 .. Len(queue)
  <2>1. queue[j] \in Stashed
    BY <1>1
  <2>2. QED
    BY <2>1 DEF Stashed, Packet
<1>3. /\ queue' \in Seq(Stashed)
      /\ Len(queue') = Len(queue) - 1
      /\ \A j \in 1 .. Len(queue) - 1 :
            queue'[j] = queue[IF j < i THEN j ELSE j + 1]
  BY <1>1, RemoveAtType
<1>4. DOMAIN queue' = 1 .. Len(queue) - 1
  BY <1>3
<1>5. /\ dispatchIndex <= Len(queue) /\ dispatchIndex <= MaxQueuedOutgoing
      /\ \A j \in 1 .. dispatchIndex : queue[j].sent
      /\ \A j \in 1 .. Len(queue) : queue[j].sent => j <= MaxQueuedOutgoing
  <2>1. NothingPassedOver
    BY DEF OutputInvariant
  <2>2. dispatchIndex <= Len(queue) /\ dispatchIndex <= MaxQueuedOutgoing
    BY <2>1, <1>1 DEF NothingPassedOver, Least
  <2>3. QED
    BY <2>1, <2>2, <1>1 DEF NothingPassedOver
<1>6. /\ dispatchIndex' \in Nat
      /\ dispatchIndex' = 0 \/ dispatchIndex' = dispatchIndex - 1
  BY <1>1 DEF SaturatingSub
<1>7. TypeOK'
  BY <1>1, <1>3, <1>6 DEF OutputInvariant, TypeOK
<1>8. QueueIsOrderedTail'
  <2>1. ASSUME NEW a \in DOMAIN queue', NEW b \in DOMAIN queue', a < b
        PROVE  queue'[a].packet.id < queue'[b].packet.id
    <3> DEFINE Old(j) == IF j < i THEN j ELSE j + 1
    <3>1. /\ Old(a) \in 1 .. Len(queue) /\ Old(b) \in 1 .. Len(queue)
          /\ Old(a) < Old(b)
      BY <2>1, <1>1, <1>4
    <3>2. queue'[a] = queue[Old(a)] /\ queue'[b] = queue[Old(b)]
      BY <1>3, <1>4
    <3> HIDE DEF Old
    <3>3. QED
      BY <3>1, <3>2, <1>1 DEF OutputInvariant, QueueIsOrderedTail
  <2>2. ASSUME NEW a \in DOMAIN queue'
        PROVE  queue'[a].packet.id < totalSequence'
    <3> DEFINE old == IF a < i THEN a ELSE a + 1
    <3>1. old \in 1 .. Len(queue) /\ queue'[a] = queue[old]
      BY <1>1, <1>3, <1>4
    <3> HIDE DEF old
    <3>2. QED
      BY <3>1, <1>1 DEF OutputInvariant, QueueIsOrderedTail
  <2>3. ASSUME NEW s \in 0 .. totalSequence' - 1, s > maxClient'
        PROVE  Queued(s)'
    <3>1. s \in 0 .. totalSequence - 1 /\ s > maxClient
      BY <2>3, <1>1
    <3>2. PICK j \in DOMAIN queue : queue[j].packet.id = s
      BY <3>1 DEF OutputInvariant, QueueIsOrderedTail, Queued
    <3>3. j # i
      <4>1. queue[i].packet.id # s
        BY <2>3, <1>1, <1>2
      <4>2. QED
        BY <4>1, <3>2
    <3> DEFINE new == IF j < i THEN j ELSE j - 1
    <3>4. /\ new \in 1 .. Len(queue) - 1
          /\ (IF new < i THEN new ELSE new + 1) = j
      BY <3>2, <3>3, <1>1
    <3> HIDE DEF new
    <3>5. queue'[new] = queue[j]
      BY <3>4, <1>3
    <3>6. QED
      BY <3>2, <3>4, <3>5, <1>4 DEF Queued
  <2>4. QED
    BY <2>1, <2>2, <2>3 DEF QueueIsOrderedTail
<1>9. NothingPassedOver'
  <2>1. dispatchIndex' <= Least(Len(queue'), MaxQueuedOutgoing)
    BY <1>1, <1>3, <1>5, <1>6 DEF Least
  <2>2. ASSUME NEW j \in 1 .. dispatchIndex'
        PROVE  queue'[j].sent
    <3> DEFINE old == IF j < i THEN j ELSE j + 1
    <3>1. /\ j \in 1 .. Len(queue) - 1
          /\ old \in 1 .. dispatchIndex
      BY <1>1, <1>5, <1>6
    <3>2. queue'[j] = queue[old]
      BY <3>1, <1>3
    <3> HIDE DEF old
    <3>3. QED
      BY <3>1, <3>2, <1>5
  <2>3. ASSUME NEW j \in DOMAIN queue', queue'[j].sent
        PROVE  j <= MaxQueuedOutgoing
    <3> DEFINE old == IF j < i THEN j ELSE j + 1
    <3>1. /\ old \in 1 .. Len(queue) /\ j <= old
          /\ queue'[j] = queue[old]
      BY <1>1, <1>3, <1>4
    <3>2. j \in Nat /\ old \in Nat
      BY <1>1, <1>4
    <3> HIDE DEF old
    <3>3. old <= MaxQueuedOutgoing
      BY <2>3, <3>1, <1>5
    <3>4. QED
      BY <3>1, <3>2, <3>3, <1>1
  <2>4. QED
    BY <2>1, <2>2, <2>3 DEF NothingPassedOver
<1>10. QED
  BY <1>7, <1>8, <1>9 DEF OutputInvariant

\* The first n packets leave, all those up to a sequence.
LEMMA OutputReleasesFirst ==
    ASSUME OutputInvariant, NEW n \in 0 .. Len(queue), NEW sequence \in Int,
           \A i \in 1 .. n : queue[i].packet.id <= sequence,
           queue' = SubSeq(queue, n + 1, Len(queue)),
           dispatchIndex' = SaturatingSub(dispatchIndex, n),
           UNCHANGED <<totalSequence, outgoing>>,
           maxClient' \in Nat, maxClient' >= maxClient, maxClient' >= sequence
    PROVE  OutputInvariant'
<1>1. /\ queue \in Seq(Stashed) /\ totalSequence \in Nat /\ maxClient \in Nat
      /\ dispatchIndex \in Nat /\ MaxQueuedOutgoing \in Nat
      /\ Len(queue) \in Nat /\ DOMAIN queue = 1 .. Len(queue) /\ n \in Nat
  BY OutputAssumption DEF OutputInvariant, TypeOK
<1>2. \A j \in 1 .. Len(queue) : queue[j].packet.id \in Nat
  <2> TAKE j \in 1 .. Len(queue)
  <2>1. queue[j] \in Stashed
    BY <1>1
  <2>2. QED
    BY <2>1 DEF Stashed, Packet
<1>3. /\ queue' \in Seq(Stashed)
      /\ Len(queue') = Len(queue) - n
      /\ DOMAIN queue' = 1 .. Len(queue) - n
      /\ \A j \in 1 .. Len(queue) - n : queue'[j] = queue[n + j]
  <2>1. /\ queue' \in Seq(Stashed)
        /\ Len(queue') = Len(queue) - n
        /\ \A j \in 1 .. Len(queue) - n : queue'[j] = queue[n + j]
    BY <1>1, DroppedFirst
  <2>2. DOMAIN queue' = 1 .. Len(queue')
    BY <2>1
  <2>3. QED
    BY <2>1, <2>2
<1>4. /\ dispatchIndex <= Len(queue) /\ dispatchIndex <= MaxQueuedOutgoing
      /\ \A j \in 1 .. dispatchIndex : queue[j].sent
      /\ \A j \in 1 .. Len(queue) : queue[j].sent => j <= MaxQueuedOutgoing
  <2>1. NothingPassedOver
    BY DEF OutputInvariant
  <2>2. dispatchIndex <= Len(queue) /\ dispatchIndex <= MaxQueuedOutgoing
    BY <2>1, <1>1 DEF NothingPassedOver, Least
  <2>3. QED
    BY <2>1, <2>2, <1>1 DEF NothingPassedOver
<1>5. /\ dispatchIndex' \in Nat
      /\ dispatchIndex' = 0 \/ dispatchIndex' = dispatchIndex - n
  BY <1>1 DEF SaturatingSub
<1>6. \A j \in DOMAIN queue' : /\ j \in Nat /\ n + j \in 1 .. Len(queue)
                              /\ queue'[j] = queue[n + j]
  <2> TAKE j \in DOMAIN queue'
  <2>1. j \in 1 .. Len(queue) - n
    BY <1>3
  <2>2. j \in Nat /\ n + j \in 1 .. Len(queue)
    BY <2>1, <1>1
  <2>3. QED
    BY <2>1, <2>2, <1>3
<1>7. TypeOK'
  BY <1>1, <1>3, <1>5 DEF OutputInvariant, TypeOK
<1>8. QueueIsOrderedTail'
  <2>1. ASSUME NEW a \in DOMAIN queue', NEW b \in DOMAIN queue', a < b
        PROVE  queue'[a].packet.id < queue'[b].packet.id
    <3>1. n + a < n + b
      BY <2>1, <1>1, <1>6
    <3>2. QED
      BY <3>1, <1>1, <1>6 DEF OutputInvariant, QueueIsOrderedTail
  <2>2. ASSUME NEW a \in DOMAIN queue'
        PROVE  queue'[a].packet.id < totalSequence'
    BY <1>1, <1>6 DEF OutputInvariant, QueueIsOrderedTail
  <2>3. ASSUME NEW s \in 0 .. totalSequence' - 1, s > maxClient'
        PROVE  Queued(s)'
    <3>1. s \in 0 .. totalSequence - 1 /\ s > maxClient /\ s > sequence
      BY <2>3, <1>1
    <3>2. PICK j \in DOMAIN queue : queue[j].packet.id = s
      BY <3>1 DEF OutputInvariant, QueueIsOrderedTail, Queued
    <3>3. j > n
      BY <3>1, <3>2, <1>1, <1>2
    <3>4. j - n \in 1 .. Len(queue) - n /\ n + (j - n) = j
      BY <3>2, <3>3, <1>1
    <3>5. queue'[j - n] = queue[j]
      BY <3>4, <1>3
    <3>6. QED
      BY <3>2, <3>4, <3>5, <1>3 DEF Queued
  <2>4. QED
    BY <2>1, <2>2, <2>3 DEF QueueIsOrderedTail
<1>9. NothingPassedOver'
  <2>1. dispatchIndex' <= Least(Len(queue'), MaxQueuedOutgoing)
    <3>1. Len(queue) - n \in Nat
      BY <1>1
    <3>2. /\ dispatchIndex' <= Len(queue) - n
          /\ dispatchIndex' <= MaxQueuedOutgoing
      BY <3>1, <1>1, <1>4, <1>5
    <3>3. QED
      BY <3>2, <1>3 DEF Least
  <2>2. ASSUME NEW j \in 1 .. dispatchIndex'
        PROVE  queue'[j].sent
    <3>1. n + j \in 1 .. dispatchIndex /\ j \in 1 .. Len(queue) - n
      BY <1>1, <1>4, <1>5
    <3>2. QED
      BY <3>1, <1>3, <1>4
  <2>3. ASSUME NEW j \in DOMAIN queue', queue'[j].sent
        PROVE  j <= MaxQueuedOutgoing
    <3>1. n + j <= MaxQueuedOutgoing
      BY <2>3, <1>4, <1>6
    <3>2. QED
      BY <3>1, <1>1, <1>6
  <2>4. QED
    BY <2>1, <2>2, <2>3 DEF NothingPassedOver
<1>10. QED
  BY <1>7, <1>8, <1>9 DEF OutputInvariant

\* Nothing leaves, and the highest sequence acknowledged may rise.
LEMMA OutputReleasesNone ==
    ASSUME OutputInvariant,
           UNCHANGED <<queue, dispatchIndex, totalSequence, outgoing>>,
           maxClient' \in Nat, maxClient' >= maxClient
    PROVE  OutputInvariant'
<1>1. TypeOK' /\ NothingPassedOver'
  BY DEF OutputInvariant, TypeOK, NothingPassedOver
<1>2. ASSUME NEW s \in 0 .. totalSequence' - 1, s > maxClient'
      PROVE  Queued(s)'
  <2>1. s \in 0 .. totalSequence - 1 /\ s > maxClient
    <3>1. /\ maxClient \in Nat /\ maxClient' \in Nat /\ totalSequence \in Nat
          /\ totalSequence' = totalSequence
      BY DEF OutputInvariant, TypeOK
    <3>2. QED
      BY <3>1, <1>2
  <2>2. QED
    BY <2>1 DEF OutputInvariant, QueueIsOrderedTail, Queued
<1>3. QueueIsOrderedTail'
  BY <1>2 DEF OutputInvariant, QueueIsOrderedTail
<1>4. QED
  BY <1>1, <1>3 DEF OutputInvariant

LEMMA OutputIsAcknowledged ==
    ASSUME OutputInvariant, NEW wire \in 0 .. SeqSpace - 1,
           NotifyOfAcknowledge(wire)
    PROVE  OutputInvariant'
<1> DEFINE sequence == TrueIncoming(wire)
<1>1. sequence \in Int
  BY TrueIncomingType DEF OutputInvariant
<1>2. RaiseMaxClient(sequence) /\ UNCHANGED <<totalSequence, outgoing>>
  BY DEF NotifyOfAcknowledge
<1>3. \/ \E i \in DOMAIN queue :
            /\ queue[i].packet.id = sequence
            /\ queue' = RemoveAt(queue, i)
            /\ dispatchIndex' = SaturatingSub(dispatchIndex, 1)
      \/ UNCHANGED <<queue, dispatchIndex>>
  BY DEF NotifyOfAcknowledge
<1> HIDE DEF sequence
<1>4. /\ maxClient' \in Nat /\ maxClient' >= maxClient
      /\ maxClient' >= sequence
  BY <1>1, <1>2, RaiseMaxClientType DEF OutputInvariant
<1>5. CASE UNCHANGED <<queue, dispatchIndex>>
  BY <1>2, <1>4, <1>5, OutputReleasesNone
<1>6. ASSUME NEW i \in DOMAIN queue, queue[i].packet.id = sequence,
             queue' = RemoveAt(queue, i),
             dispatchIndex' = SaturatingSub(dispatchIndex, 1)
      PROVE  OutputInvariant'
  BY <1>2, <1>4, <1>6, OutputReleasesOne
<1>7. QED
  BY <1>3, <1>5, <1>6

LEMMA OutputIsAcknowledgedUpTo ==
    ASSUME OutputInvariant, NEW wire \in 0 .. SeqSpace - 1,
           NotifyOfAcknowledgeAll(wire)
    PROVE  OutputInvariant'
<1> DEFINE sequence == TrueIncoming(wire)
<1>1. sequence \in Int
  BY TrueIncomingType DEF OutputInvariant
<1>2. RaiseMaxClient(sequence) /\ UNCHANGED <<totalSequence, outgoing>>
  BY DEF NotifyOfAcknowledgeAll
<1>3. PICK n \in 0 .. Len(queue) :
         /\ \A i \in 1 .. n : queue[i].packet.id <= sequence
         /\ queue' = SubSeq(queue, n + 1, Len(queue))
         /\ dispatchIndex' = SaturatingSub(dispatchIndex, n)
  BY DEF NotifyOfAcknowledgeAll
<1> HIDE DEF sequence
<1>4. /\ maxClient' \in Nat /\ maxClient' >= maxClient
      /\ maxClient' >= sequence
  BY <1>1, <1>2, RaiseMaxClientType DEF OutputInvariant
<1>5. QED
  BY <1>1, <1>2, <1>3, <1>4, OutputReleasesFirst

LEMMA OutputNext == OutputInvariant /\ [Next]_vars => OutputInvariant'
<1> SUFFICES ASSUME OutputInvariant, [Next]_vars
             PROVE  OutputInvariant'
  OBVIOUS
<1>1. ASSUME NEW n \in 1 .. MaxFragments, EnqueueData(n)
      PROVE  OutputInvariant'
  BY <1>1, OutputEnqueues
<1>2. ASSUME NEW timedOut \in BOOLEAN, RunTick(timedOut)
      PROVE  OutputInvariant'
  BY <1>2, OutputTicks
<1>3. CASE TakeOutgoing
  BY <1>3, OutputIsTaken
<1>4. ASSUME NEW wire \in 0 .. SeqSpace - 1, NotifyOfAcknowledge(wire)
      PROVE  OutputInvariant'
  BY <1>4, OutputIsAcknowledged
<1>5. ASSUME NEW wire \in 0 .. SeqSpace - 1, NotifyOfAcknowledgeAll(wire)
      PROVE  OutputInvariant'
  BY <1>5, OutputIsAcknowledgedUpTo
<1>6. CASE UNCHANGED vars
  BY <1>6 DEF vars, OutputInvariant, TypeOK, QueueIsOrderedTail,
              NothingPassedOver, Queued
<1>7. QED
  BY <1>1, <1>2, <1>3, <1>4, <1>5, <1>6 DEF Next

-----------------------------------------------------------------------------

LEMMA OutputInvariantHolds == Spec => []OutputInvariant
BY OutputInit, OutputNext, PTL DEF Spec

\* The sending channel's variables stay in their ranges, for every window and
\* every message length.
THEOREM OutputTypes == Spec => []TypeOK
<1>1. OutputInvariant => TypeOK
  BY DEF OutputInvariant
<1>2. QED
  BY <1>1, OutputInvariantHolds, PTL

\* Whatever is acknowledged and however often, the dispatch queue keeps its
\* order and everything above the highest acknowledged sequence.
THEOREM OutputKeepsTheTail == Spec => []QueueIsOrderedTail
<1>1. OutputInvariant => QueueIsOrderedTail
  BY DEF OutputInvariant
<1>2. QED
  BY <1>1, OutputInvariantHolds, PTL

\* However ticks, go-backs and acknowledgements alternate, the dispatch index
\* passes over no packet that was not sent, and the window is kept.
THEOREM OutputPassesNothingOver == Spec => []NothingPassedOver
<1>1. OutputInvariant => NothingPassedOver
  BY DEF OutputInvariant
<1>2. QED
  BY <1>1, OutputInvariantHolds, PTL

-----------------------------------------------------------------------------
(* The clock: its inductive invariant.                                     *)

Ids == Flying(queue)

\* What is stamped are the packets in flight.
TimedTypes ==
    /\ age \in [Ids -> 0 .. MaxAge]
    /\ dispatches \in [Ids -> {1, 2}]
    /\ resent \subseteq Ids
    /\ srtt \in {NoEstimate} \cup Nat /\ rttvar \in Nat
    /\ sinceReset \in 0 .. MaxAge

\* A packet in flight is marked if and only if it was sent more than once.
MarkedIfResent == \A id \in Ids : id \in resent <=> dispatches[id] = 2

\* The last go-back stamped all packets in flight, or they were sent after it.
StampedSinceReset == \A id \in Ids : age[id] <= sinceReset

TimedInv ==
    /\ OutputInvariant
    /\ TimedTypes
    /\ MarkedIfResent
    /\ StampedSinceReset
    /\ FrontIsOldest
    /\ TimeoutHasHeadroom

-----------------------------------------------------------------------------

\* What the invariant says of the queue.
LEMMA TimedQueue ==
    ASSUME OutputInvariant
    PROVE  /\ queue \in Seq(Stashed)
           /\ Len(queue) \in Nat /\ DOMAIN queue = 1 .. Len(queue)
           /\ dispatchIndex \in Nat
           /\ MaxQueuedOutgoing \in Nat \ {0} /\ MaxFragments \in Nat \ {0}
           /\ \A i \in 1 .. Len(queue) : /\ queue[i].packet.id \in Nat
                                         /\ queue[i].sent \in BOOLEAN
           /\ \A i, j \in 1 .. Len(queue) :
                 queue[i].packet.id = queue[j].packet.id => i = j
<1>1. /\ queue \in Seq(Stashed) /\ Len(queue) \in Nat
      /\ DOMAIN queue = 1 .. Len(queue) /\ dispatchIndex \in Nat
      /\ MaxQueuedOutgoing \in Nat \ {0} /\ MaxFragments \in Nat \ {0}
  BY OutputAssumption DEF OutputInvariant, TypeOK, OutputAssumption
<1>2. ASSUME NEW i \in 1 .. Len(queue)
      PROVE  queue[i].packet.id \in Nat /\ queue[i].sent \in BOOLEAN
  <2>1. queue[i] \in Stashed
    BY <1>1
  <2> QED
    BY <2>1 DEF Stashed, Packet
<1>3. \A i, j \in 1 .. Len(queue) : i < j => queue[i].packet.id < queue[j].packet.id
  BY <1>1 DEF OutputInvariant, QueueIsOrderedTail
<1>4. ASSUME NEW i \in 1 .. Len(queue), NEW j \in 1 .. Len(queue),
             queue[i].packet.id = queue[j].packet.id
      PROVE  i = j
  <2>1. ~(i < j) /\ ~(j < i)
    BY <1>2, <1>3, <1>4
  <2> QED
    BY <2>1, <1>1
<1> QED
  BY <1>1, <1>2, <1>4

\* In flight is what is marked sent.
LEMMA InFlight ==
    ASSUME OutputInvariant
    PROVE  /\ Ids \subseteq Nat
           /\ \A i \in 1 .. Len(queue) : queue[i].packet.id \in Ids <=> queue[i].sent
           /\ \A id \in Ids : \E i \in 1 .. Len(queue) :
                 queue[i].packet.id = id /\ queue[i].sent
<1>1. \A id \in Ids : \E i \in 1 .. Len(queue) :
         queue[i].packet.id = id /\ queue[i].sent
  BY TimedQueue DEF Ids, Flying
<1>2. \A i \in 1 .. Len(queue) : queue[i].sent => queue[i].packet.id \in Ids
  BY TimedQueue DEF Ids, Flying
<1>3. /\ \A i \in 1 .. Len(queue) : queue[i].packet.id \in Nat
      /\ \A i, j \in 1 .. Len(queue) :
            queue[i].packet.id = queue[j].packet.id => i = j
  BY TimedQueue
<1>4. Ids \subseteq Nat
  BY <1>1, <1>3
<1>5. \A i \in 1 .. Len(queue) : queue[i].packet.id \in Ids => queue[i].sent
  BY <1>1, <1>3
<1> QED
  BY <1>1, <1>2, <1>4, <1>5

LEMMA LeastGreater ==
    ASSUME NEW a \in Int, NEW b \in Int
    PROVE  /\ Least(a, b) \in {a, b} /\ Least(a, b) <= a /\ Least(a, b) <= b
           /\ Greater(a, b) \in {a, b} /\ Greater(a, b) >= a /\ Greater(a, b) >= b
BY DEF Least, Greater

-----------------------------------------------------------------------------
(* The steps on the queue.                                                 *)

\* Most steps leave the stamps of the packets in flight alone, whatever else
\* they do to the queue.
LEMMA StampsKept ==
    ASSUME TimedInv, OutputInvariant', Ids' = Ids,
           \A i, j \in DOMAIN queue' : i < j /\ queue'[j].sent =>
              \E k, l \in DOMAIN queue :
                 k < l /\ queue'[i] = queue[k] /\ queue'[j] = queue[l],
           UNCHANGED timing
    PROVE  TimedInv'
<1>1. TimedTypes' /\ MarkedIfResent' /\ StampedSinceReset' /\ TimeoutHasHeadroom'
  BY DEF TimedInv, timing, TimedTypes, MarkedIfResent, StampedSinceReset,
         TimeoutHasHeadroom
<1>2. FrontIsOldest'
  BY DEF TimedInv, FrontIsOldest, timing
<1> QED
  BY <1>1, <1>2 DEF TimedInv

LEMMA EnqueueKeepsStamps ==
    ASSUME TimedInv, NEW n \in 1 .. MaxFragments, EnqueueData(n), UNCHANGED timing
    PROVE  TimedInv'
<1> DEFINE new == [i \in 1 .. n |-> [packet |-> Fragment(i, n), sent |-> FALSE]]
           l == Len(queue)
<1>1. OutputInvariant /\ OutputInvariant'
  BY OutputEnqueues DEF TimedInv
<1>2. /\ queue \in Seq(Stashed) /\ l \in Nat /\ DOMAIN queue = 1 .. l
      /\ n \in Nat \ {0}
  BY <1>1, TimedQueue
<1>3. queue' = queue \o new
  BY DEF EnqueueData
<1>4. /\ DOMAIN queue' = 1 .. l + n
      /\ \A i \in 1 .. l : queue'[i] = queue[i]
      /\ \A i \in l + 1 .. l + n : ~queue'[i].sent
  <2>1. /\ totalSequence \in Nat /\ MaxFragments \in Nat
    BY <1>1, TimedQueue DEF OutputInvariant, TypeOK
  <2>2. ASSUME NEW i \in 1 .. n
        PROVE  [packet |-> Fragment(i, n), sent |-> FALSE] \in Stashed
    <3>1. /\ totalSequence + i - 1 \in Nat
          /\ n \in 0 .. MaxFragments /\ 0 \in 0 .. MaxFragments
          /\ (n > 1) \in BOOLEAN
      BY <2>1, <1>2
    <3> QED
      BY <3>1 DEF Fragment, NoPrefix, NoMaster, Stashed, Packet
  <2>3. \A i \in 1 .. n : new[i] = [packet |-> Fragment(i, n), sent |-> FALSE]
    OBVIOUS
  <2>4. new \in [1 .. n -> Stashed]
    BY <2>2
  <2>9. ASSUME NEW i \in 1 .. n PROVE new[i].sent = FALSE
    OBVIOUS
  <2> HIDE DEF new
  <2>5. new \in Seq(Stashed) /\ Len(new) = n
    BY <2>4, <1>2
  <2>6. ASSUME NEW i \in 1 .. n PROVE ~new[i].sent
    BY <2>9
  <2>7. /\ DOMAIN (queue \o new) = 1 .. Len(queue) + n
        /\ \A i \in 1 .. Len(queue) : (queue \o new)[i] = queue[i]
        /\ \A i \in Len(queue) + 1 .. Len(queue) + n :
              (queue \o new)[i] = new[i - Len(queue)]
    BY <2>5, <1>2
  <2>8. \A i \in l + 1 .. l + n : i - l \in 1 .. n
    BY <1>2
  <2> QED
    BY <2>6, <2>7, <2>8, <1>3
<1> HIDE DEF new, l
<1>5. Ids' = Ids
  <2>1. \A i \in 1 .. l + n : i \in 1 .. l \/ i \in l + 1 .. l + n
    BY <1>2
  <2>2. \A i \in 1 .. l : i \in 1 .. l + n
    BY <1>2
  <2> QED
    BY <2>1, <2>2, <1>2, <1>4 DEF Ids, Flying
<1>6. ASSUME NEW i \in DOMAIN queue', NEW j \in DOMAIN queue',
             i < j, queue'[j].sent
      PROVE  \E k, m \in DOMAIN queue :
                k < m /\ queue'[i] = queue[k] /\ queue'[j] = queue[m]
  <2>1. j \in 1 .. l /\ i \in 1 .. l
    BY <1>2, <1>4, <1>6
  <2> QED
    BY <2>1, <1>2, <1>4, <1>6
<1> QED
  BY <1>1, <1>5, <1>6, StampsKept

\* A tick dispatches the rest of the window, or all of it again.
LEMMA TickDispatches ==
    ASSUME OutputInvariant, Tick
    PROVE  /\ Ids' = Ids \cup Due(TimedOut)
           /\ DOMAIN queue' = DOMAIN queue
           /\ \A i \in 1 .. Len(queue) :
                 /\ queue'[i].packet.id = queue[i].packet.id
                 /\ queue'[i].sent => i <= Least(Len(queue), MaxQueuedOutgoing)
                 /\ i <= Least(Len(queue), MaxQueuedOutgoing) => queue'[i].sent
           /\ \A i \in 1 .. Len(queue) :
                 queue[i].packet.id \in Due(TimedOut) <=>
                    /\ i > (IF TimedOut THEN 0 ELSE dispatchIndex)
                    /\ i <= Least(Len(queue), MaxQueuedOutgoing)
           /\ TimedOut => Ids \subseteq Due(TimedOut)
           /\ Due(TimedOut) \subseteq Nat
<1> DEFINE first == IF TimedOut THEN 0 ELSE dispatchIndex
           limit == Least(Len(queue), MaxQueuedOutgoing)
           due   == first + 1 .. limit
<1>1. queue' = [i \in DOMAIN queue |->
                   IF i \in due THEN [queue[i] EXCEPT !.sent = TRUE] ELSE queue[i]]
  BY DEF Tick, RunTick
<1>2. /\ queue \in Seq(Stashed) /\ Len(queue) \in Nat
      /\ DOMAIN queue = 1 .. Len(queue)
      /\ dispatchIndex \in Nat /\ MaxQueuedOutgoing \in Nat \ {0}
      /\ \A i \in 1 .. Len(queue) : queue[i].packet.id \in Nat
      /\ \A i, j \in 1 .. Len(queue) :
            queue[i].packet.id = queue[j].packet.id => i = j
  BY TimedQueue
<1>3. /\ limit \in Nat /\ limit <= Len(queue) /\ first \in Nat
      /\ \A k \in Nat : k <= Len(queue) /\ k <= MaxQueuedOutgoing => k <= limit
  BY <1>2 DEF Least
<1>4. due \subseteq 1 .. Len(queue)
  BY <1>2, <1>3
<1>5. Due(TimedOut) = {queue[i].packet.id : i \in due}
  BY DEF Due
<1> HIDE DEF limit
<1>6. /\ \A i \in 1 .. Len(queue) : queue[i].sent => i <= limit
      /\ \A i \in 1 .. Len(queue) : i <= dispatchIndex => queue[i].sent
  <2>1. \A i \in 1 .. Len(queue) : queue[i].sent => i <= MaxQueuedOutgoing
    BY <1>2 DEF OutputInvariant, NothingPassedOver
  <2>2. \A i \in 1 .. dispatchIndex : queue[i].sent
    BY DEF OutputInvariant, NothingPassedOver
  <2> QED
    BY <2>1, <2>2, <1>2, <1>3
<1>7. ASSUME NEW i \in 1 .. Len(queue)
      PROVE  i \in due <=> i > first /\ i <= limit
  BY <1>3
<1> HIDE DEF due
<1>8. DOMAIN queue' = DOMAIN queue
  BY <1>1
<1>9. ASSUME NEW i \in 1 .. Len(queue)
      PROVE  /\ queue'[i].packet.id = queue[i].packet.id
             /\ i \in due => queue'[i].sent
             /\ i \notin due => queue'[i] = queue[i]
  <2>1. queue[i] \in Stashed
    BY <1>2
  <2>2. queue'[i] = IF i \in due THEN [queue[i] EXCEPT !.sent = TRUE] ELSE queue[i]
    BY <1>1, <1>2
  <2> QED
    BY <2>1, <2>2 DEF Stashed
<1>10. ASSUME NEW i \in 1 .. Len(queue)
       PROVE  /\ queue'[i].sent => i <= limit
              /\ i <= limit => queue'[i].sent
  <2>1. CASE i \in due
    BY <2>1, <1>7, <1>9
  <2>2. CASE i \notin due
    <3>1. i <= limit => i <= first
      BY <2>2, <1>3, <1>7
    <3>2. first = dispatchIndex \/ first = 0
      OBVIOUS
    <3>3. i <= first => i <= dispatchIndex
      BY <3>2, <1>2
    <3> QED
      BY <2>2, <3>1, <3>3, <1>6, <1>9
  <2> QED
    BY <2>1, <2>2
<1>11. ASSUME NEW i \in 1 .. Len(queue)
       PROVE  queue[i].packet.id \in Due(TimedOut) <=> i \in due
  BY <1>2, <1>4, <1>5
<1>12. Ids' = Ids \cup Due(TimedOut)
  <2>1. ASSUME NEW id \in Ids' PROVE id \in Ids \cup Due(TimedOut)
    <3>1. PICK i \in 1 .. Len(queue) : queue'[i].packet.id = id /\ queue'[i].sent
      BY <2>1, <1>2, <1>8 DEF Ids, Flying
    <3>2. CASE i \in due
      BY <3>1, <3>2, <1>9, <1>11
    <3>3. CASE i \notin due
      BY <3>1, <3>3, <1>2, <1>9 DEF Ids, Flying
    <3> QED
      BY <3>2, <3>3
  <2>2. ASSUME NEW id \in Ids PROVE id \in Ids'
    <3>1. PICK i \in 1 .. Len(queue) : queue[i].packet.id = id /\ queue[i].sent
      BY <2>2, <1>2 DEF Ids, Flying
    <3>2. queue'[i].packet.id = id /\ queue'[i].sent
      BY <3>1, <1>9
    <3> QED
      BY <3>2, <1>2, <1>8 DEF Ids, Flying
  <2>3. ASSUME NEW id \in Due(TimedOut) PROVE id \in Ids'
    <3>1. PICK i \in due : id = queue[i].packet.id
      BY <2>3, <1>5
    <3>2. i \in 1 .. Len(queue)
      BY <3>1, <1>4
    <3>3. queue'[i].packet.id = id /\ queue'[i].sent
      BY <3>1, <3>2, <1>9
    <3> QED
      BY <3>2, <3>3, <1>2, <1>8 DEF Ids, Flying
  <2> QED
    BY <2>1, <2>2, <2>3
<1>13. ASSUME TimedOut, NEW id \in Ids PROVE id \in Due(TimedOut)
  <2>1. PICK i \in 1 .. Len(queue) : queue[i].packet.id = id /\ queue[i].sent
    BY <1>13, <1>2 DEF Ids, Flying
  <2>2. first = 0
    BY <1>13
  <2>3. i > first /\ i <= limit
    BY <2>1, <2>2, <1>6
  <2> QED
    BY <2>1, <2>3, <1>7, <1>11
<1>14. Due(TimedOut) \subseteq Nat
  BY <1>2, <1>4, <1>5
<1> QED
  BY <1>7, <1>8, <1>9, <1>10, <1>11, <1>12, <1>13, <1>14 DEF limit

\* The packets that a tick sends are stamped anew, all others before them in the
\* queue were sent earlier.
LEMMA TickKeepsStamps ==
    ASSUME TimedInv, Tick
    PROVE  TimedInv'
<1> DEFINE due == Due(TimedOut)
           limit == Least(Len(queue), MaxQueuedOutgoing)
<1>1. /\ OutputInvariant /\ TimedTypes /\ MarkedIfResent /\ StampedSinceReset
      /\ FrontIsOldest /\ TimeoutHasHeadroom
  BY DEF TimedInv
<1>2. OutputInvariant'
  <2>1. RunTick(TimedOut) /\ TimedOut \in BOOLEAN
    BY DEF Tick, TimedOut
  <2> QED
    BY <2>1, <1>1, OutputTicks
<1>3. /\ Ids' = Ids \cup due /\ DOMAIN queue' = DOMAIN queue
      /\ \A i \in 1 .. Len(queue) :
            /\ queue'[i].packet.id = queue[i].packet.id
            /\ queue'[i].sent => i <= limit
            /\ i <= limit => queue'[i].sent
      /\ \A i \in 1 .. Len(queue) :
            queue[i].packet.id \in due <=>
               i > (IF TimedOut THEN 0 ELSE dispatchIndex) /\ i <= limit
      /\ TimedOut => Ids \subseteq due
      /\ due \subseteq Nat
  BY <1>1, TickDispatches
<1>4. /\ Len(queue) \in Nat /\ DOMAIN queue = 1 .. Len(queue)
      /\ dispatchIndex \in Nat /\ limit \in Nat /\ Ids \subseteq Nat
  BY <1>1, TimedQueue, InFlight DEF Least
<1>5. /\ age' = [id \in Ids \cup due |-> IF id \in due THEN 0 ELSE age[id]]
      /\ resent' = resent \cup (due \cap Ids)
      /\ rto' = IF TimedOut THEN Least(2 * rto, RtoMax) ELSE rto
      /\ sinceReset' = IF TimedOut THEN 0 ELSE sinceReset
      /\ dispatches' = [id \in Ids \cup due |->
                           IF id \notin due THEN dispatches[id]
                           ELSE IF id \in Ids THEN 2 ELSE 1]
      /\ UNCHANGED <<srtt, rttvar>>
  BY DEF Tick, Restamp, Backoff, Ids
<1> HIDE DEF due, limit
<1>6. /\ RtoMin \in Nat \ {0} /\ RtoMax \in Nat /\ MaxAge \in Nat
      /\ Granularity \in Nat
  BY TimeAssumption DEF TimeAssumption
<1>7. TimedTypes'
  <2>1. age' \in [Ids' -> 0 .. MaxAge]
    BY <1>1, <1>3, <1>5, <1>6 DEF TimedTypes
  <2>2. dispatches' \in [Ids' -> {1, 2}]
    BY <1>1, <1>3, <1>5 DEF TimedTypes
  <2>3. resent' \subseteq Ids'
    BY <1>1, <1>3, <1>5 DEF TimedTypes
  <2>4. sinceReset' \in 0 .. MaxAge
    BY <1>1, <1>5, <1>6 DEF TimedTypes
  <2> QED
    BY <2>1, <2>2, <2>3, <2>4, <1>1, <1>5 DEF TimedTypes
<1>8. MarkedIfResent'
  <2>1. SUFFICES ASSUME NEW id \in Ids \cup due
                 PROVE  id \in resent' <=> dispatches'[id] = 2
    BY <1>3 DEF MarkedIfResent
  <2>2. CASE id \in due
    BY <2>2, <1>1, <1>5 DEF TimedTypes
  <2>3. CASE id \notin due
    BY <2>1, <2>3, <1>1, <1>5 DEF MarkedIfResent
  <2> QED
    BY <2>2, <2>3
<1>9. StampedSinceReset'
  <2>1. SUFFICES ASSUME NEW id \in Ids \cup due
                 PROVE  age'[id] <= sinceReset'
    BY <1>3 DEF StampedSinceReset
  <2>2. sinceReset' \in Nat
    BY <1>7, <1>6 DEF TimedTypes
  <2>3. CASE id \in due
    BY <2>2, <2>3, <1>5
  <2>4. CASE id \notin due
    <3>1. ~TimedOut /\ id \in Ids
      BY <2>1, <2>4, <1>3
    <3> QED
      BY <3>1, <2>4, <1>1, <1>5 DEF StampedSinceReset
  <2> QED
    BY <2>3, <2>4
<1>10. FrontIsOldest'
  <2>1. SUFFICES ASSUME NEW i \in 1 .. Len(queue), NEW j \in 1 .. Len(queue),
                        i < j, queue'[j].sent
                 PROVE  /\ queue'[i].sent
                        /\ age'[queue[i].packet.id] >= age'[queue[j].packet.id]
    BY <1>3, <1>4 DEF FrontIsOldest
  <2>2. j <= limit /\ i <= limit /\ queue'[i].sent
    BY <2>1, <1>3, <1>4
  <2>3. queue[i].packet.id \in Ids' /\ queue[j].packet.id \in Ids'
    BY <2>1, <2>2, <1>3, <1>4 DEF Ids, Flying
  <2>4. age'[queue[i].packet.id] \in Nat
    BY <2>3, <1>7, <1>6 DEF TimedTypes
  <2>5. CASE queue[j].packet.id \in due
    <3>1. age'[queue[j].packet.id] = 0
      BY <2>5, <1>5
    <3> QED
      BY <2>2, <2>4, <3>1
  <2>6. CASE queue[j].packet.id \notin due
    <3>1. ~TimedOut /\ j <= dispatchIndex
      BY <2>1, <2>2, <2>6, <1>3, <1>4
    <3>2. i <= dispatchIndex /\ queue[i].packet.id \notin due
      BY <2>1, <3>1, <1>3, <1>4
    <3>3. queue[j].sent
      BY <3>1, <2>1, <1>1, <1>4 DEF OutputInvariant, NothingPassedOver
    <3>4. age[queue[i].packet.id] >= age[queue[j].packet.id]
      BY <2>1, <3>3, <1>1, <1>4 DEF FrontIsOldest
    <3> QED
      BY <2>2, <2>3, <2>6, <3>2, <3>4, <1>3, <1>5
  <2> QED
    BY <2>5, <2>6
<1>11. TimeoutHasHeadroom'
  <2>1. rto \in RtoMin .. RtoMax /\ rto' \in RtoMin .. RtoMax /\ rto <= rto'
    <3>1. rto \in RtoMin .. RtoMax
      BY <1>1 DEF TimeoutHasHeadroom
    <3>2. /\ Least(2 * rto, RtoMax) \in RtoMin .. RtoMax
          /\ rto <= Least(2 * rto, RtoMax)
      BY <3>1, <1>6 DEF Least
    <3> QED
      BY <3>1, <3>2, <1>5
  <2>2. srtt # NoEstimate => srtt \in Nat /\ rto >= Least(srtt + Granularity, RtoMax)
    BY <1>1 DEF TimeoutHasHeadroom, TimedTypes
  <2>3. Least(srtt + Granularity, RtoMax) \in Int \/ srtt = NoEstimate
    BY <2>2, <1>6 DEF Least
  <2>4. srtt' # NoEstimate => rto' >= Least(srtt' + Granularity, RtoMax)
    BY <2>1, <2>2, <2>3, <1>5, <1>6
  <2> QED
    BY <2>1, <2>4 DEF TimeoutHasHeadroom
<1> QED
  BY <1>2, <1>7, <1>8, <1>9, <1>10, <1>11 DEF TimedInv

-----------------------------------------------------------------------------
(* Acknowledgements.                                                       *)

\* What an acknowledgement leaves in the queue was there, in the same order.
StaysInOrder ==
    /\ \A i \in DOMAIN queue' : \E k \in DOMAIN queue : queue'[i] = queue[k]
    /\ \A i, j \in DOMAIN queue' : i < j =>
          \E k, l \in DOMAIN queue :
             k < l /\ queue'[i] = queue[k] /\ queue'[j] = queue[l]

LEMMA AcknowledgedInOrder ==
    ASSUME OutputInvariant, NEW wire \in 0 .. SeqSpace - 1,
           NotifyOfAcknowledge(wire) \/ NotifyOfAcknowledgeAll(wire)
    PROVE  StaysInOrder
<1>1. queue \in Seq(Stashed) /\ Len(queue) \in Nat /\ DOMAIN queue = 1 .. Len(queue)
  BY TimedQueue
<1>2. CASE queue' = queue
  BY <1>2 DEF StaysInOrder
<1>3. ASSUME NEW n \in DOMAIN queue, queue' = RemoveAt(queue, n)
      PROVE  StaysInOrder
  <2> DEFINE old(i) == IF i < n THEN i ELSE i + 1
  <2>1. /\ Len(queue') = Len(queue) - 1 /\ queue' \in Seq(Stashed)
        /\ \A i \in 1 .. Len(queue) - 1 : queue'[i] = queue[old(i)]
    BY <1>1, <1>3, RemoveAtType
  <2>2. DOMAIN queue' = 1 .. Len(queue) - 1
    BY <2>1
  <2>3. /\ \A i \in 1 .. Len(queue) - 1 : old(i) \in DOMAIN queue
        /\ \A i, j \in 1 .. Len(queue) - 1 : i < j => old(i) < old(j)
    BY <1>1
  <2> HIDE DEF old
  <2> QED
    BY <2>1, <2>2, <2>3 DEF StaysInOrder
<1>4. ASSUME NEW n \in 0 .. Len(queue), queue' = SubSeq(queue, n + 1, Len(queue))
      PROVE  StaysInOrder
  <2> DEFINE old(i) == n + i
  <2>1. /\ Len(queue') = Len(queue) - n /\ queue' \in Seq(Stashed)
        /\ \A i \in 1 .. Len(queue) - n : queue'[i] = queue[old(i)]
    BY <1>1, <1>4, DroppedFirst
  <2>2. DOMAIN queue' = 1 .. Len(queue) - n
    BY <2>1
  <2>3. /\ \A i \in 1 .. Len(queue) - n : old(i) \in DOMAIN queue
        /\ \A i, j \in 1 .. Len(queue) - n : i < j => old(i) < old(j)
    BY <1>1
  <2> HIDE DEF old
  <2> QED
    BY <2>1, <2>2, <2>3 DEF StaysInOrder
<1> QED
  BY <1>2, <1>3, <1>4 DEF NotifyOfAcknowledge, NotifyOfAcknowledgeAll

\* The estimate and the timeout that one sample leads to.
LEMMA MeasuredTimeout ==
    ASSUME TimedTypes, NEW sample \in Nat, UpdateRto(sample)
    PROVE  /\ srtt' \in Nat /\ rttvar' \in Nat /\ rto' \in RtoMin .. RtoMax
           /\ rto' >= Least(srtt' + Granularity, RtoMax)
<1>1. /\ RtoMin \in Nat /\ RtoMax \in Nat /\ Granularity \in Nat /\ RtoMin <= RtoMax
  BY TimeAssumption DEF TimeAssumption
<1>2. srtt \in {NoEstimate} \cup Nat /\ rttvar \in Nat
  BY DEF TimedTypes
<1>3. srtt' \in Nat
  <2>1. srtt # NoEstimate => srtt * 7 + sample \in Nat
    BY <1>2
  <2>2. \A n \in Nat : n \div 8 \in Nat
    OBVIOUS
  <2> QED
    BY <2>1, <2>2 DEF UpdateRto, NextSrtt
<1>4. rttvar' \in Nat
  <2>1. srtt # NoEstimate => rttvar * 3 + Apart(srtt, sample) \in Nat
    BY <1>2 DEF Apart
  <2>2. \A n \in Nat : n \div 4 \in Nat /\ n \div 2 \in Nat
    OBVIOUS
  <2> QED
    BY <2>1, <2>2 DEF UpdateRto, NextRttvar
<1>5. ASSUME NEW estimate \in Nat, NEW variance \in Nat
      PROVE  /\ Timeout(estimate, variance) \in RtoMin .. RtoMax
             /\ Timeout(estimate, variance) >= Least(estimate + Granularity, RtoMax)
  BY <1>1 DEF Timeout, Least, Greater
<1>6. rto' = Timeout(srtt', rttvar')
  BY DEF UpdateRto
<1> QED
  BY <1>3, <1>4, <1>5, <1>6, Zenon

LEMMA AcknowledgementKeepsStamps ==
    ASSUME TimedInv, NEW wire \in 0 .. SeqSpace - 1,
           Acknowledge(wire) \/ AcknowledgeAll(wire)
    PROVE  TimedInv'
<1>1. /\ OutputInvariant /\ TimedTypes /\ MarkedIfResent /\ StampedSinceReset
      /\ FrontIsOldest /\ TimeoutHasHeadroom
  BY DEF TimedInv
<1>2. /\ NotifyOfAcknowledge(wire) \/ NotifyOfAcknowledgeAll(wire)
      /\ Measure
      /\ age' = [id \in Ids' |-> age[id]]
      /\ dispatches' = [id \in Ids' |-> dispatches[id]]
      /\ resent' = resent \cap Ids'
      /\ sinceReset' = sinceReset
  BY DEF Acknowledge, AcknowledgeAll, Forget, Ids, Flying
<1>3. OutputInvariant'
  BY <1>1, <1>2, OutputIsAcknowledged, OutputIsAcknowledgedUpTo
<1>4. StaysInOrder
  BY <1>1, <1>2, AcknowledgedInOrder
<1>5. Ids' \subseteq Ids
  <2>1. ASSUME NEW i \in DOMAIN queue', queue'[i].sent
        PROVE  queue'[i].packet.id \in Ids
    <3>1. PICK k \in DOMAIN queue : queue'[i] = queue[k]
      BY <1>4 DEF StaysInOrder
    <3> QED
      BY <2>1, <3>1 DEF Ids, Flying
  <2> QED
    BY <2>1 DEF Ids, Flying
<1>6. \/ UNCHANGED <<srtt, rttvar, rto>>
      \/ \E id \in Ids : age[id] \in Nat /\ UpdateRto(age[id])
  <2>1. Samples \subseteq Ids
    BY DEF Samples, Ids
  <2>2. \A id \in Ids : age[id] \in Nat
    BY <1>1, TimeAssumption DEF TimedTypes, TimeAssumption
  <2> QED
    BY <1>2, <2>1, <2>2 DEF Measure
<1>7. /\ srtt' \in {NoEstimate} \cup Nat /\ rttvar' \in Nat
      /\ TimeoutHasHeadroom'
  <2>1. CASE UNCHANGED <<srtt, rttvar, rto>>
    BY <2>1, <1>1 DEF TimedTypes, TimeoutHasHeadroom
  <2>2. ASSUME NEW id \in Ids, age[id] \in Nat, UpdateRto(age[id])
        PROVE  /\ srtt' \in {NoEstimate} \cup Nat /\ rttvar' \in Nat
               /\ TimeoutHasHeadroom'
    BY <2>2, <1>1, MeasuredTimeout DEF TimeoutHasHeadroom
  <2> QED
    BY <2>1, <2>2, <1>6
<1>8. TimedTypes'
  <2>1. \A id \in Ids' : age[id] \in 0 .. MaxAge /\ dispatches[id] \in {1, 2}
    BY <1>1, <1>5 DEF TimedTypes
  <2>2. age' \in [Ids' -> 0 .. MaxAge] /\ dispatches' \in [Ids' -> {1, 2}]
    BY <2>1, <1>2
  <2>3. resent' \subseteq Ids' /\ sinceReset' \in 0 .. MaxAge
    BY <1>1, <1>2 DEF TimedTypes
  <2> QED
    BY <2>2, <2>3, <1>7 DEF TimedTypes
<1>9. MarkedIfResent'
  BY <1>1, <1>2, <1>5 DEF MarkedIfResent
<1>10. StampedSinceReset'
  BY <1>1, <1>2, <1>5 DEF StampedSinceReset
<1>11. FrontIsOldest'
  <2>1. SUFFICES ASSUME NEW i \in DOMAIN queue', NEW j \in DOMAIN queue',
                        i < j, queue'[j].sent
                 PROVE  /\ queue'[i].sent
                        /\ age'[queue'[i].packet.id] >= age'[queue'[j].packet.id]
    BY DEF FrontIsOldest
  <2>2. PICK k \in DOMAIN queue, l \in DOMAIN queue :
           k < l /\ queue'[i] = queue[k] /\ queue'[j] = queue[l]
    BY <2>1, <1>4 DEF StaysInOrder
  <2>3. /\ queue[k].sent
        /\ age[queue[k].packet.id] >= age[queue[l].packet.id]
    BY <2>1, <2>2, <1>1 DEF FrontIsOldest
  <2>4. queue'[i].packet.id \in Ids' /\ queue'[j].packet.id \in Ids'
    BY <2>1, <2>2, <2>3 DEF Ids, Flying
  <2> QED
    BY <2>2, <2>3, <2>4, <1>2
<1> QED
  BY <1>3, <1>7, <1>8, <1>9, <1>10, <1>11 DEF TimedInv

\* What KarnsRule asks of a packet: it was sent once, is acknowledged in this
\* step, gave the estimate its sample, and no other such packet is fresher.
GaveTheSample(id) ==
    /\ dispatches[id] = 1
    /\ srtt' = NextSrtt(age[id]) /\ rttvar' = NextRttvar(age[id])
    /\ \A other \in DOMAIN dispatches \ DOMAIN dispatches' :
          dispatches[other] = 1 => age[id] <= age[other]

\* In flight, the packet with the greater number was sent last.
LEMMA LaterIsFresher ==
    ASSUME TimedInv, NEW a \in Ids, NEW b \in Ids, a <= b
    PROVE  age[b] <= age[a]
<1>1. /\ OutputInvariant /\ TimedTypes /\ FrontIsOldest /\ MaxAge \in Nat
      /\ \A i, j \in DOMAIN queue : i < j => queue[i].packet.id < queue[j].packet.id
  BY TimeAssumption DEF TimedInv, OutputInvariant, QueueIsOrderedTail, TimeAssumption
<1>2. PICK i \in DOMAIN queue : queue[i].sent /\ queue[i].packet.id = a
  BY DEF Ids, Flying
<1>3. PICK j \in DOMAIN queue : queue[j].sent /\ queue[j].packet.id = b
  BY DEF Ids, Flying
<1>4. /\ DOMAIN queue = 1 .. Len(queue) /\ Len(queue) \in Nat
      /\ a \in Nat /\ b \in Nat
  BY <1>1, <1>2, <1>3, TimedQueue
<1>5. ~(j < i)
  BY <1>1, <1>2, <1>3, <1>4
<1>6. age[a] \in 0 .. MaxAge
  BY <1>1 DEF TimedTypes
<1>7. CASE i = j
  BY <1>1, <1>2, <1>3, <1>6, <1>7
<1>8. CASE i < j
  BY <1>1, <1>2, <1>3, <1>8 DEF FrontIsOldest
<1> QED
  BY <1>4, <1>5, <1>7, <1>8

\* A packet in flight that leaves the queue is released.
LEMMA GoneIsReleased ==
    ASSUME TimedInv, StaysInOrder, NEW id \in Ids, id \notin Ids'
    PROVE  id \in Released
<1>1. \A i, j \in DOMAIN queue :
         queue[i].packet.id = queue[j].packet.id => i = j
  BY TimedQueue DEF TimedInv
<1>2. PICK k \in DOMAIN queue : queue[k].sent /\ queue[k].packet.id = id
  BY DEF Ids, Flying
<1>3. ASSUME NEW i \in DOMAIN queue', queue'[i].packet.id = id
      PROVE  FALSE
  <2>1. PICK l \in DOMAIN queue : queue'[i] = queue[l]
    BY <1>3 DEF StaysInOrder
  <2>2. l = k
    BY <2>1, <1>1, <1>2, <1>3
  <2>3. queue'[i].sent
    BY <2>1, <2>2, <1>2
  <2> QED
    BY <2>3, <1>3 DEF Ids, Flying
<1> QED
  BY <1>2, <1>3 DEF Released

\* Karn's rule for one step.
LEMMA OnlySentOnceMeasured ==
    ASSUME TimedInv, NEW wire \in 0 .. SeqSpace - 1,
           Acknowledge(wire) \/ AcknowledgeAll(wire),
           <<srtt, rttvar>>' # <<srtt, rttvar>>
    PROVE  \E id \in DOMAIN dispatches \ DOMAIN dispatches' : GaveTheSample(id)
<1>1. /\ NotifyOfAcknowledge(wire) \/ NotifyOfAcknowledgeAll(wire)
      /\ Measure /\ dispatches' = [id \in Ids' |-> dispatches[id]]
  BY DEF Acknowledge, AcknowledgeAll, Forget, Ids, Flying
<1>2. PICK last \in Samples : /\ \A id \in Samples : id <= last
                              /\ UpdateRto(age[last])
  BY <1>1 DEF Measure
<1>3. last \in Ids /\ last \notin resent /\ last \in Released
  BY DEF Samples, Ids
<1>4. last \notin Ids'
  BY <1>3 DEF Released, Ids, Flying
<1>5. /\ DOMAIN dispatches = Ids /\ dispatches \in [Ids -> {1, 2}]
      /\ \A id \in Ids : id \in resent <=> dispatches[id] = 2
  BY DEF TimedInv, TimedTypes, MarkedIfResent
<1>6. ASSUME NEW other \in Ids, other \notin Ids', dispatches[other] = 1
      PROVE  age[last] <= age[other]
  <2>1. StaysInOrder
    BY <1>1, AcknowledgedInOrder DEF TimedInv
  <2>2. other \in Released /\ other \notin resent
    BY <2>1, <1>5, <1>6, GoneIsReleased
  <2>3. other \in Samples
    BY <2>2 DEF Samples, Ids
  <2> QED
    BY <2>3, <1>2, <1>3, LaterIsFresher
<1>7. srtt' = NextSrtt(age[last]) /\ rttvar' = NextRttvar(age[last])
  BY <1>2 DEF UpdateRto
<1>8. dispatches[last] = 1
  BY <1>3, <1>5
<1>9. DOMAIN dispatches' = Ids'
  BY <1>1
<1> QED
  BY <1>3, <1>4, <1>5, <1>6, <1>7, <1>8, <1>9 DEF GaveTheSample

-----------------------------------------------------------------------------
(* Every step.                                                             *)

LEMMA ElapseKeepsStamps ==
    ASSUME TimedInv, Elapse
    PROVE  TimedInv'
<1>1. /\ OutputInvariant /\ TimedTypes /\ MarkedIfResent /\ StampedSinceReset
      /\ FrontIsOldest /\ TimeoutHasHeadroom
  BY DEF TimedInv
<1>2. /\ age' = [id \in DOMAIN age |-> Least(age[id] + 1, MaxAge)]
      /\ sinceReset' = Least(sinceReset + 1, MaxAge)
      /\ UNCHANGED <<vars, resent, srtt, rttvar, rto, dispatches>>
  BY DEF Elapse
<1>3. queue' = queue /\ Ids' = Ids
  BY <1>2 DEF vars, Ids, Flying
<1>4. OutputInvariant'
  BY <1>1, <1>2, OutputNext
<1>5. /\ DOMAIN age = Ids /\ MaxAge \in Nat
      /\ \A id \in Ids : age[id] \in 0 .. MaxAge
      /\ sinceReset \in 0 .. MaxAge
      /\ \A id \in Ids : age'[id] = Least(age[id] + 1, MaxAge)
  BY <1>1, <1>2, TimeAssumption DEF TimedTypes, TimeAssumption
<1>6. \A a, b \in 0 .. MaxAge :
         /\ Least(a + 1, MaxAge) \in 0 .. MaxAge
         /\ a <= b => Least(a + 1, MaxAge) <= Least(b + 1, MaxAge)
  BY <1>5 DEF Least
<1>7. TimedTypes'
  BY <1>1, <1>2, <1>3, <1>5, <1>6 DEF TimedTypes
<1>8. MarkedIfResent' /\ TimeoutHasHeadroom'
  BY <1>1, <1>2, <1>3 DEF MarkedIfResent, TimeoutHasHeadroom
<1>9. StampedSinceReset'
  BY <1>1, <1>2, <1>3, <1>5, <1>6 DEF StampedSinceReset
<1>10. FrontIsOldest'
  <2>1. SUFFICES ASSUME NEW i \in DOMAIN queue, NEW j \in DOMAIN queue,
                        i < j, queue[j].sent
                 PROVE  /\ queue[i].sent
                        /\ age'[queue[i].packet.id] >= age'[queue[j].packet.id]
    BY <1>3 DEF FrontIsOldest
  <2>2. /\ queue[i].sent
        /\ age[queue[i].packet.id] >= age[queue[j].packet.id]
    BY <2>1, <1>1 DEF FrontIsOldest
  <2>3. queue[i].packet.id \in Ids /\ queue[j].packet.id \in Ids
    BY <2>1, <2>2 DEF Ids, Flying
  <2> QED
    BY <2>2, <2>3, <1>5, <1>6
<1> QED
  BY <1>4, <1>7, <1>8, <1>9, <1>10 DEF TimedInv

LEMMA TimedInitially == TimedInit => TimedInv
<1> SUFFICES ASSUME TimedInit PROVE TimedInv
  OBVIOUS
<1>1. /\ queue = <<>> /\ age = <<>> /\ resent = {} /\ dispatches = <<>>
      /\ srtt = NoEstimate /\ rttvar = 0 /\ rto = AckWait /\ sinceReset = MaxAge
  BY DEF TimedInit, Init
<1>2. OutputInvariant
  BY OutputInit DEF TimedInit
<1>3. Ids = {}
  BY <1>1 DEF Ids, Flying
<1>4. TimedTypes
  BY <1>1, <1>3, TimeAssumption DEF TimedTypes, TimeAssumption
<1>5. FrontIsOldest /\ TimeoutHasHeadroom
  BY <1>1, TimeAssumption DEF FrontIsOldest, TimeoutHasHeadroom, TimeAssumption
<1> QED
  BY <1>2, <1>3, <1>4, <1>5 DEF TimedInv, MarkedIfResent, StampedSinceReset

LEMMA TimedStep ==
    ASSUME TimedInv, [TimedNext]_allVars
    PROVE  TimedInv'
<1>1. CASE TakeOutgoing /\ UNCHANGED timing
  <2>1. OutputInvariant' /\ queue' = queue
    BY <1>1, OutputIsTaken DEF TimedInv, TakeOutgoing
  <2>2. Ids' = Ids
    BY <2>1 DEF Ids, Flying
  <2> QED
    BY <1>1, <2>1, <2>2, StampsKept
<1>2. ASSUME NEW n \in 1 .. MaxFragments, EnqueueData(n), UNCHANGED timing
      PROVE  TimedInv'
  BY <1>2, EnqueueKeepsStamps
<1>3. CASE Tick
  BY <1>3, TickKeepsStamps
<1>4. ASSUME NEW wire \in 0 .. SeqSpace - 1, Acknowledge(wire) \/ AcknowledgeAll(wire)
      PROVE  TimedInv'
  BY <1>4, AcknowledgementKeepsStamps
<1>5. CASE Elapse
  BY <1>5, ElapseKeepsStamps
<1>6. CASE UNCHANGED allVars
  <2>1. UNCHANGED vars /\ UNCHANGED timing /\ queue' = queue
    BY <1>6 DEF allVars, vars
  <2>2. OutputInvariant' /\ Ids' = Ids
    BY <2>1, OutputNext DEF TimedInv, Ids, Flying
  <2> QED
    BY <2>1, <2>2, StampsKept
<1> QED
  BY <1>1, <1>2, <1>3, <1>4, <1>5, <1>6 DEF TimedNext

LEMMA TimedInvariant == TimedSpec => []TimedInv
<1>1. TimedInit => TimedInv
  BY TimedInitially
<1>2. TimedInv /\ [TimedNext]_allVars => TimedInv'
  BY TimedStep
<1> QED
  BY <1>1, <1>2, PTL DEF TimedSpec

-----------------------------------------------------------------------------
(* What it says.                                                           *)

\* The packet at the front of the queue is always the one sent longest ago, so
\* its age alone tells whether any packet in flight is overdue.
THEOREM TimedFrontIsOldest == TimedSpec => []FrontIsOldest
<1>1. TimedInv => FrontIsOldest
  BY DEF TimedInv
<1> QED
  BY <1>1, TimedInvariant, PTL

\* The timeout stays within its limits and above the smoothed round trip, for
\* every sequence of samples and back-offs.
THEOREM TimedKeepsHeadroom == TimedSpec => []TimeoutHasHeadroom
<1>1. TimedInv => TimeoutHasHeadroom
  BY DEF TimedInv
<1> QED
  BY <1>1, TimedInvariant, PTL

\* More than RTO_MIN passes between two resends of the whole window.
THEOREM TimedSparesTheLink == TimedSpec => []NoResendStorm
<1>1. ASSUME TimedInv PROVE NoResendStorm
  <2>1. SUFFICES ASSUME TimedOut PROVE sinceReset > RtoMin
    BY DEF NoResendStorm
  <2>2. queue[1].packet.id \in Ids /\ age[queue[1].packet.id] > rto
    <3>1. 1 \in DOMAIN queue
      BY <1>1, <2>1, TimedQueue DEF TimedInv, TimedOut
    <3> QED
      BY <2>1, <3>1 DEF TimedOut, Ids, Flying
  <2>3. /\ age[queue[1].packet.id] <= sinceReset
        /\ rto \in RtoMin .. RtoMax
        /\ age[queue[1].packet.id] \in 0 .. MaxAge /\ sinceReset \in 0 .. MaxAge
    BY <1>1, <2>2 DEF TimedInv, StampedSinceReset, TimedTypes, TimeoutHasHeadroom
  <2>4. RtoMin \in Nat /\ RtoMax \in Nat /\ MaxAge \in Nat
    BY TimeAssumption DEF TimeAssumption
  <2> QED
    BY <2>2, <2>3, <2>4
<1> QED
  BY <1>1, TimedInvariant, PTL

\* Only the round trip of a packet that was sent once moves the estimate: of
\* those that a step acknowledges, that of the one sent last.
THEOREM TimedFollowsKarn == TimedSpec => KarnsRule
<1>1. ASSUME TimedInv, [TimedNext]_allVars
      PROVE  [<<srtt, rttvar>>' # <<srtt, rttvar>> =>
                 \E id \in DOMAIN dispatches \ DOMAIN dispatches' :
                    GaveTheSample(id)]_allVars
  <2>1. SUFFICES ASSUME <<srtt, rttvar>>' # <<srtt, rttvar>>
                 PROVE  \E id \in DOMAIN dispatches \ DOMAIN dispatches' :
                           GaveTheSample(id)
    OBVIOUS
  <2>2. PICK wire \in 0 .. SeqSpace - 1 : Acknowledge(wire) \/ AcknowledgeAll(wire)
    BY <1>1, <2>1 DEF TimedNext, timing, Tick, Elapse, allVars
  <2> QED
    BY <1>1, <2>1, <2>2, OnlySentOnceMeasured
<1> QED
  BY <1>1, TimedInvariant, PTL DEF TimedSpec, KarnsRule, GaveTheSample

\* The clock only decides which ticks find the oldest packet overdue: all that
\* is proved of the channel without it holds of it.
THEOREM TimedIsUntimed == TimedSpec => Spec
<1>1. TimedInit => Init
  BY DEF TimedInit
<1>2. [TimedNext]_allVars => [Next]_vars
  BY DEF TimedNext, Next, Tick, TimedOut, Acknowledge, AcknowledgeAll, Elapse,
         allVars
<1> QED
  BY <1>1, <1>2, PTL DEF TimedSpec, Spec
==============================================================================
