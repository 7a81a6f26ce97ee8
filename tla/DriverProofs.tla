---------------------------- MODULE DriverProofs ----------------------------
(***************************************************************************)
(* Whatever drives a multiplexer, and however its sends fail, its steps    *)
(* are dropped and its task is aborted: no event is lost, repeated or      *)
(* overtaken, and a send that fails or is dropped costs at most what was   *)
(* behind it in the same batch.                                            *)
(***************************************************************************)
EXTENDS Driver, SequenceTheorems, TLAPS

-----------------------------------------------------------------------------
(* The inductive invariant.                                                *)

TypeOK ==
    /\ datagrams \in Nat /\ eventsMade \in Nat
    /\ batch \in Seq(Nat) /\ outgoing \in Seq(Nat) /\ sent \in Seq(Nat)
    /\ taken \in Seq(Nat) /\ events \in Seq(Nat) /\ heard \in Seq(Nat)
    /\ failed \subseteq Nat /\ cancelled \subseteq Nat /\ batchEnds \subseteq Nat

\* Events were heard, are being published, or wait in the multiplexer; none is
\* taken while the last ones are still being published.
EventsKept ==
    /\ heard \o taken \o events = Upto(eventsMade)
    /\ phase \in {"select", "sending"} => taken = <<>>

\* The numbers in a sequence grow; those of a set lie below those of another.
Ordered(s) == \A i, j \in DOMAIN s : i < j => s[i] < s[j]
Below(S, T) == \A m \in S, n \in T : m < n

\* Datagrams move from `outgoing` to `batch` to `sent` in order.
DatagramsInOrder ==
    /\ Ordered(sent) /\ Ordered(batch) /\ Ordered(outgoing)
    /\ Below(ToSet(sent), ToSet(batch) \cup ToSet(outgoing))
    /\ ToSet(sent) \cup ToSet(batch) \cup ToSet(outgoing) \subseteq 1 .. datagrams

\* A batch is sent off before the multiplexer is called again. What was taken
\* ends where a taking ended; what waits in the multiplexer was made after all
\* takings, and no taking ended in the middle of the batch at hand.
BatchesEnd ==
    /\ phase \in {"select", "publishing"} => batch = <<>>
    /\ batch # <<>> => outgoing = <<>>
    /\ \A end \in batchEnds : end <= datagrams
    /\ \A end \in batchEnds, n \in ToSet(outgoing) : end < n
    /\ \A n \in 1 .. datagrams : n \in ToSet(outgoing) \/ \E end \in batchEnds : n <= end
    /\ \A m, n \in ToSet(batch), end \in batchEnds : m <= end => n <= end

\* Whose send failed or was cancelled had been taken; an actor lost no other,
\* the rest what was behind one of them in its batch.
LossIsLocal ==
    /\ \A m \in failed \cup cancelled : m \in 1 .. datagrams /\ m \notin ToSet(outgoing)
    /\ Actor => Lost = failed
    /\ ~Actor => Lost = {n \in 1 .. datagrams : Behind(n)}

DriverInv ==
    /\ TypeOK
    /\ EventsKept
    /\ DatagramsInOrder
    /\ BatchesEnd
    /\ LossIsLocal

-----------------------------------------------------------------------------
(* Sequences of numbers.                                                   *)

LEMMA ToSetType ==
    ASSUME NEW s \in Seq(Nat)
    PROVE  /\ ToSet(s) \subseteq Nat
           /\ (s = <<>>) => ToSet(s) = {}
BY DEF ToSet

LEMMA Associative == \A s, t, u \in Seq(Nat) : (s \o t) \o u = s \o (t \o u)
BY ConcatAssociative, SMTT(20)

LEMMA ToSetConcat ==
    ASSUME NEW s \in Seq(Nat), NEW t \in Seq(Nat)
    PROVE  ToSet(s \o t) = ToSet(s) \cup ToSet(t)
<1>1. /\ Len(s) \in Nat /\ Len(t) \in Nat
      /\ DOMAIN s = 1 .. Len(s) /\ DOMAIN t = 1 .. Len(t)
      /\ DOMAIN (s \o t) = 1 .. Len(s) + Len(t)
      /\ \A i \in 1 .. Len(s) : (s \o t)[i] = s[i]
      /\ \A i \in 1 .. Len(t) : (s \o t)[Len(s) + i] = t[i]
  OBVIOUS
<1>2. ASSUME NEW n \in ToSet(s \o t)
      PROVE  n \in ToSet(s) \cup ToSet(t)
  <2>1. PICK i \in 1 .. Len(s) + Len(t) : n = (s \o t)[i]
    BY <1>1, <1>2 DEF ToSet
  <2>2. CASE i <= Len(s)
    BY <2>1, <2>2, <1>1 DEF ToSet
  <2>3. CASE ~(i <= Len(s))
    <3>1. i - Len(s) \in 1 .. Len(t) /\ Len(s) + (i - Len(s)) = i
      BY <2>3, <1>1
    <3>2. n = t[i - Len(s)]
      BY <3>1, <2>1, <1>1
    <3> QED
      BY <3>1, <3>2, <1>1 DEF ToSet
  <2> QED
    BY <2>2, <2>3
<1>3. ASSUME NEW n \in ToSet(s) PROVE n \in ToSet(s \o t)
  <2>1. PICK i \in 1 .. Len(s) : n = s[i]
    BY <1>1, <1>3 DEF ToSet
  <2>2. i \in 1 .. Len(s) + Len(t)
    BY <1>1
  <2> QED
    BY <2>1, <2>2, <1>1 DEF ToSet
<1>4. ASSUME NEW n \in ToSet(t) PROVE n \in ToSet(s \o t)
  <2>1. PICK i \in 1 .. Len(t) : n = t[i]
    BY <1>1, <1>4 DEF ToSet
  <2>2. Len(s) + i \in 1 .. Len(s) + Len(t)
    BY <1>1
  <2> QED
    BY <2>1, <2>2, <1>1 DEF ToSet
<1> QED
  BY <1>2, <1>3, <1>4

LEMMA OrderedConcat ==
    ASSUME NEW s \in Seq(Nat), NEW t \in Seq(Nat),
           Ordered(s), Ordered(t), Below(ToSet(s), ToSet(t))
    PROVE  Ordered(s \o t)
<1>1. /\ Len(s) \in Nat /\ Len(t) \in Nat
      /\ DOMAIN s = 1 .. Len(s) /\ DOMAIN t = 1 .. Len(t)
      /\ DOMAIN (s \o t) = 1 .. Len(s) + Len(t)
      /\ \A i \in 1 .. Len(s) : (s \o t)[i] = s[i]
      /\ \A i \in Len(s) + 1 .. Len(s) + Len(t) : (s \o t)[i] = t[i - Len(s)]
  OBVIOUS
<1>2. SUFFICES ASSUME NEW i \in 1 .. Len(s) + Len(t),
                      NEW j \in 1 .. Len(s) + Len(t), i < j
               PROVE  (s \o t)[i] < (s \o t)[j]
  BY <1>1 DEF Ordered
<1>3. CASE j <= Len(s)
  <2>1. i \in 1 .. Len(s) /\ j \in 1 .. Len(s)
    BY <1>1, <1>2, <1>3
  <2> QED
    BY <2>1, <1>1, <1>2 DEF Ordered
<1>4. CASE i <= Len(s) /\ ~(j <= Len(s))
  <2>1. /\ i \in 1 .. Len(s) /\ j \in Len(s) + 1 .. Len(s) + Len(t)
        /\ j - Len(s) \in 1 .. Len(t)
    BY <1>1, <1>4
  <2>2. s[i] \in ToSet(s) /\ t[j - Len(s)] \in ToSet(t)
    BY <2>1, <1>1 DEF ToSet
  <2> QED
    BY <2>1, <2>2, <1>1 DEF Below
<1>5. CASE ~(i <= Len(s))
  <2>1. /\ i \in Len(s) + 1 .. Len(s) + Len(t)
        /\ j \in Len(s) + 1 .. Len(s) + Len(t)
        /\ i - Len(s) \in 1 .. Len(t) /\ j - Len(s) \in 1 .. Len(t)
        /\ i - Len(s) < j - Len(s)
    BY <1>1, <1>2, <1>5
  <2> QED
    BY <2>1, <1>1 DEF Ordered
<1> QED
  BY <1>3, <1>4, <1>5, <1>1

LEMMA OrderedTail ==
    ASSUME NEW s \in Seq(Nat), s # <<>>, Ordered(s)
    PROVE  /\ Tail(s) \in Seq(Nat) /\ Head(s) \in Nat
           /\ Ordered(Tail(s))
           /\ ToSet(s) = {Head(s)} \cup ToSet(Tail(s))
           /\ Below({Head(s)}, ToSet(Tail(s)))
<1>1. /\ Tail(s) \in Seq(Nat) /\ Head(s) \in Nat /\ Head(s) = s[1]
      /\ Len(s) \in Nat \ {0} /\ DOMAIN s = 1 .. Len(s)
      /\ DOMAIN Tail(s) = 1 .. Len(s) - 1
      /\ \A i \in 1 .. Len(s) - 1 : Tail(s)[i] = s[i + 1]
  OBVIOUS
<1>2. Ordered(Tail(s))
  <2>1. SUFFICES ASSUME NEW i \in 1 .. Len(s) - 1, NEW j \in 1 .. Len(s) - 1, i < j
                 PROVE  s[i + 1] < s[j + 1]
    BY <1>1 DEF Ordered
  <2>2. i + 1 \in 1 .. Len(s) /\ j + 1 \in 1 .. Len(s) /\ i + 1 < j + 1
    BY <2>1, <1>1
  <2> QED
    BY <2>2, <1>1 DEF Ordered
<1>3. ASSUME NEW n \in ToSet(Tail(s))
      PROVE  n \in ToSet(s) /\ Head(s) < n
  <2>1. PICK i \in 1 .. Len(s) - 1 : n = s[i + 1]
    BY <1>1, <1>3 DEF ToSet
  <2>2. i + 1 \in 1 .. Len(s) /\ 1 \in 1 .. Len(s) /\ 1 < i + 1
    BY <1>1
  <2> QED
    BY <2>1, <2>2, <1>1 DEF ToSet, Ordered
<1>4. ASSUME NEW n \in ToSet(s), n # Head(s)
      PROVE  n \in ToSet(Tail(s))
  <2>1. PICK i \in 1 .. Len(s) : n = s[i]
    BY <1>1, <1>4 DEF ToSet
  <2>2. i - 1 \in 1 .. Len(s) - 1 /\ (i - 1) + 1 = i
    BY <2>1, <1>1, <1>4
  <2>3. Tail(s)[i - 1] = n
    BY <2>1, <2>2, <1>1
  <2> QED
    BY <2>2, <2>3, <1>1 DEF ToSet
<1>5. Head(s) \in ToSet(s)
  BY <1>1 DEF ToSet
<1>6. ToSet(s) = {Head(s)} \cup ToSet(Tail(s))
  BY <1>3, <1>4, <1>5
<1> QED
  BY <1>1, <1>2, <1>3, <1>6 DEF Below

LEMMA Appended ==
    ASSUME NEW s \in Seq(Nat), NEW n \in Nat
    PROVE  /\ Append(s, n) = s \o <<n>>
           /\ <<n>> \in Seq(Nat) /\ ToSet(<<n>>) = {n} /\ Ordered(<<n>>)
<1>1. <<n>> \in Seq(Nat) /\ DOMAIN <<n>> = {1} /\ <<n>>[1] = n
  OBVIOUS
<1> QED
  BY <1>1 DEF ToSet, Ordered

\* The next numbers.
LEMMA FromProperties ==
    ASSUME NEW n \in Nat, NEW count \in Nat
    PROVE  /\ From(n, count) \in Seq(Nat)
           /\ ToSet(From(n, count)) = n + 1 .. n + count
           /\ Ordered(From(n, count))
           /\ Upto(n) \in Seq(Nat)
           /\ Upto(n) \o From(n, count) = Upto(n + count)
<1>1. /\ From(n, count) \in Seq(Nat) /\ Len(From(n, count)) = count
      /\ DOMAIN From(n, count) = 1 .. count
      /\ \A i \in 1 .. count : From(n, count)[i] = n + i
  <2>1. From(n, count) \in [1 .. count -> Nat]
    BY DEF From
  <2> QED
    BY <2>1 DEF From
<1>2. \A m \in Nat : /\ Upto(m) \in Seq(Nat) /\ Len(Upto(m)) = m
                     /\ \A i \in 1 .. m : Upto(m)[i] = i
  <2>1. SUFFICES ASSUME NEW m \in Nat
                 PROVE  /\ Upto(m) \in Seq(Nat) /\ Len(Upto(m)) = m
                        /\ \A i \in 1 .. m : Upto(m)[i] = i
    OBVIOUS
  <2>2. Upto(m) \in [1 .. m -> Nat]
    BY DEF Upto
  <2> QED
    BY <2>2 DEF Upto
<1>3. ToSet(From(n, count)) = n + 1 .. n + count
  <2>1. ASSUME NEW m \in n + 1 .. n + count
        PROVE  m \in ToSet(From(n, count))
    <3>1. m - n \in 1 .. count /\ n + (m - n) = m
      OBVIOUS
    <3> QED
      BY <3>1, <1>1 DEF ToSet
  <2>2. ASSUME NEW m \in ToSet(From(n, count))
        PROVE  m \in n + 1 .. n + count
    <3>1. PICK i \in 1 .. count : m = n + i
      BY <2>2, <1>1 DEF ToSet
    <3> QED
      BY <3>1
  <2> QED
    BY <2>1, <2>2
<1>4. Ordered(From(n, count))
  BY <1>1 DEF Ordered
<1>5. Upto(n) \o From(n, count) = Upto(n + count)
  <2> DEFINE joined == Upto(n) \o From(n, count)
  <2>1. /\ joined \in Seq(Nat) /\ Len(joined) = n + count
        /\ \A i \in 1 .. n + count :
              joined[i] = IF i <= n THEN Upto(n)[i] ELSE From(n, count)[i - n]
    <3>1. /\ Upto(n) \in Seq(Nat) /\ From(n, count) \in Seq(Nat)
          /\ Len(Upto(n)) = n /\ Len(From(n, count)) = count
      BY <1>1, <1>2
    <3>2. \A s, t \in Seq(Nat) : Len(s) = n /\ Len(t) = count =>
             /\ s \o t \in Seq(Nat) /\ Len(s \o t) = n + count
             /\ \A i \in 1 .. n + count :
                   (s \o t)[i] = IF i <= n THEN s[i] ELSE t[i - n]
      BY ConcatProperties
    <3> QED
      BY <3>1, <3>2, Zenon
  <2>2. Upto(n + count) \in Seq(Nat) /\ Len(Upto(n + count)) = n + count
        /\ \A i \in 1 .. n + count : Upto(n + count)[i] = i
    BY <1>2
  <2>3. ASSUME NEW i \in 1 .. n + count PROVE joined[i] = i
    <3>1. CASE i <= n
      BY <3>1, <2>1, <1>2
    <3>2. CASE ~(i <= n)
      <4>1. i - n \in 1 .. count /\ n + (i - n) = i
        BY <3>2
      <4> QED
        BY <3>2, <4>1, <2>1, <1>1
    <3> QED
      BY <3>1, <3>2
  <2> HIDE DEF joined
  <2>4. joined = Upto(n + count)
    BY <2>1, <2>2, <2>3, SeqEqual
  <2> QED
    BY <2>4 DEF joined
<1> QED
  BY <1>1, <1>2, <1>3, <1>4, <1>5

\* Nothing changes in what is heard when the first taken one is.
LEMMA HeadMovesOver ==
    ASSUME NEW s \in Seq(Nat), NEW t \in Seq(Nat), NEW u \in Seq(Nat), t # <<>>
    PROVE  Append(s, Head(t)) \o Tail(t) \o u = s \o t \o u
<1>1. /\ Head(t) \in Nat /\ Tail(t) \in Seq(Nat) /\ <<Head(t)>> \in Seq(Nat)
      /\ Append(s, Head(t)) = s \o <<Head(t)>>
  <2>1. Head(t) \in Nat /\ Tail(t) \in Seq(Nat)
    OBVIOUS
  <2> QED
    BY <2>1, Appended
<1>2. <<Head(t)>> \o Tail(t) = t
  <2>1. /\ Len(<<Head(t)>>) = 1 /\ Len(Tail(t)) = Len(t) - 1 /\ Len(t) \in Nat \ {0}
        /\ <<Head(t)>>[1] = t[1]
        /\ \A i \in 1 .. Len(t) - 1 : Tail(t)[i] = t[i + 1]
    OBVIOUS
  <2>2. /\ <<Head(t)>> \o Tail(t) \in Seq(Nat)
        /\ Len(<<Head(t)>> \o Tail(t)) = Len(t)
        /\ \A i \in 1 .. Len(t) : (<<Head(t)>> \o Tail(t))[i] =
              IF i <= 1 THEN <<Head(t)>>[i] ELSE Tail(t)[i - 1]
    BY <1>1, <2>1
  <2>3. ASSUME NEW i \in 1 .. Len(t)
        PROVE  (<<Head(t)>> \o Tail(t))[i] = t[i]
    <3>1. CASE i = 1
      BY <3>1, <2>1, <2>2
    <3>2. CASE i # 1
      <4>1. i - 1 \in 1 .. Len(t) - 1 /\ (i - 1) + 1 = i
        BY <3>2, <2>1
      <4> QED
        BY <3>2, <4>1, <2>1, <2>2
    <3> QED
      BY <3>1, <3>2
  <2> QED
    BY <2>2, <2>3, SeqEqual
<1>3. (s \o <<Head(t)>>) \o Tail(t) = s \o (<<Head(t)>> \o Tail(t))
  BY <1>1, Associative, Zenon
<1> QED
  BY <1>1, <1>2, <1>3

-----------------------------------------------------------------------------
(* Every step.                                                             *)

LEMMA DriverInit == Init => DriverInv
<1> SUFFICES ASSUME Init PROVE DriverInv
  OBVIOUS
<1>1. /\ datagrams \in {0, 1} /\ batch = Upto(datagrams)
      /\ outgoing = <<>> /\ sent = <<>> /\ taken = <<>> /\ events = <<>>
      /\ heard = <<>> /\ failed = {} /\ cancelled = {} /\ eventsMade = 0
      /\ batchEnds = {datagrams} /\ (phase = "select" => datagrams = 0)
      /\ phase \in {"select", "sending"}
  BY DEF Init
<1>2. /\ Upto(datagrams) \in Seq(Nat) /\ Ordered(Upto(datagrams))
      /\ ToSet(Upto(datagrams)) = 1 .. datagrams
  <2>1. Upto(datagrams) = From(0, datagrams)
    BY <1>1 DEF Upto, From
  <2>2. datagrams \in Nat /\ 0 \in Nat
    BY <1>1
  <2>3. /\ From(0, datagrams) \in Seq(Nat) /\ Ordered(From(0, datagrams))
        /\ ToSet(From(0, datagrams)) = 0 + 1 .. 0 + datagrams
    BY <2>2, FromProperties
  <2> QED
    BY <2>1, <2>2, <2>3
<1>3. TypeOK
  BY <1>1, <1>2 DEF TypeOK
<1>4. EventsKept
  <2>1. Upto(0) = <<>>
    BY DEF Upto
  <2> QED
    BY <1>1, <2>1 DEF EventsKept
<1>5. ToSet(sent) = {} /\ ToSet(outgoing) = {}
  BY <1>1, ToSetType, <1>3 DEF TypeOK
<1>6. DatagramsInOrder
  BY <1>1, <1>2, <1>5 DEF DatagramsInOrder, Ordered, Below
<1>7. BatchesEnd
  <2>1. Upto(0) = <<>>
    BY DEF Upto
  <2>2. phase \in {"select", "publishing"} => batch = <<>>
    BY <2>1, <1>1
  <2> QED
    BY <2>2, <1>1, <1>2, <1>5 DEF BatchesEnd
<1>8. LossIsLocal
  <2>1. Lost = {}
    BY <1>1, <1>2, <1>5 DEF Lost
  <2>2. \A n : ~Behind(n)
    BY <1>1 DEF Behind
  <2> QED
    BY <2>1, <2>2, <1>1 DEF LossIsLocal
<1> QED
  BY <1>3, <1>4, <1>6, <1>7, <1>8 DEF DriverInv

\* A call on the multiplexer queues more datagrams and events behind the rest.
LEMMA WorkKeeps ==
    ASSUME DriverInv, Work,
           UNCHANGED <<kind, batch, batchEnds, taken, sent, failed, cancelled,
                       heard>>,
           phase = "select"
    PROVE  DriverInv'
<1>1. TypeOK /\ EventsKept /\ DatagramsInOrder /\ BatchesEnd /\ LossIsLocal
  BY DEF DriverInv
<1>2. PICK d \in 0 .. MaxPerCall, e \in 0 .. MaxPerCall :
         /\ outgoing' = outgoing \o From(datagrams, d)
         /\ datagrams' = datagrams + d
         /\ events' = events \o From(eventsMade, e)
         /\ eventsMade' = eventsMade + e
  BY DEF Work
<1>3. /\ d \in Nat /\ e \in Nat /\ datagrams \in Nat /\ eventsMade \in Nat
      /\ outgoing \in Seq(Nat) /\ events \in Seq(Nat)
      /\ heard \in Seq(Nat) /\ taken \in Seq(Nat) /\ sent \in Seq(Nat)
      /\ batch \in Seq(Nat)
  BY <1>1, DriverAssumption DEF DriverAssumption, TypeOK
<1>4. /\ From(datagrams, d) \in Seq(Nat) /\ Ordered(From(datagrams, d))
      /\ ToSet(From(datagrams, d)) = datagrams + 1 .. datagrams + d
  BY <1>3, FromProperties
<1>5. /\ From(eventsMade, e) \in Seq(Nat)
      /\ Upto(eventsMade) \o From(eventsMade, e) = Upto(eventsMade + e)
  BY <1>3, FromProperties
<1>6. TypeOK'
  BY <1>1, <1>2, <1>3, <1>4, <1>5 DEF TypeOK
<1>7. EventsKept'
  <2>1. taken = <<>> /\ heard \o taken \o events = Upto(eventsMade)
    BY <1>1 DEF EventsKept
  <2>2. heard \o taken \in Seq(Nat)
    BY <1>3
  <2>3. ((heard \o taken) \o events) \o From(eventsMade, e)
           = (heard \o taken) \o (events \o From(eventsMade, e))
    <3>1. \A s, t, u \in Seq(Nat) : (s \o t) \o u = s \o (t \o u)
      BY Associative
    <3>2. /\ events \in Seq(Nat) /\ From(eventsMade, e) \in Seq(Nat)
          /\ heard \o taken \in Seq(Nat)
      BY <2>2, <1>3, <1>5
    <3> QED
      BY <3>1, <3>2, Zenon
  <2> QED
    BY <2>1, <2>3, <1>2, <1>5 DEF EventsKept
<1>8. ToSet(outgoing') = ToSet(outgoing) \cup (datagrams + 1 .. datagrams + d)
  BY <1>2, <1>3, <1>4, ToSetConcat
<1>9. \A n \in ToSet(sent) \cup ToSet(batch) \cup ToSet(outgoing) :
         n \in Nat /\ 1 <= n /\ n <= datagrams
  BY <1>1, <1>3 DEF DatagramsInOrder
<1>10. batch = <<>> /\ ToSet(batch) = {}
  BY <1>1, <1>3, ToSetType DEF BatchesEnd
<1>11. DatagramsInOrder'
  <2>1. Below(ToSet(outgoing), ToSet(From(datagrams, d)))
    BY <1>3, <1>4, <1>9 DEF Below
  <2>2. Ordered(outgoing')
    BY <2>1, <1>1, <1>2, <1>3, <1>4, OrderedConcat DEF DatagramsInOrder
  <2>3. \A n \in ToSet(sent) :
           \A m \in datagrams + 1 .. datagrams + d : n < m
    BY <1>3, <1>9
  <2>4. Below(ToSet(sent)', ToSet(batch)' \cup ToSet(outgoing)')
    BY <2>3, <1>1, <1>8 DEF DatagramsInOrder, Below
  <2>5. ToSet(sent)' \cup ToSet(batch)' \cup ToSet(outgoing)' \subseteq 1 .. datagrams'
    BY <1>2, <1>3, <1>8, <1>9
  <2> QED
    BY <2>2, <2>4, <2>5, <1>1 DEF DatagramsInOrder
<1>12. BatchesEnd'
  <2>1. batchEnds' = batchEnds /\ batchEnds \subseteq Nat /\ batch' = <<>> /\ ToSet(batch') = {}
    BY <1>1, <1>10 DEF TypeOK
  <2>2. \A end \in batchEnds' : end <= datagrams'
    BY <2>1, <1>1, <1>2, <1>3 DEF BatchesEnd
  <2>3. \A end \in batchEnds', n \in ToSet(outgoing') : end < n
    BY <2>1, <1>1, <1>3, <1>8 DEF BatchesEnd
  <2>4. \A n \in 1 .. datagrams' :
           n \in ToSet(outgoing') \/ \E end \in batchEnds' : n <= end
    <3>1. ASSUME NEW n \in 1 .. datagrams'
          PROVE  n \in 1 .. datagrams \/ n \in datagrams + 1 .. datagrams + d
      BY <1>2, <1>3
    <3> QED
      BY <3>1, <2>1, <1>1, <1>8 DEF BatchesEnd
  <2> QED
    BY <2>1, <2>2, <2>3, <2>4 DEF BatchesEnd
<1>13. Lost' = Lost
  BY <1>2, <1>3, <1>8 DEF Lost
<1>14. LossIsLocal'
  <2>1. \A m \in failed \cup cancelled :
           /\ m \in 1 .. datagrams /\ m \notin ToSet(outgoing)
           /\ m \in 1 .. datagrams' /\ m \notin ToSet(outgoing')
    BY <1>1, <1>2, <1>3, <1>8 DEF LossIsLocal
  <2>2. \A n : Behind(n)' <=> Behind(n)
    BY DEF Behind, SameBatch
  <2>3. ASSUME NEW n \in datagrams + 1 .. datagrams + d
        PROVE  ~Behind(n)
    <3>1. SUFFICES ASSUME NEW m \in failed \cup cancelled, SameBatch(m, n)
                   PROVE  FALSE
      BY DEF Behind
    <3>2. PICK end \in batchEnds : m <= end
      BY <3>1, <2>1, <1>1 DEF BatchesEnd
    <3>3. end < n
      BY <3>2, <2>3, <1>1, <1>3 DEF BatchesEnd, TypeOK
    <3> QED
      BY <3>1, <3>2, <3>3 DEF SameBatch
  <2>4. 1 .. datagrams' = 1 .. datagrams \cup (datagrams + 1 .. datagrams + d)
    BY <1>2, <1>3
  <2>5. {n \in 1 .. datagrams : Behind(n)}' = {n \in 1 .. datagrams : Behind(n)}
    BY <2>2, <2>3, <2>4
  <2> QED
    BY <2>1, <2>5, <1>1, <1>13 DEF LossIsLocal, Actor
<1> QED
  BY <1>6, <1>7, <1>11, <1>12, <1>14 DEF DriverInv

\* What is taken at once becomes the batch, whose predecessor was sent off.
LEMMA TakeOutgoingKeeps ==
    ASSUME DriverInv, TakeOutgoing
    PROVE  DriverInv'
<1>1. TypeOK /\ EventsKept /\ DatagramsInOrder /\ BatchesEnd /\ LossIsLocal
  BY DEF DriverInv
<1>2. /\ phase = "sending" /\ outgoing # <<>> /\ batch' = outgoing /\ outgoing' = <<>>
      /\ batchEnds' = batchEnds \cup {datagrams}
      /\ UNCHANGED <<kind, phase, events, datagrams, eventsMade, taken, sent,
                     failed, cancelled, heard>>
  BY DEF TakeOutgoing
<1>3. /\ batch \in Seq(Nat) /\ outgoing \in Seq(Nat) /\ datagrams \in Nat
      /\ batchEnds \subseteq Nat /\ batch = <<>>
  BY <1>1, <1>2 DEF TypeOK, BatchesEnd
<1>4. TypeOK'
  BY <1>1, <1>2, <1>3 DEF TypeOK
<1>5. /\ ToSet(batch') = ToSet(outgoing) /\ ToSet(outgoing') = {} /\ ToSet(batch) = {}
      /\ Ordered(batch') /\ Ordered(outgoing')
  <2>1. Ordered(<<>>) /\ ToSet(<<>>) = {}
    BY DEF Ordered, ToSet
  <2> QED
    BY <2>1, <1>1, <1>2, <1>3 DEF DatagramsInOrder
<1>6. EventsKept'
  BY <1>1, <1>2 DEF EventsKept
<1>7. DatagramsInOrder'
  BY <1>1, <1>2, <1>5 DEF DatagramsInOrder, Below
<1>8. BatchesEnd'
  <2>1. phase' = "sending" /\ outgoing' = <<>>
    BY <1>2
  <2>2. \A end \in batchEnds' : end <= datagrams'
    BY <1>1, <1>2, <1>3 DEF BatchesEnd
  <2>3. \A n \in 1 .. datagrams' : \E end \in batchEnds' : n <= end
    BY <1>2, <1>3
  <2>4. \A m, n \in ToSet(batch'), end \in batchEnds' : m <= end => n <= end
    <3>1. SUFFICES ASSUME NEW m \in ToSet(outgoing), NEW n \in ToSet(outgoing),
                          NEW end \in batchEnds \cup {datagrams}, m <= end
                   PROVE  n <= end
      BY <1>2, <1>5
    <3>2. m \in 1 .. datagrams /\ n \in 1 .. datagrams
      BY <1>1 DEF DatagramsInOrder
    <3>3. CASE end \in batchEnds
      BY <3>1, <3>2, <3>3, <1>1, <1>3 DEF BatchesEnd
    <3>4. CASE end = datagrams
      BY <3>2, <3>4
    <3> QED
      BY <3>3, <3>4
  <2> QED
    BY <2>1, <2>2, <2>3, <2>4, <1>5 DEF BatchesEnd
<1>9. LossIsLocal'
  <2>1. Lost' = Lost
    BY <1>2, <1>5 DEF Lost
  <2>2. ASSUME NEW n \in 1 .. datagrams PROVE Behind(n)' <=> Behind(n)
    <3>1. \A m : SameBatch(m, n)' <=> SameBatch(m, n)
      BY <1>2, <1>3 DEF SameBatch
    <3> QED
      BY <3>1, <1>2 DEF Behind
  <2>3. {n \in 1 .. datagrams : Behind(n)}' = {n \in 1 .. datagrams : Behind(n)}
    BY <2>2, <1>2
  <2> QED
    BY <2>1, <2>3, <1>1, <1>2, <1>5 DEF LossIsLocal, Actor
<1> QED
  BY <1>4, <1>6, <1>7, <1>8, <1>9 DEF DriverInv

LEMMA SendDatagramKeeps ==
    ASSUME DriverInv, SendDatagram
    PROVE  DriverInv'
<1>1. TypeOK /\ EventsKept /\ DatagramsInOrder /\ BatchesEnd /\ LossIsLocal
  BY DEF DriverInv
<1>2. /\ phase = "sending" /\ outgoing = <<>> /\ batch # <<>>
      /\ sent' = Append(sent, Head(batch)) /\ batch' = Tail(batch)
      /\ UNCHANGED <<kind, phase, outgoing, events, datagrams, eventsMade, batchEnds,
                     taken, failed, cancelled, heard>>
  BY DEF SendDatagram, SendReady, mux
<1>3. batch \in Seq(Nat) /\ sent \in Seq(Nat) /\ Ordered(batch) /\ Ordered(sent)
  BY <1>1 DEF TypeOK, DatagramsInOrder
<1>4. /\ Tail(batch) \in Seq(Nat) /\ Head(batch) \in Nat /\ Ordered(Tail(batch))
      /\ ToSet(batch) = {Head(batch)} \cup ToSet(Tail(batch))
      /\ Below({Head(batch)}, ToSet(Tail(batch)))
  BY <1>2, <1>3, OrderedTail
<1>5. /\ sent' = sent \o <<Head(batch)>> /\ <<Head(batch)>> \in Seq(Nat)
      /\ ToSet(<<Head(batch)>>) = {Head(batch)} /\ Ordered(<<Head(batch)>>)
  BY <1>2, <1>3, <1>4, Appended
<1>6. Below(ToSet(sent), {Head(batch)})
  BY <1>1, <1>4 DEF DatagramsInOrder, Below
<1>7. /\ ToSet(sent') = ToSet(sent) \cup {Head(batch)}
      /\ sent' \in Seq(Nat) /\ Ordered(sent')
  <2>1. ToSet(sent \o <<Head(batch)>>) = ToSet(sent) \cup {Head(batch)}
    BY <1>3, <1>5, ToSetConcat
  <2>2. Ordered(sent \o <<Head(batch)>>)
    BY <1>3, <1>5, <1>6, OrderedConcat
  <2>3. Append(sent, Head(batch)) \in Seq(Nat)
    BY <1>3, <1>4
  <2> QED
    BY <2>1, <2>2, <2>3, <1>2, <1>5, Zenon
<1>8. TypeOK'
  BY <1>1, <1>2, <1>4, <1>7 DEF TypeOK
<1>9. EventsKept'
  BY <1>1, <1>2 DEF EventsKept
<1>10. DatagramsInOrder'
  <2>1. ToSet(outgoing) = {}
    BY <1>2 DEF ToSet
  <2> QED
    BY <2>1, <1>1, <1>2, <1>4, <1>7 DEF DatagramsInOrder, Below
<1>11. BatchesEnd'
  BY <1>1, <1>2, <1>4 DEF BatchesEnd
<1>12. LossIsLocal'
  <2>1. Lost' = Lost
    BY <1>2, <1>4, <1>7 DEF Lost
  <2>2. \A n : Behind(n)' <=> Behind(n)
    BY <1>2 DEF Behind, SameBatch
  <2>3. {n \in 1 .. datagrams : Behind(n)}' = {n \in 1 .. datagrams : Behind(n)}
    BY <2>2, <1>2
  <2> QED
    BY <2>1, <2>3, <1>1, <1>2 DEF LossIsLocal, Actor
<1> QED
  BY <1>8, <1>9, <1>10, <1>11, <1>12 DEF DriverInv

\* What a batch still holds when its first send fails or is dropped: nothing of
\* it was sent.
LEMMA BatchHead ==
    ASSUME DriverInv, SendReady
    PROVE  /\ batch \in Seq(Nat) /\ outgoing = <<>> /\ ToSet(outgoing) = {}
           /\ Tail(batch) \in Seq(Nat) /\ Ordered(Tail(batch))
           /\ ToSet(batch) = {Head(batch)} \cup ToSet(Tail(batch))
           /\ Head(batch) \in 1 .. datagrams /\ ToSet(batch) \subseteq 1 .. datagrams
           /\ \A n \in ToSet(Tail(batch)) : Head(batch) < n
           /\ \A n \in ToSet(sent) : n < Head(batch)
           /\ ToSet(batch) \cap ToSet(sent) = {}
           /\ phase = "sending" /\ datagrams \in Nat
<1>1. TypeOK /\ DatagramsInOrder
  BY DEF DriverInv
<1>2. /\ batch \in Seq(Nat) /\ batch # <<>> /\ Ordered(batch)
      /\ sent \in Seq(Nat) /\ outgoing = <<>> /\ phase = "sending"
      /\ datagrams \in Nat
  BY <1>1 DEF SendReady, TypeOK, DatagramsInOrder
<1>3. /\ Tail(batch) \in Seq(Nat) /\ Head(batch) \in Nat /\ Ordered(Tail(batch))
      /\ ToSet(batch) = {Head(batch)} \cup ToSet(Tail(batch))
      /\ Below({Head(batch)}, ToSet(Tail(batch)))
  BY <1>2, OrderedTail
<1>4. ToSet(outgoing) = {} /\ ToSet(batch) \subseteq Nat /\ ToSet(sent) \subseteq Nat
  BY <1>2, ToSetType DEF ToSet
<1>5. \A m \in ToSet(sent), n \in ToSet(batch) : m < n
  BY <1>1 DEF DatagramsInOrder, Below
<1>6. ToSet(batch) \cap ToSet(sent) = {}
  <2>1. SUFFICES ASSUME NEW n \in ToSet(batch), n \in ToSet(sent) PROVE FALSE
    OBVIOUS
  <2>2. n < n /\ n \in Nat
    BY <2>1, <1>4, <1>5
  <2> QED
    BY <2>2
<1>7. ToSet(batch) \subseteq 1 .. datagrams
  BY <1>1 DEF DatagramsInOrder
<1> QED
  BY <1>2, <1>3, <1>4, <1>5, <1>6, <1>7 DEF Below

\* The rest of a batch is dropped when its first send fails or is dropped.
LEMMA BatchDropped ==
    ASSUME DriverInv, SendReady, ~Actor,
           batch' = <<>>, phase' = "select",
           failed' \cup cancelled' = failed \cup cancelled \cup {Head(batch)},
           UNCHANGED <<kind, outgoing, events, datagrams, eventsMade, batchEnds,
                       taken, sent, heard>>
    PROVE  DriverInv'
<1>1. TypeOK /\ EventsKept /\ DatagramsInOrder /\ BatchesEnd /\ LossIsLocal
  BY DEF DriverInv
<1> DEFINE h == Head(batch)
<1>2. /\ outgoing = <<>> /\ ToSet(outgoing) = {} /\ phase = "sending"
      /\ ToSet(batch) = {h} \cup ToSet(Tail(batch))
      /\ h \in 1 .. datagrams /\ ToSet(batch) \subseteq 1 .. datagrams
      /\ \A n \in ToSet(Tail(batch)) : h < n
      /\ \A n \in ToSet(sent) : n < h
      /\ ToSet(batch) \cap ToSet(sent) = {} /\ datagrams \in Nat
  BY BatchHead
<1> HIDE DEF h
<1>3. failed' \cup cancelled' = failed \cup cancelled \cup {h}
  BY DEF h
<1>4. ToSet(batch') = {} /\ Ordered(batch')
  BY DEF Ordered, ToSet
<1>5. TypeOK'
  <2>1. h \in Nat
    BY <1>2
  <2>2. \A m \in failed' \cup cancelled' : m \in Nat
    BY <2>1, <1>1, <1>3 DEF TypeOK
  <2>3. failed' \subseteq Nat /\ cancelled' \subseteq Nat
    BY <2>2
  <2> QED
    BY <2>3, <1>1 DEF TypeOK
<1>6. EventsKept'
  BY <1>1, <1>2 DEF EventsKept
<1>7. DatagramsInOrder'
  BY <1>1, <1>2, <1>4 DEF DatagramsInOrder, Below
<1>8. BatchesEnd'
  BY <1>1, <1>2, <1>4 DEF BatchesEnd
<1>9. LossIsLocal'
  <2>1. Lost' = Lost \cup ToSet(batch)
    BY <1>2, <1>4 DEF Lost
  <2>2. \A n : Behind(n)' <=> Behind(n) \/ (h <= n /\ SameBatch(h, n))
    BY <1>3 DEF Behind, SameBatch
  <2>3. ASSUME NEW n \in ToSet(batch) PROVE h <= n /\ SameBatch(h, n)
    <3>1. h <= n
      BY <2>3, <1>2
    <3>2. \A end \in batchEnds : h <= end => n <= end
      BY <2>3, <1>1, <1>2 DEF BatchesEnd
    <3>3. n \in Nat /\ batchEnds \subseteq Nat
      BY <2>3, <1>1, <1>2 DEF TypeOK
    <3> QED
      BY <3>1, <3>2, <3>3 DEF SameBatch
  <2>4. ASSUME NEW n \in 1 .. datagrams, h <= n
        PROVE  n \in Lost \cup ToSet(batch)
    <3>1. n \notin ToSet(sent)
      BY <2>4, <1>2
    <3> QED
      BY <3>1, <2>4, <1>2 DEF Lost
  <2>5. Lost = {n \in 1 .. datagrams : Behind(n)} /\ ~Actor'
    BY <1>1 DEF LossIsLocal, Actor
  <2>6. Lost' = {n \in 1 .. datagrams : Behind(n)}'
    <3>1. ASSUME NEW n \in Lost' PROVE n \in 1 .. datagrams /\ Behind(n)'
      BY <3>1, <2>1, <2>2, <2>3, <2>5, <1>2
    <3>2. ASSUME NEW n \in 1 .. datagrams, Behind(n)' PROVE n \in Lost'
      BY <3>2, <2>1, <2>2, <2>4, <2>5
    <3> QED
      BY <3>1, <3>2
  <2>7. \A m \in failed' \cup cancelled' :
           m \in 1 .. datagrams' /\ m \notin ToSet(outgoing')
    BY <1>1, <1>2, <1>3 DEF LossIsLocal
  <2> QED
    BY <2>5, <2>6, <2>7 DEF LossIsLocal
<1> QED
  BY <1>5, <1>6, <1>7, <1>8, <1>9 DEF DriverInv

LEMMA SendFailsKeeps ==
    ASSUME DriverInv, SendFails
    PROVE  DriverInv'
<1>1. TypeOK /\ EventsKept /\ DatagramsInOrder /\ BatchesEnd /\ LossIsLocal
  BY DEF DriverInv
<1>2. /\ SendReady /\ failed' = failed \cup {Head(batch)}
      /\ UNCHANGED <<kind, outgoing, events, datagrams, eventsMade, batchEnds,
                     taken, sent, cancelled, heard>>
  BY DEF SendFails, mux
<1>3. /\ outgoing = <<>> /\ ToSet(outgoing) = {} /\ phase = "sending"
      /\ Tail(batch) \in Seq(Nat) /\ Ordered(Tail(batch))
      /\ ToSet(batch) = {Head(batch)} \cup ToSet(Tail(batch))
      /\ Head(batch) \in 1 .. datagrams /\ datagrams \in Nat
      /\ \A n \in ToSet(Tail(batch)) : Head(batch) < n
      /\ ToSet(batch) \cap ToSet(sent) = {}
  BY <1>2, BatchHead
<1>4. CASE Actor
  <2>1. batch' = Tail(batch) /\ UNCHANGED phase
    BY <1>4 DEF SendFails
  <2>2. TypeOK'
    <3>1. Head(batch) \in Nat
      BY <1>3
    <3>2. failed' \subseteq Nat
      BY <3>1, <1>1, <1>2 DEF TypeOK
    <3> QED
      BY <3>2, <2>1, <1>1, <1>2, <1>3 DEF TypeOK
  <2>3. EventsKept'
    BY <2>1, <1>1, <1>2 DEF EventsKept
  <2>4. DatagramsInOrder'
    BY <2>1, <1>1, <1>2, <1>3 DEF DatagramsInOrder, Below
  <2>5. BatchesEnd'
    BY <2>1, <1>1, <1>2, <1>3 DEF BatchesEnd
  <2>6. LossIsLocal'
    <3>1. Head(batch) \notin ToSet(Tail(batch))
      BY <1>3
    <3>2. Lost' = Lost \cup {Head(batch)}
      BY <3>1, <2>1, <1>2, <1>3 DEF Lost
    <3>3. Actor' /\ Lost' = failed'
      BY <3>2, <1>1, <1>2, <1>4 DEF LossIsLocal, Actor
    <3> QED
      BY <3>3, <1>1, <1>2, <1>3 DEF LossIsLocal
  <2> QED
    BY <2>2, <2>3, <2>4, <2>5, <2>6 DEF DriverInv
<1>5. CASE ~Actor
  <2>1. batch' = <<>> /\ phase' = "select"
    BY <1>5 DEF SendFails
  <2>2. failed' \cup cancelled' = failed \cup cancelled \cup {Head(batch)}
    BY <1>2
  <2> QED
    BY <2>1, <2>2, <1>2, <1>5, BatchDropped
<1> QED
  BY <1>4, <1>5

LEMMA CancelStepKeeps ==
    ASSUME DriverInv, CancelStep
    PROVE  DriverInv'
<1>1. /\ kind = "step" /\ ~Actor /\ SendReady
      /\ cancelled' = cancelled \cup {Head(batch)} /\ batch' = <<>>
      /\ phase' = "select" /\ failed' = failed
      /\ UNCHANGED <<kind, outgoing, events, datagrams, eventsMade, batchEnds,
                     taken, sent, heard>>
  BY DEF CancelStep, mux, Actor, Actors
<1>2. failed' \cup cancelled' = failed \cup cancelled \cup {Head(batch)}
  BY <1>1
<1> QED
  BY <1>1, <1>2, BatchDropped

\* The rest concerns no datagram.
LEMMA DatagramsUntouched ==
    ASSUME DriverInv,
           UNCHANGED <<kind, outgoing, datagrams, batch, batchEnds, sent, failed,
                       cancelled>>,
           phase' = phase \/ phase' = "stopped" \/ batch = <<>>
    PROVE  DatagramsInOrder' /\ BatchesEnd' /\ LossIsLocal'
<1>1. DatagramsInOrder' /\ BatchesEnd'
  BY DEF DriverInv, DatagramsInOrder, BatchesEnd
<1>2. Lost' = Lost /\ {n \in 1 .. datagrams : Behind(n)}' = {n \in 1 .. datagrams : Behind(n)}
  BY DEF Lost, Behind, SameBatch
<1> QED
  BY <1>1, <1>2 DEF DriverInv, LossIsLocal, Actor

LEMMA TakeEventsKeeps ==
    ASSUME DriverInv, TakeEvents
    PROVE  DriverInv'
<1>1. TypeOK /\ EventsKept /\ DatagramsInOrder /\ BatchesEnd /\ LossIsLocal
  BY DEF DriverInv
<1>2. /\ phase = "sending" /\ events' = <<>>
      /\ \/ taken' = events /\ phase' = "publishing" /\ heard' = heard
         \/ heard' = heard \o events /\ phase' = "select" /\ taken' = taken
      /\ batch = <<>>
      /\ UNCHANGED <<kind, outgoing, datagrams, eventsMade, batch, batchEnds, sent,
                     failed, cancelled>>
  BY DEF TakeEvents
<1>3. /\ heard \in Seq(Nat) /\ events \in Seq(Nat) /\ taken \in Seq(Nat)
      /\ taken = <<>> /\ heard \o taken \o events = Upto(eventsMade)
  BY <1>1, <1>2 DEF TypeOK, EventsKept
<1>4. TypeOK'
  <2>1. heard \o events \in Seq(Nat) /\ <<>> \in Seq(Nat)
    BY <1>3
  <2>2. taken' \in Seq(Nat) /\ heard' \in Seq(Nat) /\ events' \in Seq(Nat)
    BY <2>1, <1>2, <1>3, Zenon
  <2> QED
    BY <2>2, <1>1, <1>2 DEF TypeOK
<1>5. EventsKept'
  <2>1. heard \o <<>> = heard
    BY <1>3
  <2>2. \A s \in Seq(Nat) : s \o <<>> = s
    BY ConcatEmptySeq
  <2>3. heard \o events = Upto(eventsMade) /\ heard \o events \in Seq(Nat)
    BY <2>1, <1>3
  <2>4. heard' \o taken' \o events' = heard \o events
    <3>1. CASE taken' = events /\ heard' = heard
      BY <3>1, <2>2, <2>3, <1>2
    <3>2. CASE heard' = heard \o events /\ taken' = taken
      BY <3>2, <2>2, <2>3, <1>2, <1>3
    <3> QED
      BY <3>1, <3>2, <1>2
  <2>5. phase' \in {"select", "sending"} => taken' = <<>>
    BY <1>2, <1>3
  <2> QED
    BY <2>3, <2>4, <2>5, <1>2 DEF EventsKept
<1>6. DatagramsInOrder' /\ BatchesEnd' /\ LossIsLocal'
  BY <1>2, DatagramsUntouched
<1> QED
  BY <1>4, <1>5, <1>6 DEF DriverInv

LEMMA PublishKeeps ==
    ASSUME DriverInv, Publish
    PROVE  DriverInv'
<1>1. TypeOK /\ EventsKept /\ DatagramsInOrder /\ BatchesEnd /\ LossIsLocal
  BY DEF DriverInv
<1>2. /\ phase = "publishing"
      /\ UNCHANGED <<kind, outgoing, events, datagrams, eventsMade, batch, batchEnds,
                     sent, failed, cancelled>>
      /\ \/ taken = <<>> /\ UNCHANGED <<taken, heard>>
         \/ /\ taken # <<>> /\ phase' = "publishing"
            /\ heard' = Append(heard, Head(taken)) /\ taken' = Tail(taken)
         \/ phase' = "stopped" /\ UNCHANGED <<taken, heard>>
  BY DEF Publish, mux
<1>3. /\ heard \in Seq(Nat) /\ events \in Seq(Nat) /\ taken \in Seq(Nat)
      /\ heard \o taken \o events = Upto(eventsMade)
  BY <1>1 DEF TypeOK, EventsKept
<1>4. TypeOK'
  <2>1. taken # <<>> => /\ Append(heard, Head(taken)) \in Seq(Nat)
                        /\ Tail(taken) \in Seq(Nat)
    BY <1>3
  <2>2. taken' \in Seq(Nat) /\ heard' \in Seq(Nat)
    BY <2>1, <1>2, <1>3
  <2> QED
    BY <2>2, <1>1, <1>2 DEF TypeOK
<1>5. EventsKept'
  <2>1. taken # <<>> =>
           Append(heard, Head(taken)) \o Tail(taken) \o events
              = heard \o taken \o events
    BY <1>3, HeadMovesOver
  <2>2. events' = events
    BY <1>2
  <2>3. heard' \o taken' \o events' = Upto(eventsMade)
    BY <2>1, <2>2, <1>2, <1>3, Zenon
  <2>4. phase' \in {"select", "sending"} => taken' = <<>>
    BY <1>1, <1>2 DEF EventsKept
  <2> QED
    BY <2>3, <2>4, <1>2 DEF EventsKept
<1>6. DatagramsInOrder' /\ BatchesEnd' /\ LossIsLocal'
  <2>1. batch = <<>>
    BY <1>1, <1>2 DEF BatchesEnd
  <2> QED
    BY <2>1, <1>2, DatagramsUntouched
<1> QED
  BY <1>4, <1>5, <1>6 DEF DriverInv

LEMMA DriverNext ==
    ASSUME DriverInv, [Next]_vars
    PROVE  DriverInv'
<1>1. CASE ReceiveDatagram \/ RunTick \/ RunCommand \/ CallBetweenSteps
  <2>1. /\ Work /\ phase = "select"
        /\ UNCHANGED <<kind, batch, batchEnds, taken, sent, failed, cancelled, heard>>
    BY <1>1 DEF ReceiveDatagram, RunTick, RunCommand, CallBetweenSteps, Selecting,
                outbox
  <2> QED
    BY <2>1, WorkKeeps
<1>2. CASE \/ Stop \/ Post \/ CloneHandle \/ DropHandle \/ DropOwner \/ Abort
           \/ UNCHANGED vars
  <2>1. /\ UNCHANGED <<kind, mux, outbox>>
        /\ phase' = phase \/ phase' = "stopped"
    BY <1>2 DEF Stop, Post, CloneHandle, DropHandle, DropOwner, Abort, vars
  <2>2. UNCHANGED <<kind, outgoing, events, datagrams, eventsMade, batch, batchEnds,
                    taken, sent, failed, cancelled, heard>>
    BY <2>1 DEF mux, outbox
  <2>3. TypeOK' /\ DatagramsInOrder' /\ BatchesEnd' /\ LossIsLocal'
    BY <2>1, <2>2, DatagramsUntouched DEF DriverInv, TypeOK
  <2>4. EventsKept'
    BY <2>1, <2>2 DEF DriverInv, EventsKept
  <2> QED
    BY <2>3, <2>4 DEF DriverInv
<1>3. CASE TakeOutgoing
  BY <1>3, TakeOutgoingKeeps
<1>4. CASE SendDatagram
  BY <1>4, SendDatagramKeeps
<1>5. CASE SendFails
  BY <1>5, SendFailsKeeps
<1>6. CASE CancelStep
  BY <1>6, CancelStepKeeps
<1>7. CASE TakeEvents
  BY <1>7, TakeEventsKeeps
<1>8. CASE Publish
  BY <1>8, PublishKeeps
<1> QED
  BY <1>1, <1>2, <1>3, <1>4, <1>5, <1>6, <1>7, <1>8 DEF Next

LEMMA DriverInvariant == Spec => []DriverInv
<1>1. Init => DriverInv
  BY DriverInit
<1>2. DriverInv /\ [Next]_vars => DriverInv'
  BY DriverNext
<1> QED
  BY <1>1, <1>2, PTL DEF Spec

-----------------------------------------------------------------------------
(* What it says.                                                           *)

\* A beginning of the first n numbers is the first so many of them.
LEMMA Beginning ==
    ASSUME NEW n \in Nat, NEW s \in Seq(Nat), NEW t \in Seq(Nat), s \o t = Upto(n)
    PROVE  s = Upto(Len(s))
<1>1. /\ Upto(n) \in Seq(Nat) /\ Upto(Len(s)) \in Seq(Nat) /\ Len(s) \in Nat
  <2>1. \A m \in Nat : Upto(m) \in Seq(Nat)
    <3>1. 0 \in Nat
      OBVIOUS
    <3> QED
      BY <3>1, FromProperties
  <2>2. Len(s) \in Nat
    OBVIOUS
  <2> QED
    BY <2>1, <2>2
<1>2. Len(Upto(n)) = n /\ \A i \in 1 .. n : Upto(n)[i] = i
  BY DEF Upto
<1>3. Len(Upto(Len(s))) = Len(s) /\ \A i \in 1 .. Len(s) : Upto(Len(s))[i] = i
  BY <1>1 DEF Upto
<1>4. /\ Len(s \o t) = Len(s) + Len(t) /\ Len(t) \in Nat
      /\ \A i \in 1 .. Len(s) : (s \o t)[i] = s[i]
  OBVIOUS
<1>5. \A i \in 1 .. Len(s) : s[i] = i
  <2>1. Len(s) <= n
    BY <1>1, <1>2, <1>4
  <2>2. ASSUME NEW i \in 1 .. Len(s) PROVE i \in 1 .. n
    BY <2>1, <1>1
  <2> QED
    BY <2>2, <1>2, <1>4
<1> QED
  BY <1>1, <1>3, <1>5, SeqEqual

\* Every event made is with the application, on its way there, or still in the
\* multiplexer, in the order in which they were made.
THEOREM DriverLosesNoEvent == Spec => []NoEventIsLost
<1>1. ASSUME DriverInv PROVE NoEventIsLost
  <2>1. /\ heard \in Seq(Nat) /\ taken \in Seq(Nat) /\ events \in Seq(Nat)
        /\ eventsMade \in Nat /\ heard \o taken \o events = Upto(eventsMade)
    BY <1>1 DEF DriverInv, TypeOK, EventsKept
  <2>2. heard \o (taken \o events) = Upto(eventsMade) /\ taken \o events \in Seq(Nat)
    <3>1. (heard \o taken) \o events = heard \o (taken \o events)
      BY <2>1, Associative, Zenon
    <3>2. taken \o events \in Seq(Nat)
      BY <2>1
    <3> QED
      BY <2>1, <3>1, <3>2, Zenon
  <2>3. heard = Upto(Len(heard))
    BY <2>1, <2>2, Beginning
  <2> QED
    BY <2>1, <2>3 DEF NoEventIsLost
<1> QED
  BY <1>1, DriverInvariant, PTL

\* A send that fails costs an actor that one datagram. It costs a step, as
\* dropping the step's future does, what was behind it in the same batch; what
\* is sent is sent once and in order.
THEOREM DriverFailsLocally == Spec => []FailureStaysLocal
<1>1. ASSUME DriverInv PROVE FailureStaysLocal
  BY <1>1 DEF DriverInv, DatagramsInOrder, LossIsLocal, Ordered,
              FailureStaysLocal
<1> QED
  BY <1>1, DriverInvariant, PTL

===============================================================================
