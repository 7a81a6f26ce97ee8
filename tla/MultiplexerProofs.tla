-------------------------- MODULE MultiplexerProofs --------------------------
(***************************************************************************)
(* The multiplexer, for every set of addresses, whatever hosts they are    *)
(* of, however many sessions are created, and whatever the remotes say:    *)
(* no session vanishes, and a remap moves one whole. If moreover no packet *)
(* is framed with the seed a session starts with, the events of a session  *)
(* come in order, and an application that keys its state by address is     *)
(* right about it.                                                         *)
(***************************************************************************)
EXTENDS Multiplexer, SessionProofs, FiniteSetTheorems

\* No server draws 0 as its seed, and no remote frames with it a packet for a
\* session that negotiates. The code does not see to the first and accepts the
\* second (session.rs:421).
SeedsTell == NoKey \notin Keys

-----------------------------------------------------------------------------
(* The inductive invariant. *)

Notes == {"Opened", "Data", "Closed"}

MuxTypes ==
    /\ sessions \in [Addr -> Sessions \cup {NoSession}]
    /\ births \in 0 .. MaxBirths
    /\ birth \in [Addr -> 0 .. MaxBirths]
    /\ told \in [1 .. MaxBirths -> Seq(Notes)]
    /\ view \in [Addr -> {"Unknown", "Open", "Closed"}]
    /\ \A b \in births + 1 .. MaxBirths : told[b] = <<>>

\* What the application heard of a session before its next drain.
Early == IF SeedsTell THEN "Fresh" ELSE "Lax"
PastOf(b) == IF Contains(told[b], "Opened") THEN "Open" ELSE Early

Idle(s) ==
    /\ s.state # "Terminated"
    /\ s.outgoing = <<>> /\ s.received = <<>> /\ s.events = <<>>

\* Between calls a session lives, is sound for what was told of it, and has
\* been drained;
Housed(a) ==
    sessions[a] # NoSession =>
        /\ birth[a] \in 1 .. births
        /\ Sound(PastOf(birth[a]), sessions[a]) /\ Flushed(sessions[a])
        /\ Idle(sessions[a])
        /\ ~Contains(told[birth[a]], "Closed")

\* no two addresses share one;
Apart ==
    \A a, c \in Addr :
        (sessions[a] # NoSession /\ sessions[c] # NoSession
            /\ birth[a] = birth[c]) => a = c

\* and one without an address has been told of, or replaced.
Accounted ==
    \A b \in 1 .. births :
        (\A a \in Addr : sessions[a] # NoSession => birth[a] # b)
            => Contains(told[b], "Closed") \/ b \in replaced

\* The view of an address is out of date only where it was disturbed.
ViewFollows ==
    \A a \in Addr \ disturbed :
        view[a] = "Open" <=>
            sessions[a] # NoSession /\ Contains(told[birth[a]], "Opened")

MuxInv ==
    /\ MuxTypes
    /\ \A a \in Addr : Housed(a)
    /\ Apart
    /\ Accounted
    /\ ViewFollows
    /\ SeedsTell => ToldInOrder /\ stray = {}

\* What a call of the multiplexer hands to Settle: the same for the sessions
\* as it leaves them, before they are drained.
Prepared(after, newborn, upset, n, gone) ==
    /\ after \in [Addr -> Sessions \cup {NoSession}]
    /\ newborn \in [Addr -> 0 .. MaxBirths]
    /\ n \in births .. MaxBirths
    /\ \A a \in Addr : after[a] # NoSession =>
          /\ newborn[a] \in 1 .. n
          /\ Sound(PastOf(newborn[a]), after[a]) /\ Flushed(after[a])
          /\ ~Contains(told[newborn[a]], "Closed")
    /\ \A a, c \in Addr :
          (after[a] # NoSession /\ after[c] # NoSession
              /\ newborn[a] = newborn[c]) => a = c
    /\ \A b \in 1 .. n :
          (\A a \in Addr : after[a] # NoSession => newborn[a] # b)
              => Contains(told[b], "Closed") \/ b \in gone
    /\ \A a \in Addr \ (disturbed \cup upset) :
          view[a] = "Open" <=>
              after[a] # NoSession /\ Contains(told[newborn[a]], "Opened")

LEMMA SessionOrNone ==
    /\ NoSession.state = "None" /\ NoSession.events = <<>>
    /\ NoSession.received = <<>> /\ Drained(NoSession) = NoSession
    /\ \A s \in Sessions : s.state # "None" /\ s # NoSession
<1>1. /\ NoSession.state = "None" /\ NoSession.events = <<>>
      /\ NoSession.received = <<>>
  BY DEF NoSession, New
<1>2. Drained(NoSession) = NoSession
  <2> DEFINE Nothing == [mode : {"Client"}, state : {"None"}, key : {NoKey},
                         id : {NoId}, openOnNextPacket : {FALSE}, idle : {0},
                         reason : {"None"}, byRemote : {FALSE},
                         inputs : {New("Client").inputs},
                         outputs : {New("Client").outputs},
                         outgoing : {<<>>}, received : {<<>>}, events : {<<>>}]
  <2>1. NoSession \in Nothing
    BY DEF NoSession, New
  <2>2. \A s \in Nothing : Drained(s) = s
    BY DEF Drained
  <2> QED
    BY <2>1, <2>2
<1>3. \A s \in Sessions : s.state # "None"
  BY DEF Sessions
<1> QED
  BY <1>1, <1>2, <1>3

LEMMA PastsKnown ==
    /\ Early \in Pasts /\ Early # "Open"
    /\ \A b : PastOf(b) \in Pasts
    /\ \A b : PastOf(b) = "Open" <=> Contains(told[b], "Opened")
    /\ \A b : PastOf(b) = "Lax" => ~SeedsTell
    /\ \A b : ~Contains(told[b], "Opened") => PastOf(b) = Early
    /\ ~SeedsTell <=> Early = "Lax"
BY DEF Early, PastOf, Pasts

-----------------------------------------------------------------------------
(* What one drain tells. *)

Few == {<<>>, <<"Opened">>, <<"Opened", "Data">>}
Whole == Few \cup {<<"Closed">>, <<"Opened", "Closed">>,
                   <<"Opened", "Data", "Closed">>}

LEMMA ConcatIs ==
    ASSUME NEW T, NEW s \in Seq(T), NEW t \in Seq(T), NEW u \in Seq(T),
           Len(u) = Len(s) + Len(t),
           \A i \in 1 .. Len(s) : u[i] = s[i],
           \A i \in 1 .. Len(t) : u[Len(s) + i] = t[i]
    PROVE  s \o t = u
<1>1. /\ s \o t \in Seq(T) /\ Len(s \o t) = Len(s) + Len(t)
      /\ Len(s) \in Nat /\ Len(t) \in Nat
      /\ \A i \in 1 .. Len(s) + Len(t) :
            (s \o t)[i] = IF i <= Len(s) THEN s[i] ELSE t[i - Len(s)]
  BY ConcatProperties
<1>2. ASSUME NEW i \in 1 .. Len(s) + Len(t) PROVE (s \o t)[i] = u[i]
  <2>1. CASE i <= Len(s)
    BY <1>1, <2>1
  <2>2. CASE i > Len(s)
    <3>1. i - Len(s) \in 1 .. Len(t) /\ Len(s) + (i - Len(s)) = i
      BY <1>1, <2>2
    <3> QED
      BY <1>1, <2>2, <3>1
  <2> QED
    BY <1>1, <2>1, <2>2
<1> QED
  BY <1>1, <1>2, SeqEqual

LEMMA ShortSequences ==
    ASSUME NEW x \in Notes, NEW y \in Notes, NEW z \in Notes
    PROVE  /\ <<x>> \o <<y>> = <<x, y>>
           /\ <<x>> \o <<y, z>> = <<x, y, z>>
           /\ <<x, y>> \o <<z>> = <<x, y, z>>
<1> DEFINE one == <<x>>  last == <<z>>  next == <<y>>
           first == <<x, y>>  rest == <<y, z>>  all == <<x, y, z>>
<1>1. /\ one \in Seq(Notes) /\ Len(one) = 1 /\ one[1] = x
      /\ last \in Seq(Notes) /\ Len(last) = 1 /\ last[1] = z
      /\ next \in Seq(Notes) /\ Len(next) = 1 /\ next[1] = y
  OBVIOUS
<1>2. /\ first \in Seq(Notes) /\ Len(first) = 2
      /\ first[1] = x /\ first[2] = y
      /\ rest \in Seq(Notes) /\ Len(rest) = 2
      /\ rest[1] = y /\ rest[2] = z
  OBVIOUS
<1>3. /\ all \in Seq(Notes) /\ Len(all) = 3
      /\ all[1] = x /\ all[2] = y /\ all[3] = z
  OBVIOUS
<1> HIDE DEF one, last, next, first, rest, all
<1>4. one \o next = first
  <2>1. /\ Len(first) = Len(one) + Len(next)
        /\ \A i \in 1 .. Len(one) : first[i] = one[i]
        /\ \A i \in 1 .. Len(next) : first[Len(one) + i] = next[i]
    BY <1>1, <1>2
  <2> QED
    BY <1>1, <1>2, <2>1, ConcatIs, Zenon
<1>5. one \o rest = all
  <2>1. /\ Len(all) = Len(one) + Len(rest)
        /\ \A i \in 1 .. Len(one) : all[i] = one[i]
        /\ \A i \in 1 .. Len(rest) : all[Len(one) + i] = rest[i]
    BY <1>1, <1>2, <1>3
  <2> QED
    BY <1>1, <1>2, <1>3, <2>1, ConcatIs, Zenon
<1>6. first \o last = all
  <2>1. /\ Len(all) = Len(first) + Len(last)
        /\ \A i \in 1 .. Len(first) : all[i] = first[i]
        /\ \A i \in 1 .. Len(last) : all[Len(first) + i] = last[i]
    BY <1>1, <1>2, <1>3
  <2> QED
    BY <1>1, <1>2, <1>3, <2>1, ConcatIs, Zenon
<1> QED
  BY <1>4, <1>5, <1>6 DEF one, last, next, first, rest, all

LEMMA ContainsShort ==
    ASSUME NEW a, NEW b, NEW c, NEW x
    PROVE  /\ ~Contains(<<>>, x)
           /\ Contains(<<a>>, x) <=> x = a
           /\ Contains(<<a, b>>, x) <=> x = a \/ x = b
           /\ Contains(<<a, b, c>>, x) <=> x = a \/ x = b \/ x = c
<1>1. ~Contains(<<>>, x)
  BY DEF Contains
<1>2. Contains(<<a>>, x) <=> x = a
  <2> DEFINE s == <<a>>
  <2>1. Len(s) = 1 /\ s[1] = a
    OBVIOUS
  <2> HIDE DEF s
  <2>2. Contains(s, x) <=> x = a
    BY <2>1 DEF Contains
  <2> QED
    BY <2>2 DEF s
<1>3. Contains(<<a, b>>, x) <=> x = a \/ x = b
  <2> DEFINE s == <<a, b>>
  <2>1. Len(s) = 2 /\ s[1] = a /\ s[2] = b
    OBVIOUS
  <2> HIDE DEF s
  <2>2. Contains(s, x) <=> x = a \/ x = b
    BY <2>1 DEF Contains
  <2> QED
    BY <2>2 DEF s
<1>4. Contains(<<a, b, c>>, x) <=> x = a \/ x = b \/ x = c
  <2> DEFINE s == <<a, b, c>>
  <2>1. Len(s) = 3 /\ s[1] = a /\ s[2] = b /\ s[3] = c
    OBVIOUS
  <2> HIDE DEF s
  <2>2. Contains(s, x) <=> x = a \/ x = b \/ x = c
    BY <2>1 DEF Contains
  <2> QED
    BY <2>2 DEF s
<1> QED
  BY <1>1, <1>2, <1>3, <1>4

LEMMA ContainsConcat ==
    ASSUME NEW s \in Seq(Notes), NEW t \in Seq(Notes), NEW x
    PROVE  Contains(s \o t, x) <=> Contains(s, x) \/ Contains(t, x)
<1> DEFINE u == s \o t
<1>1. /\ Len(u) = Len(s) + Len(t) /\ Len(s) \in Nat /\ Len(t) \in Nat
      /\ \A i \in 1 .. Len(s) + Len(t) :
            u[i] = IF i <= Len(s) THEN s[i] ELSE t[i - Len(s)]
  BY ConcatProperties
<1> HIDE DEF u
<1>2. ASSUME NEW i \in 1 .. Len(s), s[i] = x PROVE Contains(u, x)
  <2>1. i \in 1 .. Len(u) /\ u[i] = x
    BY <1>1, <1>2
  <2> QED
    BY <2>1 DEF Contains
<1>3. ASSUME NEW i \in 1 .. Len(t), t[i] = x PROVE Contains(u, x)
  <2>1. Len(s) + i \in 1 .. Len(u) /\ u[Len(s) + i] = x
    BY <1>1, <1>3
  <2> QED
    BY <2>1 DEF Contains
<1>4. ASSUME NEW i \in 1 .. Len(u), u[i] = x
      PROVE  Contains(s, x) \/ Contains(t, x)
  <2>1. CASE i <= Len(s)
    BY <1>1, <1>4, <2>1 DEF Contains
  <2>2. CASE i > Len(s)
    <3>1. i - Len(s) \in 1 .. Len(t) /\ t[i - Len(s)] = x
      BY <1>1, <1>4, <2>2
    <3> QED
      BY <3>1 DEF Contains
  <2> QED
    BY <1>1, <2>1, <2>2
<1>5. Contains(u, x) <=> Contains(s, x) \/ Contains(t, x)
  BY <1>2, <1>3, <1>4 DEF Contains
<1> QED
  BY <1>5 DEF u

\* What a drain tells, by what it finds.
LEMMA SurfacedCases ==
    ASSUME NEW s
    PROVE  LET o == Has(s, "Opened")
               d == s.received # <<>>
               c == Has(s, "Closed")
           IN  /\ o /\ d /\ c => Surfaced(s) = <<"Opened", "Data", "Closed">>
               /\ o /\ d /\ ~c => Surfaced(s) = <<"Opened", "Data">>
               /\ o /\ ~d /\ c => Surfaced(s) = <<"Opened", "Closed">>
               /\ o /\ ~d /\ ~c => Surfaced(s) = <<"Opened">>
               /\ ~o /\ d /\ c => Surfaced(s) = <<"Data", "Closed">>
               /\ ~o /\ d /\ ~c => Surfaced(s) = <<"Data">>
               /\ ~o /\ ~d /\ c => Surfaced(s) = <<"Closed">>
               /\ ~o /\ ~d /\ ~c => Surfaced(s) = <<>>
<1> DEFINE o == Has(s, "Opened")
           d == s.received # <<>>
           c == Has(s, "Closed")
           first == If(o, "Opened")
           next == If(d, "Data")
           last == If(c, "Closed")
<1>1. Surfaced(s) = Join(Join(first, next), last)
  BY DEF Surfaced, Join
<1>2. /\ \A t \in Seq(Notes) : Join(<<>>, t) = t /\ Join(t, <<>>) = t
      /\ Join(<<"Opened">>, <<"Data">>) = <<"Opened", "Data">>
      /\ Join(<<"Opened">>, <<"Closed">>) = <<"Opened", "Closed">>
      /\ Join(<<"Data">>, <<"Closed">>) = <<"Data", "Closed">>
      /\ Join(<<"Opened", "Data">>, <<"Closed">>)
            = <<"Opened", "Data", "Closed">>
  BY ConcatEmptySeq, ShortSequences DEF Join, Notes
<1>3. /\ <<>> \in Seq(Notes) /\ <<"Opened">> \in Seq(Notes)
      /\ <<"Data">> \in Seq(Notes) /\ <<"Closed">> \in Seq(Notes)
      /\ <<"Opened", "Data">> \in Seq(Notes)
  BY DEF Notes
<1>4. /\ first = IF o THEN <<"Opened">> ELSE <<>>
      /\ next = IF d THEN <<"Data">> ELSE <<>>
      /\ last = IF c THEN <<"Closed">> ELSE <<>>
  BY DEF If
<1> HIDE DEF o, d, c, first, next, last
<1>5. Join(first, next) = IF o THEN IF d THEN <<"Opened", "Data">>
                                         ELSE <<"Opened">>
                               ELSE IF d THEN <<"Data">> ELSE <<>>
  BY <1>2, <1>3, <1>4
<1>6. /\ o /\ d /\ c => Surfaced(s) = <<"Opened", "Data", "Closed">>
      /\ o /\ d /\ ~c => Surfaced(s) = <<"Opened", "Data">>
      /\ o /\ ~d /\ c => Surfaced(s) = <<"Opened", "Closed">>
      /\ o /\ ~d /\ ~c => Surfaced(s) = <<"Opened">>
      /\ ~o /\ d /\ c => Surfaced(s) = <<"Data", "Closed">>
      /\ ~o /\ d /\ ~c => Surfaced(s) = <<"Data">>
      /\ ~o /\ ~d /\ c => Surfaced(s) = <<"Closed">>
      /\ ~o /\ ~d /\ ~c => Surfaced(s) = <<>>
  BY <1>1, <1>2, <1>3, <1>4, <1>5
<1> QED
  BY <1>6 DEF o, d, c

LEMMA Telling ==
    ASSUME NEW past \in Pasts, NEW s, Sound(past, s)
    PROVE  /\ Surfaced(s) \in Seq(Notes)
           /\ Contains(Surfaced(s), "Opened") <=> Has(s, "Opened")
           /\ Contains(Surfaced(s), "Data") <=> s.received # <<>>
           /\ Contains(Surfaced(s), "Closed") <=> s.state = "Terminated"
           /\ Has(s, "Closed") <=> s.state = "Terminated"
           /\ Has(s, "Opened") => past # "Open"
           /\ Has(s, "Opened") <=>
                 s.events \in {<<"Opened">>, <<"Opened", "Closed">>}
           /\ past = "Fresh" /\ s.received # <<>> => Has(s, "Opened")
<1>1. s \in Sessions /\ Told(past, s)
  BY DEF Sound
<1>2. s.state \in {"Negotiating", "Running", "Terminated"}
  BY <1>1 DEF Sessions
<1> DEFINE marks == s.events
<1>3. /\ \/ marks = <<>> /\ s.state # "Terminated"
         \/ marks = <<"Opened">> /\ s.state # "Terminated" /\ past # "Open"
         \/ marks = <<"Closed">> /\ s.state = "Terminated"
         \/ /\ marks = <<"Opened", "Closed">> /\ s.state = "Terminated"
            /\ past # "Open"
  BY <1>1, <1>2 DEF Told
<1>4. \A event : Has(s, event) <=> Contains(marks, event)
  <2>1. marks \in Seq({"Opened", "Closed"})
    BY <1>1 DEF Sessions
  <2>2. DOMAIN marks = 1 .. Len(marks)
    BY <2>1
  <2> QED
    BY <2>2 DEF Has, Contains
<1>5. /\ Has(s, "Closed") <=> s.state = "Terminated"
      /\ Has(s, "Opened") => past # "Open"
      /\ Has(s, "Opened") <=> marks \in {<<"Opened">>, <<"Opened", "Closed">>}
  <2> HIDE DEF marks
  <2>1. CASE marks = <<>> /\ s.state # "Terminated"
    <3>1. ~Has(s, "Opened") /\ ~Has(s, "Closed")
      BY <1>4, <2>1, ContainsShort
    <3> QED
      BY <2>1, <3>1, EventSequences
  <2>2. CASE marks = <<"Opened">> /\ s.state # "Terminated" /\ past # "Open"
    <3>1. Has(s, "Opened") /\ ~Has(s, "Closed")
      BY <1>4, <2>2, ContainsShort, ZenonT(40)
    <3> QED
      BY <2>2, <3>1
  <2>3. CASE marks = <<"Closed">> /\ s.state = "Terminated"
    <3>1. ~Has(s, "Opened") /\ Has(s, "Closed")
      BY <1>4, <2>3, ContainsShort
    <3>2. marks # <<"Opened">> /\ marks # <<"Opened", "Closed">>
      BY <2>3
    <3> QED
      BY <2>3, <3>1, <3>2
  <2>4. CASE /\ marks = <<"Opened", "Closed">> /\ s.state = "Terminated"
             /\ past # "Open"
    <3>1. /\ Contains(<<"Opened", "Closed">>, "Opened")
          /\ Contains(<<"Opened", "Closed">>, "Closed")
      BY ContainsShort
    <3>2. Has(s, "Opened") /\ Has(s, "Closed")
      BY <1>4, <2>4, <3>1
    <3> QED
      BY <2>4, <3>2
  <2> QED
    BY <1>3, <2>1, <2>2, <2>3, <2>4
<1>6. past = "Fresh" /\ s.received # <<>> => Has(s, "Opened")
  <2>1. past = "Fresh" /\ s.received # <<>> => Entitled(past, s)
    BY DEF Sound, Surfacing
  <2> QED
    BY <1>5, <2>1 DEF Entitled, Opened
<1> DEFINE o == Has(s, "Opened")
           d == s.received # <<>>
           c == Has(s, "Closed")
           e == Surfaced(s)
<1>7. /\ \/ o /\ d /\ c /\ e = <<"Opened", "Data", "Closed">>
         \/ o /\ d /\ ~c /\ e = <<"Opened", "Data">>
         \/ o /\ ~d /\ c /\ e = <<"Opened", "Closed">>
         \/ o /\ ~d /\ ~c /\ e = <<"Opened">>
         \/ ~o /\ d /\ c /\ e = <<"Data", "Closed">>
         \/ ~o /\ d /\ ~c /\ e = <<"Data">>
         \/ ~o /\ ~d /\ c /\ e = <<"Closed">>
         \/ ~o /\ ~d /\ ~c /\ e = <<>>
  BY SurfacedCases, Zenon
<1> HIDE DEF o, d, c, e
<1>8. e \in Seq(Notes)
  <2>1. /\ <<"Opened", "Data", "Closed">> \in Seq(Notes)
        /\ <<"Opened", "Data">> \in Seq(Notes)
        /\ <<"Opened", "Closed">> \in Seq(Notes)
        /\ <<"Data", "Closed">> \in Seq(Notes)
        /\ <<"Opened">> \in Seq(Notes) /\ <<"Data">> \in Seq(Notes)
        /\ <<"Closed">> \in Seq(Notes) /\ <<>> \in Seq(Notes)
    BY DEF Notes
  <2> QED
    BY <1>7, <2>1, Zenon
<1>9. /\ Contains(e, "Opened") <=> o
      /\ Contains(e, "Data") <=> d
      /\ Contains(e, "Closed") <=> c
  <2>1. ASSUME NEW x
        PROVE  /\ Contains(<<"Opened", "Data", "Closed">>, x) <=>
                      x = "Opened" \/ x = "Data" \/ x = "Closed"
               /\ Contains(<<"Opened", "Data">>, x) <=>
                      x = "Opened" \/ x = "Data"
               /\ Contains(<<"Opened", "Closed">>, x) <=>
                      x = "Opened" \/ x = "Closed"
               /\ Contains(<<"Data", "Closed">>, x) <=>
                      x = "Data" \/ x = "Closed"
               /\ Contains(<<"Opened">>, x) <=> x = "Opened"
               /\ Contains(<<"Data">>, x) <=> x = "Data"
               /\ Contains(<<"Closed">>, x) <=> x = "Closed"
               /\ ~Contains(<<>>, x)
    BY ContainsShort, Zenon
  <2>2. CASE o
    BY <1>7, <2>1, <2>2
  <2>3. CASE ~o
    BY <1>7, <2>1, <2>3
  <2> QED
    BY <2>2, <2>3
<1> QED
  BY <1>5, <1>6, <1>8, <1>9 DEF o, d, c, e

LEMMA ContainsTail ==
    ASSUME NEW e \in Seq(Notes), e # <<>>, NEW x, Head(e) # x
    PROVE  Contains(Tail(e), x) <=> Contains(e, x)
<1> DEFINE u == Tail(e)
<1>1. /\ Len(e) \in Nat \ {0} /\ Head(e) = e[1]
      /\ Len(u) = Len(e) - 1 /\ \A i \in 1 .. Len(u) : u[i] = e[i + 1]
  <2>1. /\ Len(e) \in Nat \ {0} /\ Head(e) = e[1]
        /\ u \in Seq(Notes) /\ Len(u) = Len(e) - 1
    BY EmptySeq, HeadTailProperties
  <2>2. \A i \in 1 .. Len(u) : u[i] = e[i + 1]
    BY <2>1, HeadTailProperties
  <2> QED
    BY <2>1, <2>2
<1> HIDE DEF u
<1>2. ASSUME NEW i \in 1 .. Len(u), u[i] = x PROVE Contains(e, x)
  <2>1. i + 1 \in 1 .. Len(e) /\ e[i + 1] = x
    BY <1>1, <1>2
  <2> QED
    BY <2>1 DEF Contains
<1>3. ASSUME NEW i \in 1 .. Len(e), e[i] = x PROVE Contains(u, x)
  <2>1. i # 1
    BY <1>1, <1>3
  <2>2. i - 1 \in 1 .. Len(u) /\ (i - 1) + 1 = i
    BY <1>1, <2>1
  <2>3. u[i - 1] = x
    BY <1>1, <1>3, <2>2
  <2> QED
    BY <2>2, <2>3 DEF Contains
<1>4. Contains(u, x) <=> Contains(e, x)
  BY <1>2, <1>3 DEF Contains
<1> QED
  BY <1>4 DEF u

\* Hearing the events of one more drain.
LEMMA HeardKeeps ==
    ASSUME NEW t \in Seq(Notes), NEW e \in Seq(Notes)
    PROVE  /\ Heard(t, e) \in Seq(Notes)
           /\ \A x \in {"Opened", "Closed"} :
                 Contains(Heard(t, e), x) <=> Contains(t, x) \/ Contains(e, x)
           /\ e = <<>> => Heard(t, e) = t
<1>1. CASE /\ e # <<>> /\ t # <<>> /\ Head(e) = "Data" /\ Last(t) = "Data"
  <2>1. Heard(t, e) = t \o Tail(e)
    BY <1>1 DEF Heard
  <2>2. Tail(e) \in Seq(Notes)
    BY <1>1
  <2>3. t \o Tail(e) \in Seq(Notes)
    BY <2>2
  <2>4. ASSUME NEW x \in {"Opened", "Closed"}
        PROVE  Contains(t \o Tail(e), x) <=> Contains(t, x) \/ Contains(e, x)
    <3>1. Contains(t \o Tail(e), x) <=> Contains(t, x) \/ Contains(Tail(e), x)
      BY <2>2, ContainsConcat
    <3>2. Contains(Tail(e), x) <=> Contains(e, x)
      BY <1>1, ContainsTail
    <3> QED
      BY <3>1, <3>2
  <2> QED
    BY <1>1, <2>1, <2>3, <2>4
<1>2. CASE ~(e # <<>> /\ t # <<>> /\ Head(e) = "Data" /\ Last(t) = "Data")
  <2>1. Heard(t, e) = t \o e
    BY <1>2 DEF Heard
  <2>2. t \o e \in Seq(Notes) /\ t \o <<>> = t
    BY ConcatEmptySeq
  <2>3. \A x \in {"Opened", "Closed"} :
            Contains(t \o e, x) <=> Contains(t, x) \/ Contains(e, x)
    BY ContainsConcat
  <2> QED
    BY <2>1, <2>2, <2>3
<1> QED
  BY <1>1, <1>2

\* Of a session whose seed tells, the application hears a whole story.
LEMMA HeardInOrder ==
    ASSUME NEW t \in Few, NEW past \in Pasts, NEW s, Sound(past, s),
           past = IF Contains(t, "Opened") THEN "Open" ELSE "Fresh"
    PROVE  /\ Heard(t, Surfaced(s)) \in Whole
           /\ s.state # "Terminated" => Heard(t, Surfaced(s)) \in Few
<1> DEFINE o == Has(s, "Opened")
           d == s.received # <<>>
           c == Has(s, "Closed")
           e == Surfaced(s)
           told3 == <<"Opened", "Data", "Closed">>
           opened == <<"Opened">>
           fed == <<"Opened", "Data">>
           closed == <<"Closed">>
           shut == <<"Opened", "Closed">>
           data == <<"Data">>
           final == <<"Data", "Closed">>
<1>1. /\ c <=> s.state = "Terminated"
      /\ o => past # "Open"
      /\ past = "Fresh" /\ d => o
  BY Telling
<1>2. /\ \/ o /\ d /\ c /\ e = told3
         \/ o /\ d /\ ~c /\ e = fed
         \/ o /\ ~d /\ c /\ e = shut
         \/ o /\ ~d /\ ~c /\ e = opened
         \/ ~o /\ d /\ c /\ e = final
         \/ ~o /\ d /\ ~c /\ e = data
         \/ ~o /\ ~d /\ c /\ e = closed
         \/ ~o /\ ~d /\ ~c /\ e = <<>>
  BY SurfacedCases, Zenon
<1>3. /\ opened \o final = told3 /\ opened \o data = fed
      /\ opened \o closed = shut /\ fed \o closed = told3
  BY ShortSequences, Zenon DEF Notes
<1>4. /\ told3 \in Seq(Notes) /\ opened \in Seq(Notes) /\ fed \in Seq(Notes)
      /\ closed \in Seq(Notes) /\ shut \in Seq(Notes) /\ <<>> \in Seq(Notes)
  BY DEF Notes
<1>5. \A u \in Seq(Notes) : <<>> \o u = u /\ u \o <<>> = u
  BY ConcatEmptySeq
<1>6. /\ Tail(final) = closed /\ Tail(data) = <<>>
      /\ Head(final) = "Data" /\ Head(data) = "Data" /\ Head(closed) = "Closed"
      /\ Last(opened) = "Opened" /\ Last(fed) = "Data"
      /\ final # <<>> /\ data # <<>> /\ closed # <<>>
      /\ opened # <<>> /\ fed # <<>>
  BY DEF Last
<1>7. /\ ~Contains(<<>>, "Opened") /\ Contains(opened, "Opened")
      /\ Contains(fed, "Opened")
  BY ContainsShort, Zenon
<1>8. Heard(t, e) = IF e # <<>> /\ t # <<>>
                         /\ Head(e) = "Data" /\ Last(t) = "Data"
                    THEN t \o Tail(e) ELSE t \o e
  BY DEF Heard
<1>9. /\ Few = {<<>>, opened, fed}
      /\ Whole = {<<>>, opened, fed, closed, shut, told3}
  BY DEF Few, Whole
<1> HIDE DEF o, d, c, e, told3, opened, fed, closed, shut, data, final
<1>10. CASE t = <<>>
  <2>1. ~o => ~d
    BY <1>1, <1>7, <1>10
  <2>2. e \in Seq(Notes)
    BY <1>2, <1>4, <2>1, Zenon
  <2>3. Heard(t, e) = e
    BY <1>5, <1>8, <1>10, <2>2
  <2>4. e \in Whole /\ (~c => e \in Few)
    BY <1>2, <1>9, <2>1, Zenon
  <2> QED
    BY <1>1, <2>3, <2>4 DEF e
<1>11. CASE t = opened
  <2>1. ~o
    BY <1>1, <1>7, <1>11
  <2>2. Heard(t, e) = opened \o e
    BY <1>6, <1>8, <1>11
  <2>3. \/ c /\ opened \o e = told3
        \/ ~c /\ opened \o e = fed
        \/ c /\ opened \o e = shut
        \/ ~c /\ opened \o e = opened
    BY <1>2, <1>3, <1>4, <1>5, <2>1, Zenon
  <2> QED
    BY <1>1, <1>9, <2>2, <2>3 DEF e
<1>12. CASE t = fed
  <2>1. ~o
    BY <1>1, <1>7, <1>12
  <2>2. CASE e = final /\ c
    <3>1. Heard(t, e) = told3
      BY <1>3, <1>6, <1>8, <1>12, <2>2
    <3> QED
      BY <1>1, <1>9, <2>2, <3>1 DEF e
  <2>3. CASE e = data /\ ~c
    <3>1. Heard(t, e) = fed
      BY <1>4, <1>5, <1>6, <1>8, <1>12, <2>3
    <3> QED
      BY <1>1, <1>9, <2>3, <3>1 DEF e
  <2>4. CASE e = closed /\ c
    <3>1. Heard(t, e) = told3
      BY <1>3, <1>6, <1>8, <1>12, <2>4
    <3> QED
      BY <1>1, <1>9, <2>4, <3>1 DEF e
  <2>5. CASE e = <<>> /\ ~c
    <3>1. Heard(t, e) = fed
      BY <1>4, <1>5, <1>8, <1>12, <2>5
    <3> QED
      BY <1>1, <1>9, <2>5, <3>1 DEF e
  <2> QED
    BY <1>2, <2>1, <2>2, <2>3, <2>4, <2>5
<1> QED
  BY <1>9, <1>10, <1>11, <1>12

\* What a drain leaves of a session.
LEMMA DrainedSound ==
    ASSUME NEW past \in Pasts, NEW s, Sound(past, s), Flushed(s),
           s.state # "Terminated",
           NEW later, later = IF Has(s, "Opened") THEN "Open" ELSE past
    PROVE  /\ Drained(s) \in Sessions
           /\ Sound(later, Drained(s)) /\ Flushed(Drained(s))
           /\ Idle(Drained(s))
<1> DEFINE t == Drained(s)
<1>1. s \in Sessions
  BY DEF Sound
<1>2. <<>> \in Seq(Quiet \cup Notices) /\ <<>> \in Seq(0 .. ChannelCount)
      /\ <<>> \in Seq(Quiet) /\ <<>> \in Seq({"Opened", "Closed"})
  OBVIOUS
<1>3. /\ t \in Sessions
      /\ t.outgoing = <<>> /\ t.received = <<>> /\ t.events = <<>>
      /\ t.inputs = s.inputs /\ t.outputs = s.outputs
      /\ t.state = s.state /\ t.key = s.key
      /\ t.openOnNextPacket = s.openOnNextPacket
  BY <1>1, <1>2 DEF Drained, Sessions
<1> HIDE DEF t
<1>4. Flushed(t) /\ Idle(t) /\ WindowsHold(t) /\ LastWords(t)
  BY <1>2, <1>3 DEF Flushed, Idle, Sound, WindowsHold, LastWords
<1>5. ~Surfacing(t)
  BY <1>3, <1>4 DEF Surfacing, Flushed
<1>6. Told(later, t)
  <2>1. /\ Has(s, "Opened") <=>
              s.events \in {<<"Opened">>, <<"Opened", "Closed">>}
        /\ Told(past, s)
    BY Telling DEF Sound
  <2>2. /\ <<"Opened">> # <<>> /\ <<"Opened", "Closed">> # <<>>
    OBVIOUS
  <2>3. s.state \in {"Negotiating", "Running"}
    BY <1>1 DEF Sessions
  <2> QED
    BY <1>3, <2>1, <2>2, <2>3 DEF Told
<1> QED
  BY <1>3, <1>4, <1>5, <1>6 DEF Sound, t

-----------------------------------------------------------------------------
(* Every call that hands Settle what it should keeps the invariant. *)

\* What a drain tells of one address, and leaves there.
LEMMA OneSettles ==
    ASSUME MuxInv, NEW after, NEW newborn, NEW upset, NEW n, NEW gone,
           Prepared(after, newborn, upset, n, gone),
           Settle(after, newborn, upset), NEW a \in Addr
    PROVE  /\ after[a] = NoSession =>
                 /\ Surfaced(after[a]) = <<>> /\ sessions'[a] = NoSession
           /\ after[a] # NoSession =>
                 /\ newborn[a] \in 1 .. n /\ newborn[a] \in 1 .. MaxBirths
                 /\ told'[newborn[a]]
                       = Heard(told[newborn[a]], Surfaced(after[a]))
                 /\ told'[newborn[a]] \in Seq(Notes)
                 /\ Contains(told'[newborn[a]], "Opened") <=>
                       \/ Contains(told[newborn[a]], "Opened")
                       \/ Has(after[a], "Opened")
                 /\ Contains(told'[newborn[a]], "Closed") <=>
                       after[a].state = "Terminated"
                 /\ sessions'[a] = IF after[a].state = "Terminated"
                                   THEN NoSession ELSE Drained(after[a])
                 /\ after[a].state # "Terminated" =>
                       /\ sessions'[a] \in Sessions
                       /\ sessions'[a] # NoSession
                       /\ Sound(PastOf(newborn[a])', sessions'[a])
                       /\ Flushed(sessions'[a]) /\ Idle(sessions'[a])
<1>1. sessions'[a] = Kept(after[a])
  BY DEF Settle
<1>2. CASE after[a] = NoSession
  <2>1. Surfaced(NoSession) = <<>>
    <3>1. /\ ~Has(NoSession, "Opened") /\ ~Has(NoSession, "Closed")
          /\ NoSession.received = <<>>
      BY SessionOrNone DEF Has
    <3> QED
      BY <3>1, SurfacedCases, Zenon
  <2>2. Kept(NoSession) = NoSession
    BY SessionOrNone DEF Kept
  <2> QED
    BY <1>1, <1>2, <2>1, <2>2
<1>3. CASE after[a] # NoSession
  <2> DEFINE b == newborn[a]
             s == after[a]
             past == PastOf(b)
  <2>1. /\ after \in [Addr -> Sessions \cup {NoSession}]
        /\ b \in 1 .. n /\ n \in births .. MaxBirths
        /\ births \in 0 .. MaxBirths /\ MaxBirths \in Nat
        /\ Sound(past, s) /\ Flushed(s) /\ ~Contains(told[b], "Closed")
        /\ told \in [1 .. MaxBirths -> Seq(Notes)]
    BY <1>3, MultiplexerAssumption
       DEF Prepared, MuxInv, MuxTypes, MultiplexerAssumption
  <2>2. b \in 1 .. MaxBirths
    BY <2>1
  <2>3. \A x \in Addr : newborn[x] = b /\ after[x].state # "None" => x = a
    <3>1. \A x \in Addr : after[x].state # "None" => after[x] # NoSession
      BY SessionOrNone
    <3> QED
      BY <1>3, <3>1 DEF Prepared
  <2>4. s \in Sessions /\ s.state # "None"
    BY <1>3, <2>1, SessionOrNone
  <2>5. told'[b] = Heard(told[b], Surfaced(s))
    <3> DEFINE P(x) == newborn[x] = b /\ after[x].state # "None"
    <3>1. P(a) /\ \A x \in Addr : P(x) => x = a
      BY <2>3, <2>4
    <3>2. told'[b] = IF \E x \in Addr : P(x)
                     THEN Heard(told[b],
                                Surfaced(after[CHOOSE x \in Addr : P(x)]))
                     ELSE told[b]
      <4>1. (CHOOSE x \in Addr : P(x)) \in Addr
        BY <3>1
      <4> QED
        BY <2>2, <4>1 DEF Settle
    <3>3. (CHOOSE x \in Addr : P(x)) = a
      <4> HIDE DEF P
      <4> QED
        BY <3>1
    <3> HIDE DEF P
    <3> QED
      BY <3>1, <3>2, <3>3
  <2>6. past \in Pasts
    BY PastsKnown
  <2> HIDE DEF past
  <2>7. /\ Surfaced(s) \in Seq(Notes)
        /\ Contains(Surfaced(s), "Opened") <=> Has(s, "Opened")
        /\ Contains(Surfaced(s), "Closed") <=> s.state = "Terminated"
    BY <2>1, <2>6, Telling
  <2>8. told[b] \in Seq(Notes)
    BY <2>1, <2>2
  <2>9. /\ told'[b] \in Seq(Notes)
        /\ Contains(told'[b], "Opened") <=>
              Contains(told[b], "Opened") \/ Has(s, "Opened")
        /\ Contains(told'[b], "Closed") <=> s.state = "Terminated"
    BY <2>1, <2>5, <2>7, <2>8, HeardKeeps
  <2>10. sessions'[a] = IF s.state = "Terminated" THEN NoSession ELSE Drained(s)
    BY <1>1 DEF Kept
  <2>11. PastOf(b)' = IF Has(s, "Opened") THEN "Open" ELSE past
    <3>1. newborn[a]' = newborn[a]
      OBVIOUS
    <3> QED
      BY <2>9 DEF PastOf, Early, SeedsTell, past
  <2>12. ASSUME s.state # "Terminated"
         PROVE  /\ sessions'[a] \in Sessions /\ sessions'[a] # NoSession
                /\ Sound(PastOf(b)', sessions'[a])
                /\ Flushed(sessions'[a]) /\ Idle(sessions'[a])
    <3>1. /\ Drained(s) \in Sessions /\ Sound(PastOf(b)', Drained(s))
          /\ Flushed(Drained(s)) /\ Idle(Drained(s))
      <4> DEFINE later == PastOf(b)'
      <4>1. later = IF Has(s, "Opened") THEN "Open" ELSE past
        BY <2>11
      <4> HIDE DEF later
      <4>2. /\ Drained(s) \in Sessions /\ Sound(later, Drained(s))
            /\ Flushed(Drained(s)) /\ Idle(Drained(s))
        BY <2>1, <2>6, <2>12, <4>1, DrainedSound
      <4> QED
        BY <4>2 DEF later
    <3>2. Drained(s) # NoSession /\ sessions'[a] = Drained(s)
      BY <2>10, <2>12, <3>1, SessionOrNone
    <3> QED
      BY <3>1, <3>2
  <2> QED
    BY <1>3, <2>1, <2>2, <2>5, <2>9, <2>10, <2>12
<1> QED
  BY <1>2, <1>3

LEMMA SettleKeeps ==
    ASSUME MuxInv, NEW after, NEW newborn, NEW upset, NEW n, NEW gone,
           Prepared(after, newborn, upset, n, gone),
           Settle(after, newborn, upset), births' = n, replaced' = gone
    PROVE  MuxInv'
<1> DEFINE P(a) ==
      /\ after[a] = NoSession =>
            /\ Surfaced(after[a]) = <<>> /\ sessions'[a] = NoSession
      /\ after[a] # NoSession =>
            /\ newborn[a] \in 1 .. n /\ newborn[a] \in 1 .. MaxBirths
            /\ told'[newborn[a]]
                  = Heard(told[newborn[a]], Surfaced(after[a]))
            /\ told'[newborn[a]] \in Seq(Notes)
            /\ Contains(told'[newborn[a]], "Opened") <=>
                  \/ Contains(told[newborn[a]], "Opened")
                  \/ Has(after[a], "Opened")
            /\ Contains(told'[newborn[a]], "Closed") <=>
                  after[a].state = "Terminated"
            /\ sessions'[a] = IF after[a].state = "Terminated"
                              THEN NoSession ELSE Drained(after[a])
            /\ after[a].state # "Terminated" =>
                  /\ sessions'[a] \in Sessions
                  /\ sessions'[a] # NoSession
                  /\ Sound(PastOf(newborn[a])', sessions'[a])
                  /\ Flushed(sessions'[a]) /\ Idle(sessions'[a])
<1>1. \A a \in Addr : P(a)
  BY OneSettles
<1>2. /\ after \in [Addr -> Sessions \cup {NoSession}]
      /\ newborn \in [Addr -> 0 .. MaxBirths]
      /\ n \in births .. MaxBirths /\ births \in 0 .. MaxBirths
      /\ MaxBirths \in Nat
      /\ told \in [1 .. MaxBirths -> Seq(Notes)]
      /\ view \in [Addr -> {"Unknown", "Open", "Closed"}]
      /\ \A b \in births + 1 .. MaxBirths : told[b] = <<>>
  BY MultiplexerAssumption
     DEF Prepared, MuxInv, MuxTypes, MultiplexerAssumption
<1>3. birth' = newborn
  BY DEF Settle
<1>4. \A a \in Addr : after[a] # NoSession => after[a].state # "None"
  BY <1>2, SessionOrNone
<1>5. \A b \in 1 .. MaxBirths :
         (\A a \in Addr : after[a] # NoSession => newborn[a] # b)
            => told'[b] = told[b]
  <2>1. NoSession.state = "None"
    BY SessionOrNone
  <2> TAKE b \in 1 .. MaxBirths
  <2>2. HAVE \A a \in Addr : after[a] # NoSession => newborn[a] # b
  <2>3. ~\E a \in Addr : newborn[a] = b /\ after[a].state # "None"
    BY <2>1, <2>2
  <2> QED
    BY <2>3 DEF Settle
<1>6. \A a \in Addr : view'[a] = Seen(view[a], Surfaced(after[a]))
  BY DEF Settle
<1>7. \A a \in Addr :
         after[a] # NoSession =>
            /\ PastOf(newborn[a]) \in Pasts
            /\ Sound(PastOf(newborn[a]), after[a])
            /\ ~Contains(told[newborn[a]], "Closed")
            /\ Contains(Surfaced(after[a]), "Opened")
                  <=> Has(after[a], "Opened")
            /\ Contains(Surfaced(after[a]), "Data") <=> after[a].received # <<>>
            /\ Contains(Surfaced(after[a]), "Closed")
                  <=> after[a].state = "Terminated"
            /\ PastOf(newborn[a]) = "Fresh" /\ after[a].received # <<>>
                  => Has(after[a], "Opened")
  <2> TAKE a \in Addr
  <2>1. HAVE after[a] # NoSession
  <2> DEFINE past == PastOf(newborn[a])  s == after[a]
  <2>2. /\ past \in Pasts /\ Sound(past, s)
        /\ ~Contains(told[newborn[a]], "Closed")
    BY <2>1, PastsKnown DEF Prepared
  <2> HIDE DEF past, s
  <2>3. /\ Contains(Surfaced(s), "Opened") <=> Has(s, "Opened")
        /\ Contains(Surfaced(s), "Data") <=> s.received # <<>>
        /\ Contains(Surfaced(s), "Closed") <=> s.state = "Terminated"
        /\ past = "Fresh" /\ s.received # <<>> => Has(s, "Opened")
    BY <2>2, Telling
  <2> QED
    BY <2>2, <2>3 DEF past, s
<1>8. MuxTypes'
  <2>1. sessions' \in [Addr -> Sessions \cup {NoSession}]
    <3>1. \A a \in Addr : sessions'[a] \in Sessions \cup {NoSession}
      BY <1>1
    <3>2. sessions' = [a \in Addr |-> sessions'[a]]
      BY DEF Settle
    <3> QED
      BY <3>1, <3>2
  <2>2. told' \in [1 .. MaxBirths -> Seq(Notes)]
    <3>1. \A b \in 1 .. MaxBirths : told'[b] \in Seq(Notes)
      <4> TAKE b \in 1 .. MaxBirths
      <4>1. CASE \E a \in Addr : after[a] # NoSession /\ newborn[a] = b
        BY <1>1, <4>1
      <4>2. CASE \A a \in Addr : after[a] # NoSession => newborn[a] # b
        BY <1>2, <1>5, <4>2
      <4> QED
        BY <4>1, <4>2
    <3>2. told' = [b \in 1 .. MaxBirths |-> told'[b]]
      BY DEF Settle
    <3> QED
      BY <3>1, <3>2
  <2>3. view' \in [Addr -> {"Unknown", "Open", "Closed"}]
    <3>1. \A a \in Addr : view'[a] \in {"Unknown", "Open", "Closed"}
      BY <1>2, <1>6 DEF Seen
    <3>2. view' = [a \in Addr |-> view'[a]]
      BY DEF Settle
    <3> QED
      BY <3>1, <3>2
  <2>4. \A b \in n + 1 .. MaxBirths : told'[b] = <<>>
    <3> TAKE b \in n + 1 .. MaxBirths
    <3>1. /\ b \in 1 .. MaxBirths /\ b \in births + 1 .. MaxBirths
          /\ b \notin 1 .. n
      BY <1>2
    <3>2. \A a \in Addr : after[a] # NoSession => newborn[a] # b
      BY <1>1, <3>1
    <3> QED
      BY <1>2, <1>5, <3>1, <3>2
  <2>5. n \in 0 .. MaxBirths
    BY <1>2
  <2> QED
    BY <1>2, <1>3, <2>1, <2>2, <2>3, <2>4, <2>5 DEF MuxTypes
<1>9. ASSUME NEW a \in Addr PROVE Housed(a)'
  <2>1. SUFFICES ASSUME sessions'[a] # NoSession
                 PROVE  /\ newborn[a] \in 1 .. n
                        /\ Sound(PastOf(newborn[a])', sessions'[a])
                        /\ Flushed(sessions'[a]) /\ Idle(sessions'[a])
                        /\ ~Contains(told'[newborn[a]], "Closed")
    BY <1>3 DEF Housed, PastOf, Early, SeedsTell
  <2>2. P(a)
    BY <1>1
  <2> QED
    BY <2>1, <2>2
<1>10. Apart'
  <2>1. \A a \in Addr : sessions'[a] # NoSession => after[a] # NoSession
    BY <1>1
  <2> QED
    BY <1>3, <2>1 DEF Apart, Prepared
<1>11. Accounted'
  <2>1. SUFFICES ASSUME NEW b \in 1 .. n,
                        \A a \in Addr :
                            sessions'[a] # NoSession => newborn[a] # b
                 PROVE  Contains(told'[b], "Closed") \/ b \in gone
    BY <1>3 DEF Accounted
  <2>2. CASE \E a \in Addr : after[a] # NoSession /\ newborn[a] = b
    <3>1. PICK a \in Addr : after[a] # NoSession /\ newborn[a] = b
      BY <2>2
    <3>2. P(a) /\ sessions'[a] = NoSession
      BY <1>1, <2>1, <3>1
    <3> QED
      BY <3>1, <3>2
  <2>3. CASE \A a \in Addr : after[a] # NoSession => newborn[a] # b
    <3>1. Contains(told[b], "Closed") \/ b \in gone
      BY <2>3 DEF Prepared
    <3>2. b \in 1 .. MaxBirths
      BY <1>2
    <3> QED
      BY <1>5, <2>3, <3>1, <3>2
  <2> QED
    BY <2>2, <2>3
<1>12. ViewFollows'
  <2>1. SUFFICES ASSUME NEW a \in Addr, a \notin disturbed'
                 PROVE  view'[a] = "Open" <=>
                           /\ sessions'[a] # NoSession
                           /\ Contains(told'[newborn[a]], "Opened")
    BY <1>3 DEF ViewFollows
  <2>2. a \notin disturbed \cup upset \/ Lifecycle(Surfaced(after[a]))
    BY <2>1 DEF Settle
  <2>3. a \notin disturbed \cup upset =>
           (view[a] = "Open" <=>
              after[a] # NoSession /\ Contains(told[newborn[a]], "Opened"))
    BY DEF Prepared
  <2>4. P(a) /\ view'[a] = Seen(view[a], Surfaced(after[a]))
    BY <1>1, <1>6
  <2>5. CASE after[a] = NoSession
    <3>1. ~Contains(<<>>, "Opened") /\ ~Contains(<<>>, "Closed")
      BY ContainsShort, Zenon
    <3> QED
      BY <2>2, <2>3, <2>4, <2>5, <3>1 DEF Seen, Lifecycle
  <2>6. CASE after[a] # NoSession
    <3>1. /\ Contains(Surfaced(after[a]), "Opened") <=> Has(after[a], "Opened")
          /\ Contains(Surfaced(after[a]), "Closed")
                <=> after[a].state = "Terminated"
      BY <1>7, <2>6
    <3>2. CASE after[a].state = "Terminated"
      BY <2>4, <2>6, <3>1, <3>2 DEF Seen
    <3>3. CASE after[a].state # "Terminated" /\ Has(after[a], "Opened")
      BY <2>4, <2>6, <3>1, <3>3 DEF Seen
    <3>4. CASE after[a].state # "Terminated" /\ ~Has(after[a], "Opened")
      BY <2>2, <2>3, <2>4, <2>6, <3>1, <3>4 DEF Seen, Lifecycle
    <3> QED
      BY <3>2, <3>3, <3>4
  <2> QED
    BY <2>5, <2>6
<1>13. ASSUME SeedsTell PROVE ToldInOrder'
  <2>1. SUFFICES ASSUME NEW b \in 1 .. n PROVE told'[b] \in Whole
    BY DEF ToldInOrder, Whole, Few
  <2>2. told[b] \in Whole
    <3>1. CASE b \in 1 .. births
      BY <1>13, <3>1 DEF MuxInv, ToldInOrder, Whole, Few
    <3>2. CASE b \in births + 1 .. MaxBirths
      BY <1>2, <3>2 DEF Whole, Few
    <3> QED
      BY <1>2, <3>1, <3>2
  <2>3. CASE \E a \in Addr : after[a] # NoSession /\ newborn[a] = b
    <3>1. PICK a \in Addr : after[a] # NoSession /\ newborn[a] = b
      BY <2>3
    <3>2. told[b] \in Few
      <4>1. ~Contains(told[b], "Closed")
        BY <1>7, <3>1
      <4>2. /\ Contains(<<"Closed">>, "Closed")
            /\ Contains(<<"Opened", "Closed">>, "Closed")
            /\ Contains(<<"Opened", "Data", "Closed">>, "Closed")
        BY ContainsShort, Zenon
      <4> QED
        BY <2>2, <4>1, <4>2, Zenon DEF Whole
    <3>3. PastOf(b) = IF Contains(told[b], "Opened") THEN "Open" ELSE "Fresh"
      BY <1>13 DEF PastOf, Early
    <3>4. told'[b] = Heard(told[b], Surfaced(after[a]))
      BY <1>1, <3>1
    <3>5. PastOf(b) \in Pasts /\ Sound(PastOf(b), after[a])
      BY <1>7, <3>1
    <3> DEFINE past == PastOf(b)  t == told[b]
    <3> HIDE DEF past, t
    <3>6. Heard(t, Surfaced(after[a])) \in Whole
      BY <3>2, <3>3, <3>5, HeardInOrder DEF past, t
    <3> QED
      BY <3>4, <3>6 DEF t
  <2>4. CASE \A a \in Addr : after[a] # NoSession => newborn[a] # b
    <3>1. b \in 1 .. MaxBirths
      BY <1>2
    <3> QED
      BY <1>5, <2>2, <2>4, <3>1
  <2> QED
    BY <2>3, <2>4
<1>14. ASSUME SeedsTell PROVE stray' = {}
  <2>1. SUFFICES ASSUME NEW a \in Addr, a \notin disturbed \cup upset,
                        Contains(Surfaced(after[a]), "Data"), view[a] # "Open",
                        ~Contains(Surfaced(after[a]), "Opened")
                 PROVE  FALSE
    BY DEF Settle
  <2>2. after[a] # NoSession
    <3>1. ~Contains(<<>>, "Data")
      BY ContainsShort, Zenon
    <3> QED
      BY <1>1, <2>1, <3>1
  <2>3. ~Has(after[a], "Opened") /\ after[a].received # <<>>
    BY <1>7, <2>1, <2>2
  <2>4. ~Contains(told[newborn[a]], "Opened")
    BY <2>1, <2>2 DEF Prepared
  <2>5. PastOf(newborn[a]) = "Fresh"
    BY <1>14, <2>4 DEF PastOf, Early
  <2> QED
    BY <1>7, <2>2, <2>3, <2>5
<1> QED
  BY <1>8, <1>9, <1>10, <1>11, <1>12, <1>13, <1>14 DEF MuxInv, SeedsTell

LEMMA LiveIs ==
    ASSUME MuxInv
    PROVE  \A a \in Addr : /\ Live(a) <=> sessions[a] # NoSession
                           /\ Live(a) => sessions[a] \in Sessions
BY SessionOrNone DEF MuxInv, MuxTypes, Live

\* What is known of a session between calls.
LEMMA HousedSound ==
    ASSUME MuxInv, NEW a \in Addr, Live(a)
    PROVE  /\ birth[a] \in 1 .. births /\ PastOf(birth[a]) \in Pasts
           /\ sessions[a] \in Sessions /\ sessions[a] # NoSession
           /\ Sound(PastOf(birth[a]), sessions[a]) /\ Flushed(sessions[a])
           /\ Idle(sessions[a]) /\ ~Surfacing(sessions[a])
           /\ sessions[a].state # "Terminated"
           /\ ~Contains(told[birth[a]], "Closed")
<1>1. sessions[a] # NoSession /\ sessions[a] \in Sessions
  BY LiveIs
<1>2. Housed(a)
  BY DEF MuxInv
<1>3. /\ birth[a] \in 1 .. births
      /\ Sound(PastOf(birth[a]), sessions[a]) /\ Flushed(sessions[a])
      /\ Idle(sessions[a]) /\ ~Contains(told[birth[a]], "Closed")
  BY <1>1, <1>2 DEF Housed
<1>4. ~Surfacing(sessions[a]) /\ sessions[a].state # "Terminated"
  BY <1>3 DEF Surfacing, Idle, Flushed
<1> QED
  BY <1>1, <1>3, <1>4, PastsKnown

\* One session changes where it is.
LEMMA OneChanges ==
    ASSUME MuxInv, NEW a \in Addr, Live(a), NEW s,
           Sound(PastOf(birth[a]), s), Flushed(s)
    PROVE  Prepared([sessions EXCEPT ![a] = s], birth, {}, births, replaced)
<1> DEFINE after == [sessions EXCEPT ![a] = s]
<1>1. s \in Sessions /\ s # NoSession
  BY SessionOrNone DEF Sound
<1>2. /\ sessions \in [Addr -> Sessions \cup {NoSession}]
      /\ birth \in [Addr -> 0 .. MaxBirths] /\ births \in 0 .. MaxBirths
      /\ \A x \in Addr : Housed(x)
  BY DEF MuxInv, MuxTypes
<1>3. /\ after \in [Addr -> Sessions \cup {NoSession}]
      /\ after[a] = s /\ \A x \in Addr : x # a => after[x] = sessions[x]
  BY <1>1, <1>2
<1>4. \A x \in Addr : after[x] # NoSession <=> sessions[x] # NoSession
  BY <1>1, <1>3, HousedSound
<1> HIDE DEF after
<1>5. ASSUME NEW x \in Addr, after[x] # NoSession
      PROVE  /\ birth[x] \in 1 .. births
             /\ Sound(PastOf(birth[x]), after[x]) /\ Flushed(after[x])
             /\ ~Contains(told[birth[x]], "Closed")
  BY <1>2, <1>3, <1>4, <1>5 DEF Housed
<1>6. births \in births .. MaxBirths
  BY <1>2, MultiplexerAssumption DEF MultiplexerAssumption
<1>7. Prepared(after, birth, {}, births, replaced)
  BY <1>2, <1>3, <1>4, <1>5, <1>6
     DEF Prepared, MuxInv, Apart, Accounted, ViewFollows
<1> QED
  BY <1>7 DEF after

\* A session begins, over the one at its address if there is one.
LEMMA OneBegins ==
    ASSUME MuxInv, NEW a \in Addr, births < MaxBirths, NEW s,
           Sound(Early, s), Flushed(s),
           NEW upset, Live(a) => a \in upset,
           NEW gone, replaced \subseteq gone, Live(a) => birth[a] \in gone
    PROVE  Prepared([sessions EXCEPT ![a] = s], Created(a), upset, births + 1,
                    gone)
<1> DEFINE after == [sessions EXCEPT ![a] = s]
           newborn == Created(a)
           n == births + 1
<1>1. s \in Sessions /\ s # NoSession
  BY SessionOrNone DEF Sound
<1>2. /\ sessions \in [Addr -> Sessions \cup {NoSession}]
      /\ birth \in [Addr -> 0 .. MaxBirths] /\ births \in 0 .. MaxBirths
      /\ MaxBirths \in Nat
      /\ \A x \in Addr : Housed(x)
      /\ \A b \in births + 1 .. MaxBirths : told[b] = <<>>
      /\ Apart /\ Accounted /\ ViewFollows
  BY MultiplexerAssumption DEF MuxInv, MuxTypes, MultiplexerAssumption
<1>3. /\ n \in births .. MaxBirths /\ n \in 1 .. MaxBirths /\ n \in 1 .. n
      /\ \A b \in 1 .. births : b \in 1 .. n /\ b # n
      /\ \A b \in 1 .. n : b = n \/ b \in 1 .. births
      /\ told[n] = <<>>
  BY <1>2
<1>4. /\ after \in [Addr -> Sessions \cup {NoSession}]
      /\ after[a] = s /\ \A x \in Addr : x # a => after[x] = sessions[x]
  BY <1>1, <1>2
<1>5. /\ newborn \in [Addr -> 0 .. MaxBirths]
      /\ newborn[a] = n /\ \A x \in Addr : x # a => newborn[x] = birth[x]
  BY <1>2, <1>3 DEF Created
<1>6. /\ ~Contains(told[n], "Closed") /\ ~Contains(told[n], "Opened")
      /\ PastOf(n) = Early
  <2>1. ~Contains(<<>>, "Closed") /\ ~Contains(<<>>, "Opened")
    BY ContainsShort, Zenon
  <2> HIDE DEF n
  <2> QED
    BY <1>3, <2>1, PastsKnown
<1> HIDE DEF after, newborn, n
<1>7. ASSUME NEW x \in Addr, after[x] # NoSession
      PROVE  /\ newborn[x] \in 1 .. n
             /\ Sound(PastOf(newborn[x]), after[x]) /\ Flushed(after[x])
             /\ ~Contains(told[newborn[x]], "Closed")
  <2>1. CASE x = a
    BY <1>3, <1>4, <1>5, <1>6, <2>1
  <2>2. CASE x # a
    BY <1>2, <1>3, <1>4, <1>5, <1>7, <2>2 DEF Housed
  <2> QED
    BY <2>1, <2>2
<1>8. ASSUME NEW x \in Addr, NEW y \in Addr, after[x] # NoSession,
             after[y] # NoSession, newborn[x] = newborn[y]
      PROVE  x = y
  <2>1. \A z \in Addr : z # a /\ after[z] # NoSession => newborn[z] # n
    BY <1>2, <1>3, <1>4, <1>5 DEF Housed
  <2> QED
    BY <1>2, <1>4, <1>5, <1>8, <2>1 DEF Apart
<1>9. ASSUME NEW b \in 1 .. n,
             \A x \in Addr : after[x] # NoSession => newborn[x] # b
      PROVE  Contains(told[b], "Closed") \/ b \in gone
  <2>1. b # n
    BY <1>1, <1>4, <1>5, <1>9
  <2>2. b \in 1 .. births
    BY <1>3, <2>1
  <2>3. CASE Live(a) /\ birth[a] = b
    BY <2>3
  <2>4. CASE ~(Live(a) /\ birth[a] = b)
    <3>1. \A x \in Addr : sessions[x] # NoSession => birth[x] # b
      BY <1>4, <1>5, <1>9, <2>4, LiveIs
    <3> QED
      BY <1>2, <2>2, <3>1 DEF Accounted
  <2> QED
    BY <2>3, <2>4
<1>10. ASSUME NEW x \in Addr \ (disturbed \cup upset)
       PROVE  view[x] = "Open" <=>
                 after[x] # NoSession /\ Contains(told[newborn[x]], "Opened")
  <2>1. view[x] = "Open" <=>
           sessions[x] # NoSession /\ Contains(told[birth[x]], "Opened")
    BY <1>2 DEF ViewFollows
  <2>2. CASE x = a
    <3>1. sessions[x] = NoSession
      BY <2>2, LiveIs
    <3> QED
      BY <1>5, <1>6, <2>1, <2>2, <3>1
  <2>3. CASE x # a
    BY <1>4, <1>5, <2>1, <2>3
  <2> QED
    BY <2>2, <2>3
<1>11. Prepared(after, newborn, upset, n, gone)
  BY <1>3, <1>4, <1>5, <1>7, <1>8, <1>9, <1>10 DEF Prepared
<1> QED
  BY <1>11 DEF after, newborn, n

\* One session moves to an address that has none.
LEMMA OneMoves ==
    ASSUME MuxInv, NEW from \in Addr, ~Live(from), NEW old \in Addr, Live(old)
    PROVE  Prepared([sessions EXCEPT ![from] = sessions[old],
                                     ![old] = NoSession],
                    [birth EXCEPT ![from] = birth[old]], {old, from}, births,
                    replaced)
<1> DEFINE after == [sessions EXCEPT ![from] = sessions[old],
                                     ![old] = NoSession]
           newborn == [birth EXCEPT ![from] = birth[old]]
<1>1. /\ sessions \in [Addr -> Sessions \cup {NoSession}]
      /\ birth \in [Addr -> 0 .. MaxBirths] /\ births \in 0 .. MaxBirths
      /\ births \in births .. MaxBirths
      /\ \A x \in Addr : Housed(x)
      /\ Apart /\ Accounted /\ ViewFollows
  BY MultiplexerAssumption DEF MuxInv, MuxTypes, MultiplexerAssumption
<1>2. /\ from # old /\ sessions[from] = NoSession /\ sessions[old] # NoSession
  BY LiveIs
<1>3. /\ after \in [Addr -> Sessions \cup {NoSession}]
      /\ after[from] = sessions[old] /\ after[old] = NoSession
      /\ \A x \in Addr : x # from /\ x # old => after[x] = sessions[x]
  BY <1>1, <1>2
<1>4. /\ newborn \in [Addr -> 0 .. MaxBirths]
      /\ newborn[from] = birth[old]
      /\ \A x \in Addr : x # from => newborn[x] = birth[x]
  BY <1>1
<1> HIDE DEF after, newborn
<1>5. ASSUME NEW x \in Addr, after[x] # NoSession
      PROVE  \E y \in Addr :
                /\ sessions[y] # NoSession
                /\ after[x] = sessions[y] /\ newborn[x] = birth[y]
                /\ (x = from /\ y = old) \/ (x # from /\ y = x /\ x # old)
  BY <1>2, <1>3, <1>4, <1>5
<1>6. ASSUME NEW x \in Addr, after[x] # NoSession
      PROVE  /\ newborn[x] \in 1 .. births
             /\ Sound(PastOf(newborn[x]), after[x]) /\ Flushed(after[x])
             /\ ~Contains(told[newborn[x]], "Closed")
  BY <1>1, <1>5, <1>6 DEF Housed
<1>7. ASSUME NEW x \in Addr, NEW y \in Addr, after[x] # NoSession,
             after[y] # NoSession, newborn[x] = newborn[y]
      PROVE  x = y
  BY <1>1, <1>5, <1>7 DEF Apart
<1>8. ASSUME NEW b \in 1 .. births,
             \A x \in Addr : after[x] # NoSession => newborn[x] # b
      PROVE  Contains(told[b], "Closed") \/ b \in replaced
  <2>1. \A x \in Addr : sessions[x] # NoSession => birth[x] # b
    BY <1>2, <1>3, <1>4, <1>8
  <2> QED
    BY <1>1, <2>1 DEF Accounted
<1>9. \A x \in Addr \ (disturbed \cup {old, from}) :
         view[x] = "Open" <=>
            after[x] # NoSession /\ Contains(told[newborn[x]], "Opened")
  BY <1>1, <1>3, <1>4 DEF ViewFollows
<1>10. Prepared(after, newborn, {old, from}, births, replaced)
  BY <1>1, <1>3, <1>4, <1>6, <1>7, <1>8, <1>9 DEF Prepared
<1> QED
  BY <1>10 DEF after, newborn

-----------------------------------------------------------------------------
(* The actions. *)

LEMMA DatagramsArrive == Datagrams \subseteq Incoming
<1>1. /\ Data \in Arrivals /\ Bye \in Arrivals
  BY SessionAssumption
     DEF Data, Bye, Arrivals, Effects, Reasons, Channels, SessionAssumption
<1>2. {<<Data>>, <<Bye>>, <<Data, Bye>>} \subseteq Seq(Arrivals)
  <2> DEFINE d == Data  y == Bye  T == Arrivals
  <2>1. d \in T /\ y \in T
    BY <1>1
  <2> HIDE DEF d, y, T
  <2>2. {<<d>>, <<y>>, <<d, y>>} \subseteq Seq(T)
    BY <2>1
  <2> QED
    BY <2>2 DEF d, y, T
<1>3. Keys \subseteq Seeds
  BY DEF Seeds
<1> QED
  BY <1>2, <1>3 DEF Datagrams, Incoming, Bodies

LEMMA InitKeeps == Init => MuxInv
<1>1. SUFFICES ASSUME Init PROVE MuxInv
  OBVIOUS
<1>2. MaxBirths \in Nat
  BY MultiplexerAssumption DEF MultiplexerAssumption
<1>3. \A a \in Addr : sessions[a] = NoSession
  BY <1>1 DEF Init
<1>4. MuxTypes
  BY <1>1, <1>2 DEF Init, MuxTypes
<1>5. (\A a \in Addr : Housed(a)) /\ Apart
  BY <1>3 DEF Housed, Apart
<1>6. Accounted
  BY <1>1 DEF Init, Accounted
<1>7. ViewFollows
  BY <1>1, <1>3 DEF Init, ViewFollows
<1>8. ToldInOrder /\ stray = {}
  BY <1>1 DEF Init, ToldInOrder
<1> QED
  BY <1>4, <1>5, <1>6, <1>7, <1>8 DEF MuxInv

LEMMA ConnectKeeps ==
    ASSUME MuxInv, NEW a \in Addr, NEW id \in Ids, Connect(a, id)
    PROVE  MuxInv'
<1> DEFINE s == SendSessionRequest(New("Client"), id)
           upset == IF Live(a) THEN {a} ELSE {}
           gone == replaced \cup (IF Live(a) THEN {birth[a]} ELSE {})
           after == [sessions EXCEPT ![a] = s]
<1>1. /\ births < MaxBirths /\ births' = births + 1 /\ replaced' = gone
      /\ Settle(after, Created(a), upset)
  BY DEF Connect
<1>2. Sound(Early, s) /\ Flushed(s)
  <2>1. Early \in Pasts /\ Early # "Open"
    BY PastsKnown
  <2>2. Sound(Early, New("Client")) /\ Flushed(New("Client"))
    BY <2>1, NewSound
  <2> QED
    BY <2>1, <2>2, ConnectSound
<1>3. /\ Live(a) => a \in upset
      /\ replaced \subseteq gone /\ (Live(a) => birth[a] \in gone)
  OBVIOUS
<1> HIDE DEF s, upset, gone
<1>4. Prepared(after, Created(a), upset, births + 1, gone)
  BY <1>1, <1>2, <1>3, OneBegins
<1> HIDE DEF after
<1> QED
  BY <1>1, <1>4, SettleKeeps

\* A call on the session at one address.
LEMMA CallKeeps ==
    ASSUME MuxInv, NEW a \in Addr, Live(a), NEW s,
           Sound(PastOf(birth[a]), s), Flushed(s),
           Settle([sessions EXCEPT ![a] = s], birth, {}),
           UNCHANGED <<births, replaced>>
    PROVE  MuxInv'
<1> DEFINE after == [sessions EXCEPT ![a] = s]
<1>1. Prepared(after, birth, {}, births, replaced)
  BY OneChanges
<1>2. Settle(after, birth, {}) /\ births' = births /\ replaced' = replaced
  OBVIOUS
<1> HIDE DEF after
<1> QED
  BY <1>1, <1>2, SettleKeeps

LEMMA EnqueueKeeps ==
    ASSUME MuxInv, NEW a \in Addr, EnqueueDataOn(a)
    PROVE  MuxInv'
<1> DEFINE past == PastOf(birth[a])
<1>1. \E s : /\ Enqueue(a, s)
             /\ \/ s = EnqueueReliable(sessions[a], 0)
                \/ \E tooLarge \in BOOLEAN :
                      s = EnqueueUnreliable(sessions[a], tooLarge)
  BY DEF EnqueueDataOn
<1>2. PICK s : /\ Enqueue(a, s)
               /\ \/ s = EnqueueReliable(sessions[a], 0)
                  \/ \E tooLarge \in BOOLEAN :
                        s = EnqueueUnreliable(sessions[a], tooLarge)
  BY <1>1
<1>3. /\ Live(a) /\ Settle([sessions EXCEPT ![a] = s], birth, {})
      /\ UNCHANGED <<births, replaced>>
  BY <1>2 DEF Enqueue
<1>4. past \in Pasts /\ Sound(past, sessions[a]) /\ Flushed(sessions[a])
  BY <1>3, HousedSound
<1>5. 0 \in Channels
  BY SessionAssumption DEF Channels, SessionAssumption
<1> HIDE DEF past
<1>6. Sound(past, s) /\ Flushed(s)
  <2>1. CASE s = EnqueueReliable(sessions[a], 0)
    BY <1>4, <1>5, <2>1, EnqueueReliableSound
  <2>2. CASE \E tooLarge \in BOOLEAN :
                s = EnqueueUnreliable(sessions[a], tooLarge)
    BY <1>4, <2>2, EnqueueUnreliableSound
  <2> QED
    BY <1>2, <2>1, <2>2
<1> QED
  BY <1>3, <1>6, CallKeeps DEF past

LEMMA TerminateKeeps ==
    ASSUME MuxInv, NEW a \in Addr, TerminateAt(a)
    PROVE  MuxInv'
<1> DEFINE past == PastOf(birth[a])
           s == Refuse(sessions[a], "Application")
<1>1. /\ Live(a) /\ Settle([sessions EXCEPT ![a] = s], birth, {})
      /\ UNCHANGED <<births, replaced>>
  BY DEF TerminateAt
<1>2. /\ past \in Pasts /\ Sound(past, sessions[a])
      /\ sessions[a].state # "Terminated"
  BY <1>1, HousedSound
<1> HIDE DEF past
<1>3. Sound(past, s) /\ Flushed(s)
  <2>1. Sound(past, s) /\ s.state = "Terminated"
    BY <1>2, RefuseSound DEF Reasons
  <2> QED
    BY <2>1 DEF Sound, LastWords
<1> HIDE DEF s
<1> QED
  BY <1>1, <1>3, CallKeeps DEF past

LEMMA IncomingKeeps ==
    ASSUME MuxInv, NEW a \in Addr, NEW datagram \in Datagrams,
           ProcessIncomingAt(a, datagram)
    PROVE  MuxInv'
<1> DEFINE begun == Begun(a, datagram)
<1>1. PICK key \in IF datagram.op = "SessionRequest" THEN Keys ELSE {NoKey} :
         Settle([sessions EXCEPT ![a] = ProcessIncoming(begun, datagram, key)],
                IF Live(a) THEN birth ELSE Created(a), {})
  BY DEF ProcessIncomingAt
<1>2. /\ begun.state # "None"
      /\ births' = births + (IF Live(a) THEN 0 ELSE 1) /\ births' <= MaxBirths
      /\ replaced' = replaced
  BY DEF ProcessIncomingAt
<1>3. datagram \in Incoming
  BY DatagramsArrive
<1>4. datagram.op = "SessionRequest" => key \in Keys
  OBVIOUS
<1>5. births \in Nat /\ MaxBirths \in Nat
  BY MultiplexerAssumption DEF MuxInv, MuxTypes, MultiplexerAssumption
<1>6. CASE Live(a)
  <2> DEFINE past == PastOf(birth[a])
             s == sessions[a]
             r == ProcessIncoming(s, datagram, key)
  <2>1. begun = s /\ births' = births
    BY <1>2, <1>5, <1>6 DEF Begun
  <2>2. Settle([sessions EXCEPT ![a] = r], birth, {})
    BY <1>1, <1>6, <2>1
  <2>3. /\ past \in Pasts /\ s \in Sessions /\ Sound(past, s)
        /\ s.state # "Terminated" /\ ~Surfacing(s)
    BY <1>6, HousedSound
  <2>4. \/ past = "Lax" \/ s.state = "Running"
        \/ ~(datagram.op = "Contextual" /\ datagram.key = s.key)
    <3>1. SUFFICES ASSUME past # "Lax", s.state # "Running",
                          datagram.op = "Contextual"
                   PROVE  datagram.key # s.key
      OBVIOUS
    <3>2. s.state = "Negotiating"
      BY <2>3, <3>1 DEF Sessions
    <3>3. past # "Open" /\ s.key = NoKey
      BY <2>3, <3>2 DEF Sound, Told
    <3>4. SeedsTell
      BY <3>1, <3>3 DEF PastOf, Early
    <3>5. datagram.key \in Keys
      BY <3>1 DEF Datagrams
    <3> QED
      BY <3>3, <3>4, <3>5 DEF SeedsTell
  <2> HIDE DEF past, s
  <2>5. Sound(past, r) /\ Flushed(r)
    BY <1>3, <1>4, <2>3, <2>4, IncomingSound
  <2> HIDE DEF r
  <2> QED
    BY <1>2, <1>6, <2>1, <2>2, <2>5, CallKeeps DEF past
<1>7. CASE ~Live(a)
  <2> DEFINE s == New("Server")
             r == ProcessIncoming(s, datagram, key)
             after == [sessions EXCEPT ![a] = r]
  <2>1. datagram.op = "SessionRequest" /\ begun = s
    <3>1. sessions[a].state = "None"
      BY <1>7 DEF Live
    <3> QED
      BY <1>2, <1>7, <3>1 DEF Begun
  <2>2. /\ Settle(after, Created(a), {}) /\ births' = births + 1
        /\ births < MaxBirths
    BY <1>1, <1>2, <1>5, <1>7, <2>1
  <2>3. Early \in Pasts /\ Early # "Open"
    BY PastsKnown
  <2>4. Sound(Early, s) /\ Flushed(s)
    BY <2>3, NewSound
  <2>5. s.state = "Negotiating" /\ ~Surfacing(s)
    <3>1. s.state = "Negotiating" /\ s.received = <<>>
      BY DEF New
    <3> QED
      BY <2>4, <3>1 DEF Surfacing, Flushed
  <2> HIDE DEF s
  <2>6. Sound(Early, r) /\ Flushed(r)
    BY <1>3, <1>4, <2>1, <2>3, <2>4, <2>5, IncomingSound
  <2> HIDE DEF r
  <2>7. Prepared(after, Created(a), {}, births + 1, replaced)
    BY <1>7, <2>2, <2>6, OneBegins
  <2> HIDE DEF after
  <2> QED
    BY <1>2, <2>2, <2>7, SettleKeeps
<1> QED
  BY <1>6, <1>7

LEMMA RemapKeeps ==
    ASSUME MuxInv, NEW from \in Addr, NEW id, NEW key,
           HandleRemap(from, id, key)
    PROVE  MuxInv'
<1>1. /\ ~Live(from) /\ births' = births /\ replaced' = replaced
      /\ \E old \in Addr :
            /\ Live(old)
            /\ Settle([sessions EXCEPT ![from] = sessions[old],
                                       ![old] = NoSession],
                      [birth EXCEPT ![from] = birth[old]], {old, from})
  BY DEF HandleRemap
<1>2. PICK old \in Addr :
            /\ Live(old)
            /\ Settle([sessions EXCEPT ![from] = sessions[old],
                                       ![old] = NoSession],
                      [birth EXCEPT ![from] = birth[old]], {old, from})
  BY <1>1
<1> DEFINE after == [sessions EXCEPT ![from] = sessions[old],
                                     ![old] = NoSession]
           newborn == [birth EXCEPT ![from] = birth[old]]
<1>3. Prepared(after, newborn, {old, from}, births, replaced)
  BY <1>1, <1>2, OneMoves
<1>4. Settle(after, newborn, {old, from})
  BY <1>2
<1> HIDE DEF after, newborn
<1> QED
  BY <1>1, <1>3, <1>4, SettleKeeps

LEMMA TickKeeps ==
    ASSUME MuxInv, RunTickAll
    PROVE  MuxInv'
<1> DEFINE after == [a \in Addr |-> IF Live(a) THEN RunTick(sessions[a])
                                               ELSE NoSession]
<1>1. /\ Settle(after, birth, {}) /\ births' = births /\ replaced' = replaced
  BY DEF RunTickAll
<1>2. \A a \in Addr : after[a] = IF Live(a) THEN RunTick(sessions[a])
                                            ELSE NoSession
  OBVIOUS
<1>3. ASSUME NEW a \in Addr, Live(a)
      PROVE  /\ birth[a] \in 1 .. births
             /\ Sound(PastOf(birth[a]), after[a]) /\ Flushed(after[a])
             /\ ~Contains(told[birth[a]], "Closed")
  <2> DEFINE past == PastOf(birth[a])
  <2>1. /\ past \in Pasts /\ Sound(past, sessions[a])
        /\ sessions[a].state # "Terminated"
        /\ birth[a] \in 1 .. births /\ ~Contains(told[birth[a]], "Closed")
    BY <1>3, HousedSound
  <2> HIDE DEF past
  <2>2. Sound(past, RunTick(sessions[a])) /\ Flushed(RunTick(sessions[a]))
    BY <2>1, TickSound
  <2> QED
    BY <1>2, <1>3, <2>1, <2>2 DEF past
<1>4. \A a \in Addr :
         /\ Live(a) => after[a] \in Sessions /\ after[a] # NoSession
         /\ ~Live(a) => after[a] = NoSession
  BY <1>2, <1>3, SessionOrNone DEF Sound
<1>5. \A a \in Addr : after[a] # NoSession <=> sessions[a] # NoSession
  BY <1>4, LiveIs
<1>6. after \in [Addr -> Sessions \cup {NoSession}]
  BY <1>4
<1> HIDE DEF after
<1>7. Prepared(after, birth, {}, births, replaced)
  <2>1. /\ birth \in [Addr -> 0 .. MaxBirths]
        /\ births \in births .. MaxBirths
        /\ Apart /\ Accounted /\ ViewFollows
    BY MultiplexerAssumption DEF MuxInv, MuxTypes, MultiplexerAssumption
  <2> QED
    BY <1>3, <1>4, <1>5, <1>6, <2>1
       DEF Prepared, Apart, Accounted, ViewFollows
<1> QED
  BY <1>1, <1>7, SettleKeeps

LEMMA AgeKeepsIdle ==
    ASSUME NEW s \in Sessions, Idle(s)
    PROVE  Idle(Age(s))
<1>1. /\ Age(s).state = s.state /\ Age(s).outgoing = s.outgoing
      /\ Age(s).received = s.received /\ Age(s).events = s.events
  BY DEF Age, Sessions
<1> QED
  BY <1>1 DEF Idle

LEMMA ElapseKeeps ==
    ASSUME MuxInv, Elapse
    PROVE  MuxInv'
<1>1. /\ sessions' = [a \in Addr |-> IF Live(a) THEN Age(sessions[a])
                                               ELSE NoSession]
      /\ stray' = {}
      /\ UNCHANGED <<births, birth, told, view, disturbed, replaced>>
  BY DEF Elapse
<1>2. \A b : PastOf(b)' = PastOf(b)
  BY <1>1 DEF PastOf, Early, SeedsTell
<1>3. ASSUME NEW a \in Addr, Live(a)
      PROVE  /\ sessions'[a] \in Sessions /\ sessions'[a] # NoSession
             /\ Sound(PastOf(birth[a]), sessions'[a]) /\ Flushed(sessions'[a])
             /\ Idle(sessions'[a])
             /\ birth[a] \in 1 .. births /\ ~Contains(told[birth[a]], "Closed")
  <2> DEFINE past == PastOf(birth[a])
  <2>1. /\ past \in Pasts /\ Sound(past, sessions[a])
        /\ Flushed(sessions[a]) /\ Idle(sessions[a])
        /\ sessions[a].state # "Terminated" /\ sessions[a] \in Sessions
        /\ birth[a] \in 1 .. births /\ ~Contains(told[birth[a]], "Closed")
    BY <1>3, HousedSound
  <2> HIDE DEF past
  <2>2. Sound(past, Age(sessions[a])) /\ Flushed(Age(sessions[a]))
    BY <2>1, AgeSound
  <2>3. Idle(Age(sessions[a]))
    BY <2>1, AgeKeepsIdle
  <2>4. Age(sessions[a]) \in Sessions /\ Age(sessions[a]) # NoSession
    BY <2>2, SessionOrNone DEF Sound
  <2> QED
    BY <1>1, <1>3, <2>1, <2>2, <2>3, <2>4 DEF past
<1>4. \A a \in Addr : ~Live(a) => sessions'[a] = NoSession
  BY <1>1
<1>5. \A a \in Addr : sessions'[a] # NoSession <=> sessions[a] # NoSession
  BY <1>3, <1>4, LiveIs
<1>6. \A a \in Addr : Housed(a)'
  <2> TAKE a \in Addr
  <2>1. SUFFICES ASSUME sessions'[a] # NoSession
                 PROVE  /\ birth[a] \in 1 .. births
                        /\ Sound(PastOf(birth[a]), sessions'[a])
                        /\ Flushed(sessions'[a]) /\ Idle(sessions'[a])
                        /\ ~Contains(told[birth[a]], "Closed")
    BY <1>1, <1>2 DEF Housed, PastOf, Early, SeedsTell
  <2>2. Live(a)
    BY <1>4, <2>1
  <2> QED
    BY <1>3, <2>2
<1>7. MuxTypes'
  <2>1. sessions' \in [Addr -> Sessions \cup {NoSession}]
    <3>1. \A a \in Addr : sessions'[a] \in Sessions \cup {NoSession}
      BY <1>3, <1>4
    <3> QED
      BY <1>1, <3>1
  <2> QED
    BY <1>1, <2>1 DEF MuxInv, MuxTypes
<1>8. Apart' /\ Accounted' /\ ViewFollows'
  BY <1>1, <1>5 DEF MuxInv, Apart, Accounted, ViewFollows
<1>9. SeedsTell => ToldInOrder' /\ stray' = {}
  BY <1>1 DEF MuxInv, ToldInOrder
<1> QED
  BY <1>6, <1>7, <1>8, <1>9 DEF MuxInv, SeedsTell

LEMMA NextKeeps == MuxInv /\ [Next]_vars => MuxInv'
<1> SUFFICES ASSUME MuxInv, [Next]_vars PROVE MuxInv'
  OBVIOUS
<1>1. ASSUME NEW a \in Addr, NEW id \in Ids, Connect(a, id) PROVE MuxInv'
  BY <1>1, ConnectKeeps
<1>2. ASSUME NEW a \in Addr, EnqueueDataOn(a) PROVE MuxInv'
  BY <1>2, EnqueueKeeps
<1>3. ASSUME NEW a \in Addr, TerminateAt(a) PROVE MuxInv'
  BY <1>3, TerminateKeeps
<1>4. ASSUME NEW a \in Addr, NEW datagram \in Datagrams,
             ProcessIncomingAt(a, datagram)
      PROVE  MuxInv'
  BY <1>4, IncomingKeeps
<1>5. ASSUME NEW a \in Addr, NEW id \in Ids, NEW key \in Keys \cup {NoKey},
             HandleRemap(a, id, key)
      PROVE  MuxInv'
  BY <1>5, RemapKeeps
<1>6. CASE RunTickAll
  BY <1>6, TickKeeps
<1>7. CASE Elapse
  BY <1>7, ElapseKeeps
<1>8. CASE UNCHANGED vars
  <2>1. UNCHANGED <<sessions, births, birth, told, view, disturbed, stray,
                    replaced>>
    BY <1>8 DEF vars, history
  <2>2. \A b : PastOf(b)' = PastOf(b)
    BY <2>1 DEF PastOf, Early, SeedsTell
  <2>3. \A a \in Addr : Housed(a)'
    BY <2>1, <2>2 DEF MuxInv, Housed, PastOf, Early, SeedsTell
  <2>4. /\ MuxTypes' /\ Apart' /\ Accounted' /\ ViewFollows'
        /\ ToldInOrder' = ToldInOrder
    BY <2>1 DEF MuxInv, MuxTypes, Apart, Accounted, ViewFollows, ToldInOrder
  <2> QED
    BY <2>1, <2>3, <2>4 DEF MuxInv, SeedsTell
<1> QED
  BY <1>1, <1>2, <1>3, <1>4, <1>5, <1>6, <1>7, <1>8 DEF Next

-----------------------------------------------------------------------------
(* Where a session has its home. *)

LEMMA SettleEmpties ==
    ASSUME NEW after, NEW newborn, NEW upset,
           Settle(after, newborn, upset), NEW x \in Addr, Live(x)'
    PROVE  after[x] # NoSession /\ birth'[x] = newborn[x]
<1>1. sessions'[x] = Kept(after[x]) /\ birth' = newborn
  BY DEF Settle
<1>2. Kept(NoSession) = NoSession /\ NoSession.state = "None"
  BY SessionOrNone DEF Kept
<1> QED
  BY <1>1, <1>2 DEF Live

\* No call but a remap gives a session another address.
LEMMA StaysHome ==
    ASSUME MuxInv, NEW b \in 1 .. births, NEW x \in Addr,
           Live(x)', birth'[x] = b,
           \/ \E a \in Addr :
                 \/ \E id \in Ids : Connect(a, id)
                 \/ EnqueueDataOn(a)
                 \/ TerminateAt(a)
                 \/ \E datagram \in Datagrams : ProcessIncomingAt(a, datagram)
           \/ RunTickAll
           \/ Elapse
    PROVE  Live(x) /\ birth[x] = b
<1>1. /\ sessions \in [Addr -> Sessions \cup {NoSession}]
      /\ birth \in [Addr -> 0 .. MaxBirths]
      /\ births \in Nat /\ b # births + 1
  BY MultiplexerAssumption DEF MuxInv, MuxTypes, MultiplexerAssumption
<1>2. ASSUME NEW a \in Addr, NEW s, NEW upset,
             Settle([sessions EXCEPT ![a] = s], Created(a), upset)
      PROVE  Live(x) /\ birth[x] = b
  <2> DEFINE after == [sessions EXCEPT ![a] = s]
             newborn == Created(a)
  <2>1. \A y \in Addr : y # a => after[y] = sessions[y] /\ newborn[y] = birth[y]
    BY <1>1 DEF Created
  <2>2. newborn[a] = births + 1
    BY <1>1 DEF Created
  <2> HIDE DEF after, newborn
  <2>3. after[x] # NoSession /\ newborn[x] = b
    BY <1>2, SettleEmpties DEF after, newborn
  <2>4. x # a
    BY <1>1, <2>2, <2>3
  <2> QED
    BY <2>1, <2>3, <2>4, LiveIs
<1>3. ASSUME NEW a \in Addr, Live(a), NEW s,
             Settle([sessions EXCEPT ![a] = s], birth, {})
      PROVE  Live(x) /\ birth[x] = b
  <2> DEFINE after == [sessions EXCEPT ![a] = s]
  <2>1. \A y \in Addr : y # a => after[y] = sessions[y]
    BY <1>1
  <2> HIDE DEF after
  <2>2. after[x] # NoSession /\ birth[x] = b
    BY <1>3, SettleEmpties DEF after
  <2> QED
    BY <1>3, <2>1, <2>2, LiveIs
<1>4. CASE \E a \in Addr, id \in Ids : Connect(a, id)
  BY <1>2, <1>4 DEF Connect
<1>5. CASE \E a \in Addr : EnqueueDataOn(a)
  BY <1>3, <1>5 DEF EnqueueDataOn, Enqueue
<1>6. CASE \E a \in Addr : TerminateAt(a)
  BY <1>3, <1>6 DEF TerminateAt
<1>7. CASE \E a \in Addr, datagram \in Datagrams :
              ProcessIncomingAt(a, datagram)
  <2>1. PICK a \in Addr, datagram \in Datagrams : ProcessIncomingAt(a, datagram)
    BY <1>7
  <2>2. \E s : Settle([sessions EXCEPT ![a] = s],
                      IF Live(a) THEN birth ELSE Created(a), {})
    BY <2>1 DEF ProcessIncomingAt
  <2>3. CASE Live(a)
    BY <1>3, <2>2, <2>3
  <2>4. CASE ~Live(a)
    BY <1>2, <2>2, <2>4
  <2> QED
    BY <2>3, <2>4
<1>8. CASE RunTickAll
  <2> DEFINE after == [a \in Addr |-> IF Live(a) THEN RunTick(sessions[a])
                                                 ELSE NoSession]
  <2>1. Settle(after, birth, {})
    BY <1>8 DEF RunTickAll
  <2>2. ~Live(x) => after[x] = NoSession
    OBVIOUS
  <2> HIDE DEF after
  <2> QED
    BY <2>1, <2>2, SettleEmpties
<1>9. CASE Elapse
  BY <1>9, SessionOrNone DEF Elapse, Live
<1> QED
  BY <1>4, <1>5, <1>6, <1>7, <1>8, <1>9

\* A remap, which gives one session another address, moves it as it was.
LEMMA MovesWhole ==
    ASSUME MuxInv, NEW b \in 1 .. births, NEW old \in Homes(b),
           ~(Live(old) /\ birth[old] = b)',
           NEW new \in Addr, (Live(new) /\ birth[new] = b)',
           NEW from \in Addr, NEW id, NEW key, HandleRemap(from, id, key)
    PROVE  /\ SameHost(old, new) /\ ~Live(new)
           /\ sessions'[new] = sessions[old]
           /\ told'[b] = told[b]
<1>1. /\ ~Live(from)
      /\ \E o \in Addr :
            /\ Live(o) /\ SameHost(o, from)
            /\ Settle([sessions EXCEPT ![from] = sessions[o], ![o] = NoSession],
                      [birth EXCEPT ![from] = birth[o]], {o, from})
  BY DEF HandleRemap
<1>2. PICK o \in Addr :
            /\ Live(o) /\ SameHost(o, from)
            /\ Settle([sessions EXCEPT ![from] = sessions[o], ![o] = NoSession],
                      [birth EXCEPT ![from] = birth[o]], {o, from})
  BY <1>1
<1> DEFINE after == [sessions EXCEPT ![from] = sessions[o], ![o] = NoSession]
           newborn == [birth EXCEPT ![from] = birth[o]]
<1>3. /\ sessions \in [Addr -> Sessions \cup {NoSession}]
      /\ birth \in [Addr -> 0 .. MaxBirths] /\ Apart
  BY DEF MuxInv, MuxTypes
<1>4. /\ from # o /\ after[from] = sessions[o] /\ after[o] = NoSession
      /\ newborn[from] = birth[o]
      /\ \A y \in Addr : y # from /\ y # o =>
            after[y] = sessions[y] /\ newborn[y] = birth[y]
  BY <1>1, <1>2, <1>3
<1>5. /\ Settle(after, newborn, {o, from})
      /\ Prepared(after, newborn, {o, from}, births, replaced)
  BY <1>1, <1>2, OneMoves
<1> HIDE DEF after, newborn
<1>6. after[new] # NoSession /\ newborn[new] = b
  BY <1>5, SettleEmpties
<1>7. Live(old) /\ birth[old] = b /\ old \in Addr
  BY DEF Homes
<1>8. new = from
  <2>1. SUFFICES ASSUME new # from PROVE FALSE
    OBVIOUS
  <2>2. sessions[new] # NoSession /\ birth[new] = b
    BY <1>4, <1>6, <2>1
  <2>3. new = old
    BY <1>3, <1>7, <2>2, LiveIs DEF Apart
  <2> QED
    BY <2>3
<1>9. o = old
  BY <1>2, <1>3, <1>4, <1>6, <1>7, <1>8, LiveIs DEF Apart
<1>10. /\ after[new] = sessions[old] /\ Idle(sessions[old])
       /\ sessions[old] \in Sessions /\ sessions[old] # NoSession
  BY <1>4, <1>7, <1>8, <1>9, HousedSound
<1> DEFINE s == sessions[old]
<1>11. Surfaced(s) = <<>> /\ Drained(s) = s /\ s.state # "Terminated"
  <2>1. /\ ~Has(s, "Opened") /\ ~Has(s, "Closed") /\ s.received = <<>>
        /\ s.state # "Terminated"
    BY <1>10 DEF Has, Idle
  <2>2. Surfaced(s) = <<>>
    BY <2>1, SurfacedCases, Zenon
  <2>3. Drained(s) = s
    BY <1>10 DEF Idle, Drained, Sessions
  <2> QED
    BY <2>1, <2>2, <2>3
<1>12. /\ told'[b] = Heard(told[b], Surfaced(after[new]))
       /\ sessions'[new] = IF after[new].state = "Terminated"
                           THEN NoSession ELSE Drained(after[new])
  BY <1>5, <1>6, OneSettles
<1>13. told[b] \in Seq(Notes)
  BY MultiplexerAssumption DEF MuxInv, MuxTypes, MultiplexerAssumption
<1>14. Heard(told[b], <<>>) = told[b]
  <2>1. <<>> \in Seq(Notes)
    OBVIOUS
  <2> QED
    BY <1>13, <2>1, HeardKeeps
<1> QED
  BY <1>1, <1>2, <1>8, <1>9, <1>10, <1>11, <1>12, <1>14

-----------------------------------------------------------------------------
(* The theorems. *)

LEMMA MuxAlways == Spec => []MuxInv
BY InitKeeps, NextKeeps, PTL DEF Spec

\* No session is lost between the calls that create, move, replace, end and
\* sweep sessions (src/socket.rs): whoever sends whatever, each one created has
\* one address, or its application was told that it closed, or connect put
\* another one over it.
THEOREM MuxLosesNoSession == Spec => []NoSessionVanishes
<1>1. MuxInv => NoSessionVanishes
  <2>1. SUFFICES ASSUME MuxInv, NEW b \in 1 .. births
                 PROVE  \/ /\ Cardinality(Homes(b)) = 1
                           /\ ~Contains(told[b], "Closed")
                        \/ /\ Homes(b) = {}
                           /\ Contains(told[b], "Closed") \/ b \in replaced
    BY DEF NoSessionVanishes
  <2>2. CASE \E a \in Addr : Live(a) /\ birth[a] = b
    <3>1. PICK a \in Addr : Live(a) /\ birth[a] = b
      BY <2>2
    <3>2. Homes(b) = {a}
      BY <2>1, <3>1, LiveIs DEF Homes, MuxInv, Apart
    <3>3. Cardinality(Homes(b)) = 1
      BY <3>2, FS_Singleton
    <3> QED
      BY <2>1, <3>1, <3>3, HousedSound
  <2>3. CASE \A a \in Addr : Live(a) => birth[a] # b
    <3>1. Homes(b) = {}
      BY <2>3 DEF Homes
    <3>2. Contains(told[b], "Closed") \/ b \in replaced
      BY <2>1, <2>3, LiveIs DEF MuxInv, Accounted
    <3> QED
      BY <3>1, <3>2
  <2> QED
    BY <2>2, <2>3
<1> QED
  BY <1>1, MuxAlways, PTL

\* handle_remap (src/socket.rs), the only call to change the address of a
\* session, moves it within its host, onto an address that has none, and whole:
\* its state, its keys and all that it has queued.
THEOREM MuxRemapsWhole == Spec => RemapMovesWhole
<1> DEFINE Moves ==
      \A b \in 1 .. births : \A old \in Homes(b) :
          ~(Live(old) /\ birth[old] = b)' =>
              \A new \in Addr : (Live(new) /\ birth[new] = b)' =>
                  /\ SameHost(old, new) /\ ~Live(new)
                  /\ sessions'[new] = sessions[old]
                  /\ told'[b] = told[b]
<1>1. MuxInv /\ Next => Moves
  <2> SUFFICES ASSUME MuxInv, Next,
                      NEW b \in 1 .. births, NEW old \in Homes(b),
                      ~(Live(old) /\ birth[old] = b)',
                      NEW new \in Addr, (Live(new) /\ birth[new] = b)'
               PROVE  /\ SameHost(old, new) /\ ~Live(new)
                      /\ sessions'[new] = sessions[old]
                      /\ told'[b] = told[b]
    OBVIOUS
  <2>1. CASE \E from \in Addr, id \in Ids, key \in Keys \cup {NoKey} :
                HandleRemap(from, id, key)
    BY <2>1, MovesWhole
  <2>2. CASE ~\E from \in Addr, id \in Ids, key \in Keys \cup {NoKey} :
                 HandleRemap(from, id, key)
    <3>1. Live(new) /\ birth[new] = b
      BY <2>2, StaysHome DEF Next
    <3>2. new = old
      BY <3>1, LiveIs DEF Homes, MuxInv, Apart
    <3> QED
      BY <3>2
  <2> QED
    BY <2>1, <2>2
<1>2. MuxInv /\ [Next]_vars => [Moves]_vars
  BY <1>1
<1> QED
  BY <1>2, MuxAlways, PTL DEF Spec, RemapMovesWhole

\* Whatever call drains it (drain_into, src/socket.rs), each session is told as
\* opened once, before its data, and as closed last, even if it moved: as long
\* as no packet carries the seed with which a session starts.
THEOREM MuxTellsInOrder ==
    ASSUME SeedsTell
    PROVE  Spec => []ToldInOrder
<1>1. MuxInv => ToldInOrder
  BY DEF MuxInv
<1> QED
  BY <1>1, MuxAlways, PTL

\* Under the same condition an application that keeps its state by address, as
\* the comment on drain_into (src/socket.rs) suggests, is right about every
\* address that no connect and no remap has disturbed since its last event.
THEOREM MuxViewIsTrue ==
    ASSUME SeedsTell
    PROVE  Spec => []ViewIsTrue
<1>1. MuxInv => ViewIsTrue
  BY LiveIs DEF MuxInv, ViewFollows, ViewIsTrue
<1> QED
  BY <1>1, MuxAlways, PTL
=============================================================================
