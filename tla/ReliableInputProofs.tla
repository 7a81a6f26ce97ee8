------------------------- MODULE ReliableInputProofs -------------------------
(***************************************************************************)
(* The receiving channel, for every window, remote and network.            *)
(***************************************************************************)
EXTENDS ReliableInput, SequenceTheorems, WellFoundedInduction, TLAPS

-----------------------------------------------------------------------------
(* What the reconstruction of a sequence number returns, for every modulus *)
(* and every window, and facts about numbers.                              *)

\* Every count is a multiple of SeqSpace plus the number it travels as.
LEMMA WireDecomposition ==
    ASSUME NEW s \in Nat
    PROVE  /\ Wire(s) \in 0 .. SeqSpace - 1
           /\ \E k \in Int : s = k * SeqSpace + Wire(s)
<1>1. SeqSpace \in Nat /\ SeqSpace > 0
  BY SeqSpaceAssumption
<1>2. /\ s % SeqSpace \in 0 .. SeqSpace - 1
      /\ s \div SeqSpace \in Int
      /\ s = (s \div SeqSpace) * SeqSpace + (s % SeqSpace)
  BY <1>1
<1> QED
  BY <1>2 DEF Wire

\* A number comes back as the count it was made from whenever that count is
\* within `max` of the receiver's position and two windows fit in the number
\* space: the hypothesis both channels rest on.
THEOREM DecodeInWindow ==
    ASSUME NEW s \in Nat, NEW current \in Nat, NEW max \in Nat,
           2 * max < SeqSpace,
           current - max <= s, s <= current + max
    PROVE  TrueIncomingSequence(Wire(s), current, max) = s
<1> DEFINE ws == Wire(s)
           wc == Wire(current)
<1>1. SeqSpace \in Nat /\ SeqSpace > 0
  BY SeqSpaceAssumption
<1>2. ws \in 0 .. SeqSpace - 1 /\ wc \in 0 .. SeqSpace - 1
  BY WireDecomposition
<1>3. PICK j \in Int : s = j * SeqSpace + ws
  BY WireDecomposition
<1>4. PICK k \in Int : current = k * SeqSpace + wc
  BY WireDecomposition
<1> DEFINE d == j - k
<1>5. d \in Int /\ s - current = d * SeqSpace + ws - wc
  <2>1. d * SeqSpace = j * SeqSpace - k * SeqSpace
    BY <1>1
  <2> QED
    BY <2>1, <1>1, <1>2, <1>3, <1>4
<1>6. d \in {-1, 0, 1}
  <2>1. CASE d >= 2
    <3>1. d * SeqSpace >= 2 * SeqSpace
      BY <2>1, <1>1, <1>5
    <3> QED
      BY <3>1, <1>1, <1>2, <1>5
  <2>2. CASE d <= -2
    <3>1. d * SeqSpace <= -2 * SeqSpace
      BY <2>2, <1>1, <1>5
    <3> QED
      BY <3>1, <1>1, <1>2, <1>5
  <2> QED
    BY <2>1, <2>2, <1>5
<1>7. ws + (current - wc) = s - d * SeqSpace
  BY <1>1, <1>2, <1>5
<1>8. TrueIncomingSequence(ws, current, max) = s
  <2>1. CASE d = 0
    BY <2>1, <1>1, <1>2, <1>7, SMTT(30) DEF TrueIncomingSequence
  <2>2. CASE d = 1
    BY <2>2, <1>1, <1>2, <1>7, SMTT(30) DEF TrueIncomingSequence
  <2>3. CASE d = -1
    BY <2>3, <1>1, <1>2, <1>7, SMTT(30) DEF TrueIncomingSequence
  <2> QED
    BY <1>6, <2>1, <2>2, <2>3
<1> QED
  BY <1>8

\* Outside the window, as long as the number space is not used up around it,
\* a number is read as a count beyond the window: it is never taken for one
\* within it.
THEOREM DecodeOutsideWindow ==
    ASSUME NEW s \in Nat, NEW current \in Nat, NEW max \in Nat,
           2 * max < SeqSpace,
           s < current - max \/ s > current + max,
           current + max < s + SeqSpace,
           s < current - max + SeqSpace
    PROVE  TrueIncomingSequence(Wire(s), current, max) > current + max
<1> DEFINE ws == Wire(s)
           wc == Wire(current)
<1>1. SeqSpace \in Nat /\ SeqSpace > 0
  BY SeqSpaceAssumption
<1>2. ws \in 0 .. SeqSpace - 1 /\ wc \in 0 .. SeqSpace - 1
  BY WireDecomposition
<1>3. PICK j \in Int : s = j * SeqSpace + ws
  BY WireDecomposition
<1>4. PICK k \in Int : current = k * SeqSpace + wc
  BY WireDecomposition
<1> DEFINE d == j - k
<1>5. d \in Int /\ s - current = d * SeqSpace + ws - wc
  <2>1. d * SeqSpace = j * SeqSpace - k * SeqSpace
    BY <1>1
  <2> QED
    BY <2>1, <1>1, <1>2, <1>3, <1>4
<1>6. d \in {-1, 0, 1}
  <2>1. CASE d >= 2
    <3>1. d * SeqSpace >= 2 * SeqSpace
      BY <2>1, <1>1, <1>5
    <3> QED
      BY <3>1, <1>1, <1>2, <1>5
  <2>2. CASE d <= -2
    <3>1. d * SeqSpace <= -2 * SeqSpace
      BY <2>2, <1>1, <1>5
    <3> QED
      BY <3>1, <1>1, <1>2, <1>5
  <2> QED
    BY <2>1, <2>2, <1>5
<1>7. ws + (current - wc) = s - d * SeqSpace
  BY <1>1, <1>2, <1>5
<1>8. TrueIncomingSequence(ws, current, max) > current + max
  <2>1. CASE d = 0
    BY <2>1, <1>1, <1>2, <1>7, SMTT(30) DEF TrueIncomingSequence
  <2>2. CASE d = 1
    BY <2>2, <1>1, <1>2, <1>5, <1>7, SMTT(30) DEF TrueIncomingSequence
  <2>3. CASE d = -1
    BY <2>3, <1>1, <1>2, <1>5, <1>7, SMTT(30) DEF TrueIncomingSequence
  <2> QED
    BY <1>6, <2>1, <2>2, <2>3
<1> QED
  BY <1>8

\* The slot of a count in a table of m slots exists, and two counts less
\* than m apart that share one are equal.
LEMMA SlotsApart ==
    ASSUME NEW m \in Nat \ {0}
    PROVE  /\ \A a \in Nat : a % m \in 0 .. m - 1
           /\ \A a, b \in Nat : a % m = b % m /\ a - b < m /\ b - a < m
                                => a = b
<1>1. ASSUME NEW a \in Nat
      PROVE  /\ a % m \in 0 .. m - 1
             /\ a \div m \in Int
             /\ a = (a \div m) * m + (a % m)
  OBVIOUS
<1>2. ASSUME NEW a \in Nat, NEW b \in Nat,
             a % m = b % m, a - b < m, b - a < m
      PROVE  a = b
  <2> DEFINE d == (a \div m) - (b \div m)
  <2>1. d \in Int /\ a - b = d * m
    <3>1. d * m = (a \div m) * m - (b \div m) * m
      BY <1>1
    <3> QED
      BY <3>1, <1>1, <1>2
  <2>2. CASE d >= 1
    <3>1. d * m >= m
      BY <2>1, <2>2
    <3> QED
      BY <3>1, <2>1, <1>2
  <2>3. CASE d <= -1
    <3>1. d * m <= -m
      BY <2>1, <2>3
    <3> QED
      BY <3>1, <2>1, <1>2
  <2> QED
    BY <2>1, <2>2, <2>3
<1> QED
  BY <1>1, <1>2

\* Induction, for a set of natural numbers.
LEMMA NatSetInduction ==
    ASSUME NEW S, 0 \in S, \A k \in Nat : k \in S => k + 1 \in S
    PROVE  Nat \subseteq S
<1> DEFINE T == Nat \ S
           R == {pair \in Nat \X Nat : pair[1] < pair[2]}
<1>1. SUFFICES ASSUME T # {} PROVE FALSE
  OBVIOUS
<1>2. IsWellFoundedOn(R, Nat)
  BY NatLessThanWellFounded, Zenon DEF OpToRel
<1>3. T \subseteq Nat
  OBVIOUS
<1> HIDE DEF R, T
<1>4. PICK x \in T : \A y \in T : ~(<<y, x>> \in R)
  BY <1>1, <1>2, <1>3, WFMin
<1>5. x \in Nat /\ x \notin S /\ x > 0
  BY <1>4 DEF T
<1>6. x - 1 \in Nat /\ (x - 1) + 1 = x
  BY <1>5
<1>7. x - 1 \in T
  BY <1>5, <1>6 DEF T
<1>8. <<x - 1, x>> \in R
  BY <1>5, <1>6 DEF R
<1> QED
  BY <1>4, <1>7, <1>8

-----------------------------------------------------------------------------
(* Reassembly. *)

ReassemblyState ==
    [buffer : Seq(Ids), expected : Nat, appData : Seq(Seq(Ids)),
     corrupt : BOOLEAN]

LEMMA AbsorbType ==
    ASSUME NEW r \in ReassemblyState, NEW packet \in Packet
    PROVE  Absorb(r, packet) \in ReassemblyState
<1> DEFINE joined == Append(r.buffer, packet.id)
           length == IF r.buffer = <<>> THEN packet.total ELSE r.expected
<1>1. /\ packet.id \in Ids
      /\ packet.frag \in BOOLEAN
      /\ packet.total \in Nat \cup {NoPrefix}
  BY InputAssumption DEF Packet
<1>2. /\ joined \in Seq(Ids)
      /\ <<packet.id>> \in Seq(Ids)
      /\ Append(r.appData, joined) \in Seq(Seq(Ids))
      /\ Append(r.appData, <<packet.id>>) \in Seq(Seq(Ids))
  BY <1>1 DEF ReassemblyState
<1>3. ~(r.buffer = <<>> /\ packet.total = NoPrefix) => length \in Nat
  BY <1>1 DEF ReassemblyState
<1> HIDE DEF joined, length
<1>4. CASE r.corrupt
  BY <1>4 DEF Absorb
<1>5. CASE ~r.corrupt /\ ~packet.frag
  BY <1>5, <1>2 DEF Absorb, ReassemblyState
<1>6. CASE ~r.corrupt /\ packet.frag /\ r.buffer = <<>> /\ packet.total = NoPrefix
  BY <1>6 DEF Absorb, ReassemblyState
<1>7. CASE ~r.corrupt /\ packet.frag /\ ~(r.buffer = <<>> /\ packet.total = NoPrefix)
  <2>1. CASE Len(joined) >= length
    <3>1. Absorb(r, packet) = [buffer |-> <<>>, expected |-> 0,
                            appData |-> Append(r.appData, joined),
                            corrupt |-> FALSE]
      BY <1>7, <2>1 DEF Absorb, joined, length
    <3> QED
      BY <3>1, <1>2 DEF ReassemblyState
  <2>2. CASE ~(Len(joined) >= length)
    <3>1. Absorb(r, packet) = [buffer |-> joined, expected |-> length,
                            appData |-> r.appData, corrupt |-> FALSE]
      BY <1>7, <2>2 DEF Absorb, joined, length
    <3> QED
      BY <3>1, <1>2, <1>3, <1>7 DEF ReassemblyState
  <2> QED
    BY <2>1, <2>2
<1> QED
  BY <1>4, <1>5, <1>6, <1>7

\* The recursive definition does define the state after each packet.
LEMMA AbsorbedSteps ==
    ASSUME NEW r, NEW packets, Len(packets) \in Nat
    PROVE  /\ Absorbed(r, packets)[0] = r
           /\ \A i \in 1 .. Len(packets) :
                 Absorbed(r, packets)[i] =
                     Absorb(Absorbed(r, packets)[i - 1], packets[i])
<1> DEFINE n == Len(packets)
           Body(g, m) == [i \in 0 .. m |->
                             IF i = 0 THEN r ELSE Absorb(g[i - 1], packets[i])]
           S == {m \in Nat : \E g : g = Body(g, m)}
<1> HIDE DEF n
<1>1. 0 \in S
  <2> DEFINE g == [i \in 0 .. 0 |-> r]
  <2>1. g = Body(g, 0)
    OBVIOUS
  <2> QED
    BY <2>1
<1>2. ASSUME NEW m \in Nat, m \in S
      PROVE  m + 1 \in S
  <2>1. PICK g : g = Body(g, m)
    BY <1>2
  <2> DEFINE h == [i \in 0 .. m + 1 |->
                      IF i <= m THEN g[i] ELSE Absorb(g[m], packets[m + 1])]
  <2>2. \A i \in 0 .. m : h[i] = g[i]
    OBVIOUS
  <2>3. ASSUME NEW i \in 0 .. m + 1
        PROVE  h[i] = Body(h, m + 1)[i]
    <3>1. CASE i = 0
      BY <3>1, <2>1
    <3>2. CASE i \in 1 .. m
      <4>1. g[i] = Absorb(g[i - 1], packets[i])
        BY <3>2, <2>1
      <4>2. h[i - 1] = g[i - 1] /\ h[i] = g[i]
        BY <3>2, <2>2
      <4> QED
        BY <4>1, <4>2, <3>2
    <3>3. CASE i = m + 1
      <4>1. h[i - 1] = g[m]
        BY <3>3, <2>2
      <4> QED
        BY <4>1, <3>3
    <3> QED
      BY <3>1, <3>2, <3>3
  <2>4. h = Body(h, m + 1)
    BY <2>3
  <2> HIDE DEF h
  <2> QED
    BY <2>4
<1>3. n \in S
  <2>1. n \in Nat
    BY DEF n
  <2> HIDE DEF S
  <2> QED
    BY <1>1, <1>2, <2>1, NatSetInduction
<1>4. PICK g : g = Body(g, n)
  BY <1>3
<1> DEFINE f[i \in 0 .. n] ==
               IF i = 0 THEN r ELSE Absorb(f[i - 1], packets[i])
<1>5. f = Body(f, n)
  BY <1>4
<1>6. Absorbed(r, packets) = f
  BY DEF Absorbed, n
<1> HIDE DEF f
<1>7. /\ f[0] = r
      /\ \A i \in 1 .. n : f[i] = Absorb(f[i - 1], packets[i])
  <2>1. n \in Nat
    BY DEF n
  <2> QED
    BY <1>5, <2>1
<1> QED
  BY <1>6, <1>7 DEF n

LEMMA AbsorbedType ==
    ASSUME NEW r \in ReassemblyState, NEW packets \in Seq(Packet)
    PROVE  \A i \in 0 .. Len(packets) :
              Absorbed(r, packets)[i] \in ReassemblyState
<1> DEFINE f == Absorbed(r, packets)
           S == {i \in Nat : i <= Len(packets) => f[i] \in ReassemblyState}
<1>1. /\ f[0] = r
      /\ \A i \in 1 .. Len(packets) : f[i] = Absorb(f[i - 1], packets[i])
  BY AbsorbedSteps
<1> HIDE DEF f
<1>2. 0 \in S
  BY <1>1
<1>3. ASSUME NEW i \in Nat, i \in S
      PROVE  i + 1 \in S
  <2>1. SUFFICES ASSUME i + 1 <= Len(packets)
                 PROVE  f[i + 1] \in ReassemblyState
    OBVIOUS
  <2>2. f[i + 1] = Absorb(f[i], packets[i + 1])
    BY <1>1, <2>1
  <2>3. f[i] \in ReassemblyState /\ packets[i + 1] \in Packet
    BY <1>3, <2>1
  <2> QED
    BY <2>2, <2>3, AbsorbType
<1>4. Nat \subseteq S
  <2> HIDE DEF S
  <2> QED
    BY <1>2, <1>3, NatSetInduction
<1> QED
  BY <1>4 DEF f

\* Exactly-once is kept when the next sequence is appended to the last unit,
\* or is put in as a unit of its own before the last, or when an empty unit
\* is added behind.
LEMMA AppendToLast ==
    ASSUME NEW units \in Seq(Seq(Ids)), units # <<>>, NEW count \in Nat,
           UnitsHoldEachOnce(units, count),
           NEW grown \in Seq(Seq(Ids)), Len(grown) = Len(units),
           \A m \in 1 .. Len(units) - 1 : grown[m] = units[m],
           grown[Len(units)] = Append(units[Len(units)], count)
    PROVE  UnitsHoldEachOnce(grown, count + 1)
<1> DEFINE n == Len(units)
<1>1. n \in Nat /\ n >= 1
  OBVIOUS
<1>2. /\ DOMAIN units = 1 .. n /\ DOMAIN grown = 1 .. n
      /\ \A m \in 1 .. n : /\ units[m] \in Seq(Ids)
                            /\ DOMAIN units[m] = 1 .. Len(units[m])
                            /\ Len(units[m]) \in Nat
  OBVIOUS
<1>3. /\ DOMAIN grown[n] = 1 .. Len(units[n]) + 1
      /\ grown[n][Len(units[n]) + 1] = count
      /\ \A k \in 1 .. Len(units[n]) : grown[n][k] = units[n][k]
  BY <1>1, <1>2
<1> HIDE DEF n
<1>4. \A m \in 1 .. n - 1 : grown[m] = units[m]
  BY DEF n
<1>5. /\ \A m \in 1 .. n : \A k \in DOMAIN units[m] :
            units[m][k] \in 0 .. count - 1
      /\ \A id \in 0 .. count - 1 :
            \E m \in 1 .. n : \E k \in DOMAIN units[m] : units[m][k] = id
      /\ \A m, l \in 1 .. n :
            \A j \in DOMAIN units[m], k \in DOMAIN units[l] :
                units[m][j] = units[l][k] => m = l /\ j = k
  BY <1>2 DEF UnitsHoldEachOnce
<1>13. \A m, l \in 1 .. n :
         \A j \in DOMAIN units[m], k \in DOMAIN units[l] :
             units[m][j] = units[l][k] => m = l /\ j = k
  BY <1>5
<1>6. ASSUME NEW m \in 1 .. n, NEW k \in DOMAIN grown[m]
      PROVE  \/ m = n /\ k = Len(units[n]) + 1 /\ grown[m][k] = count
             \/ k \in DOMAIN units[m] /\ grown[m][k] = units[m][k]
  <2>1. CASE m = n
    <3> DEFINE len == Len(units[n])
    <3>1. len \in Nat /\ DOMAIN units[n] = 1 .. len
      BY <1>1, <1>2
    <3>2. k \in 1 .. len + 1
      BY <2>1, <1>3
    <3> HIDE DEF len
    <3>3. len \in Nat
      BY <3>1
    <3>4. k = len + 1 \/ k \in 1 .. len
      BY <3>2, <3>3
    <3> QED
      BY <2>1, <3>1, <3>4, <1>3 DEF len
  <2>2. CASE m \in 1 .. n - 1
    BY <2>2, <1>4
  <2> QED
    BY <2>1, <2>2, <1>1
<1>7. ASSUME NEW m \in 1 .. n, NEW k \in DOMAIN units[m]
      PROVE  k \in DOMAIN grown[m] /\ grown[m][k] = units[m][k]
  <2>1. CASE m = n
    <3>1. Len(units[n]) \in Nat /\ k \in 1 .. Len(units[n])
      BY <2>1, <1>1, <1>2
    <3>2. k \in 1 .. Len(units[n]) + 1
      BY <3>1
    <3> QED
      BY <2>1, <3>1, <3>2, <1>3
  <2>2. CASE m \in 1 .. n - 1
    BY <2>2, <1>4
  <2> QED
    BY <2>1, <2>2, <1>1
<1>8. ASSUME NEW m \in 1 .. n, NEW k \in DOMAIN grown[m]
      PROVE  grown[m][k] \in 0 .. count
  <2>1. CASE grown[m][k] = count
    BY <2>1
  <2>2. CASE k \in DOMAIN units[m] /\ grown[m][k] = units[m][k]
    <3>1. units[m][k] \in 0 .. count - 1
      BY <2>2, <1>5
    <3> QED
      BY <2>2, <3>1
  <2> QED
    BY <2>1, <2>2, <1>6
<1>9. ASSUME NEW id \in 0 .. count
      PROVE  \E m \in 1 .. n : \E k \in DOMAIN grown[m] : grown[m][k] = id
  <2>1. CASE id = count
    <3>1. n \in 1 .. n /\ Len(units[n]) + 1 \in DOMAIN grown[n]
      BY <1>1, <1>2, <1>3
    <3> QED
      BY <2>1, <3>1, <1>3
  <2>2. CASE id \in 0 .. count - 1
    <3>1. PICK m \in 1 .. n : \E k \in DOMAIN units[m] : units[m][k] = id
      BY <2>2, <1>5
    <3>2. PICK k \in DOMAIN units[m] : units[m][k] = id
      BY <3>1
    <3>3. k \in DOMAIN grown[m] /\ grown[m][k] = id
      BY <3>2, <1>7
    <3> QED
      BY <3>3
  <2>3. id = count \/ id \in 0 .. count - 1
    OBVIOUS
  <2> QED
    BY <2>1, <2>2, <2>3
<1>10. ASSUME NEW m \in 1 .. n, NEW l \in 1 .. n,
              NEW j \in DOMAIN grown[m], NEW k \in DOMAIN grown[l],
              grown[m][j] = grown[l][k]
       PROVE  m = l /\ j = k
  <2>1. CASE j \in DOMAIN units[m] /\ grown[m][j] = units[m][j]
    <3>1. grown[m][j] \in 0 .. count - 1
      BY <2>1, <1>5
    <3>2. grown[l][k] # count
      BY <3>1, <1>10
    <3>3. k \in DOMAIN units[l] /\ grown[l][k] = units[l][k]
      BY <3>2, <1>6
    <3>4. units[m][j] = units[l][k]
      BY <2>1, <3>3, <1>10
    <3>5. \A a \in DOMAIN units[m], b \in DOMAIN units[l] :
             units[m][a] = units[l][b] => m = l /\ a = b
      BY <1>13
    <3> QED
      BY <2>1, <3>3, <3>4, <3>5
  <2>2. CASE m = n /\ j = Len(units[n]) + 1 /\ grown[m][j] = count
    <3>1. ~(k \in DOMAIN units[l] /\ grown[l][k] = units[l][k])
      <4>1. \A b \in DOMAIN units[l] : units[l][b] \in 0 .. count - 1
        BY <1>5
      <4>2. grown[l][k] = count
        BY <2>2, <1>10
      <4> QED
        BY <4>1, <4>2
    <3> QED
      BY <2>2, <3>1, <1>6
  <2> QED
    BY <2>1, <2>2, <1>6
<1>11. 0 .. (count + 1) - 1 = 0 .. count
  OBVIOUS
<1>12. DOMAIN grown = 1 .. n
  BY <1>2 DEF n
<1> QED
  BY <1>8, <1>9, <1>10, <1>11, <1>12 DEF UnitsHoldEachOnce

LEMMA InsertBeforeLast ==
    ASSUME NEW units \in Seq(Seq(Ids)), units # <<>>, NEW count \in Nat,
           UnitsHoldEachOnce(units, count),
           NEW grown \in Seq(Seq(Ids)), Len(grown) = Len(units) + 1,
           \A m \in 1 .. Len(units) - 1 : grown[m] = units[m],
           grown[Len(units)] = <<count>>,
           grown[Len(units) + 1] = units[Len(units)]
    PROVE  UnitsHoldEachOnce(grown, count + 1)
<1> DEFINE n == Len(units)
           From(m) == IF m = n + 1 THEN n ELSE m
<1>1. n \in Nat /\ n >= 1
  OBVIOUS
<1>2. DOMAIN units = 1 .. n /\ DOMAIN grown = 1 .. n + 1
  OBVIOUS
<1>3. DOMAIN grown[n] = {1} /\ grown[n][1] = count
  <2>1. DOMAIN <<count>> = {1} /\ <<count>>[1] = count
    OBVIOUS
  <2> QED
    BY <2>1
<1>4. ASSUME NEW m \in 1 .. n + 1, m # n
      PROVE  From(m) \in 1 .. n /\ grown[m] = units[From(m)]
  <2>1. CASE m = n + 1
    BY <2>1, <1>1
  <2>2. CASE m \in 1 .. n - 1
    <3>1. From(m) = m /\ m \in 1 .. n
      BY <2>2, <1>1
    <3>2. grown[m] = units[m]
      BY <2>2
    <3> QED
      BY <3>1, <3>2
  <2> QED
    BY <2>1, <2>2, <1>1, <1>4
<1>5. \A m, l \in 1 .. n + 1 : m # n /\ l # n /\ From(m) = From(l) => m = l
  BY <1>1
<1>6. ASSUME NEW l \in 1 .. n
      PROVE  \E m \in 1 .. n + 1 : m # n /\ From(m) = l
  <2>1. CASE l = n
    BY <2>1, <1>1
  <2>2. CASE l # n
    BY <2>2, <1>1
  <2> QED
    BY <2>1, <2>2
<1> HIDE DEF n, From
<1>7. /\ \A m \in 1 .. n : \A k \in DOMAIN units[m] :
            units[m][k] \in 0 .. count - 1
      /\ \A id \in 0 .. count - 1 :
            \E m \in 1 .. n : \E k \in DOMAIN units[m] : units[m][k] = id
      /\ \A m, l \in 1 .. n :
            \A j \in DOMAIN units[m], k \in DOMAIN units[l] :
                units[m][j] = units[l][k] => m = l /\ j = k
  BY <1>2 DEF UnitsHoldEachOnce
<1>13. \A m, l \in 1 .. n :
         \A j \in DOMAIN units[m], k \in DOMAIN units[l] :
             units[m][j] = units[l][k] => m = l /\ j = k
  BY <1>7
<1>8. ASSUME NEW m \in 1 .. n + 1, NEW k \in DOMAIN grown[m]
      PROVE  grown[m][k] \in 0 .. count /\ (m # n => grown[m][k] # count)
  <2>1. CASE m = n
    BY <2>1, <1>3
  <2>2. CASE m # n
    <3>1. units[From(m)][k] \in 0 .. count - 1
      BY <2>2, <1>4, <1>7
    <3>2. grown[m][k] \in 0 .. count - 1
      BY <3>1, <2>2, <1>4
    <3>3. \A x \in 0 .. count - 1 : x \in 0 .. count /\ x # count
      OBVIOUS
    <3> QED
      BY <3>2, <3>3
  <2> QED
    BY <2>1, <2>2
<1>9. ASSUME NEW id \in 0 .. count
      PROVE  \E m \in 1 .. n + 1 : \E k \in DOMAIN grown[m] : grown[m][k] = id
  <2>1. CASE id = count
    <3>1. n \in 1 .. n + 1 /\ 1 \in DOMAIN grown[n]
      BY <1>1, <1>3
    <3> QED
      BY <2>1, <3>1, <1>3
  <2>2. CASE id \in 0 .. count - 1
    <3>1. PICK l \in 1 .. n : \E k \in DOMAIN units[l] : units[l][k] = id
      BY <2>2, <1>7
    <3>2. PICK k \in DOMAIN units[l] : units[l][k] = id
      BY <3>1
    <3>3. PICK m \in 1 .. n + 1 : m # n /\ From(m) = l
      BY <1>6
    <3>4. grown[m] = units[l]
      BY <3>3, <1>4
    <3> QED
      BY <3>2, <3>4
  <2>3. id = count \/ id \in 0 .. count - 1
    OBVIOUS
  <2> QED
    BY <2>1, <2>2, <2>3
<1>10. ASSUME NEW m \in 1 .. n + 1, NEW l \in 1 .. n + 1,
              NEW j \in DOMAIN grown[m], NEW k \in DOMAIN grown[l],
              grown[m][j] = grown[l][k]
       PROVE  m = l /\ j = k
  <2>1. CASE m = n /\ l = n
    BY <2>1, <1>3
  <2>2. CASE m # n /\ l # n
    <3>1. /\ From(m) \in 1 .. n /\ grown[m] = units[From(m)]
          /\ From(l) \in 1 .. n /\ grown[l] = units[From(l)]
      BY <2>2, <1>4
    <3>2. units[From(m)][j] = units[From(l)][k]
      BY <3>1, <1>10
    <3> DEFINE fm == From(m)
               fl == From(l)
    <3>3. j \in DOMAIN units[fm] /\ k \in DOMAIN units[fl]
      BY <3>1, <1>10
    <3> HIDE DEF fm, fl
    <3>4. fm \in 1 .. n /\ fl \in 1 .. n /\ units[fm][j] = units[fl][k]
      BY <3>1, <3>2 DEF fm, fl
    <3>5. fm = fl /\ j = k
      <4>1. \A a \in DOMAIN units[fm], b \in DOMAIN units[fl] :
               units[fm][a] = units[fl][b] => fm = fl /\ a = b
        BY <3>4, <1>13
      <4> QED
        BY <3>3, <3>4, <4>1
    <3>6. From(m) = From(l) /\ j = k
      BY <3>5 DEF fm, fl
    <3> QED
      BY <2>2, <3>6, <1>5
  <2>3. CASE m = n /\ l # n
    BY <2>3, <1>3, <1>8, <1>10
  <2>4. CASE m # n /\ l = n
    BY <2>4, <1>3, <1>8, <1>10
  <2> QED
    BY <2>1, <2>2, <2>3, <2>4
<1>11. 0 .. (count + 1) - 1 = 0 .. count
  OBVIOUS
<1>12. DOMAIN grown = 1 .. n + 1
  BY <1>2
<1>14. \A m \in DOMAIN grown : \A k \in DOMAIN grown[m] :
          grown[m][k] \in 0 .. (count + 1) - 1
  BY <1>8, <1>11, <1>12
<1>15. \A id \in 0 .. (count + 1) - 1 :
          \E m \in DOMAIN grown : \E k \in DOMAIN grown[m] : grown[m][k] = id
  BY <1>9, <1>11, <1>12
<1>16. \A m, l \in DOMAIN grown :
          \A j \in DOMAIN grown[m], k \in DOMAIN grown[l] :
              grown[m][j] = grown[l][k] => m = l /\ j = k
  BY <1>10, <1>12
<1> QED
  BY <1>14, <1>15, <1>16 DEF UnitsHoldEachOnce

LEMMA AppendEmpty ==
    ASSUME NEW units \in Seq(Seq(Ids)), NEW count \in Nat,
           UnitsHoldEachOnce(units, count)
    PROVE  UnitsHoldEachOnce(Append(units, <<>>), count)
<1> DEFINE n == Len(units)
           grown == Append(units, <<>>)
<1>1. /\ n \in Nat /\ DOMAIN units = 1 .. n /\ DOMAIN grown = 1 .. n + 1
      /\ \A m \in 1 .. n : grown[m] = units[m]
      /\ grown[n + 1] = <<>>
  OBVIOUS
<1>2. DOMAIN grown[n + 1] = {}
  BY <1>1
<1> HIDE DEF n, grown
<1>3. \A m \in DOMAIN grown : \A k \in DOMAIN grown[m] :
         m \in DOMAIN units /\ grown[m] = units[m]
  BY <1>1, <1>2
<1>4. \A m \in DOMAIN units : m \in DOMAIN grown /\ grown[m] = units[m]
  BY <1>1
<1>5. UnitsHoldEachOnce(grown, count)
  BY <1>3, <1>4 DEF UnitsHoldEachOnce
<1> QED
  BY <1>5 DEF grown

\* Processing the next sequence, unless it is malformed, keeps exactly-once;
\* a malformed packet leaves what was received alone.
LEMMA AbsorbHoldsEachOnce ==
    ASSUME NEW r \in ReassemblyState, NEW packet \in Packet,
           HoldsEachOnce(r, packet.id), ~r.corrupt
    PROVE  HoldsEachOnce(Absorb(r, packet),
                         packet.id + IF Absorb(r, packet).corrupt THEN 0 ELSE 1)
<1> DEFINE after == Absorb(r, packet)
           count == packet.id
           units == Append(r.appData, r.buffer)
           grown == Append(after.appData, after.buffer)
           joined == Append(r.buffer, count)
           length == IF r.buffer = <<>> THEN packet.total ELSE r.expected
<1>1. /\ count \in Nat /\ count \in Ids
      /\ r.appData \in Seq(Seq(Ids)) /\ r.buffer \in Seq(Ids)
      /\ joined \in Seq(Ids) /\ <<count>> \in Seq(Ids)
      /\ packet.frag \in BOOLEAN
  <2>1. packet.id \in Ids /\ packet.frag \in BOOLEAN
    BY DEF Packet
  <2>2. r.appData \in Seq(Seq(Ids)) /\ r.buffer \in Seq(Ids)
    BY DEF ReassemblyState
  <2>3. count \in Ids /\ count \in Nat
    BY <2>1, InputAssumption
  <2> HIDE DEF count
  <2>4. joined \in Seq(Ids) /\ <<count>> \in Seq(Ids)
    BY <2>2, <2>3
  <2> QED
    BY <2>1, <2>2, <2>3, <2>4
<1>2. units \in Seq(Seq(Ids)) /\ units # <<>> /\ Len(units) = Len(r.appData) + 1
  <2>1. units \in Seq(Seq(Ids)) /\ Len(units) = Len(r.appData) + 1
    BY <1>1
  <2>2. Len(r.appData) \in Nat
    BY <1>1
  <2>3. Len(units) # 0
    BY <2>1, <2>2
  <2> QED
    BY <2>1, <2>3
<1>3. UnitsHoldEachOnce(units, count)
  BY DEF HoldsEachOnce
<1> SUFFICES UnitsHoldEachOnce(grown, count + IF after.corrupt THEN 0 ELSE 1)
  BY DEF HoldsEachOnce
<1>4. CASE ~packet.frag
  <2>1. /\ after.appData = Append(r.appData, <<count>>)
        /\ after.buffer = r.buffer
        /\ after.corrupt = r.corrupt
    BY <1>4 DEF Absorb, ReassemblyState
  <2>2. /\ grown \in Seq(Seq(Ids)) /\ Len(grown) = Len(units) + 1
        /\ \A m \in 1 .. Len(units) - 1 : grown[m] = units[m]
        /\ grown[Len(units)] = <<count>>
        /\ grown[Len(units) + 1] = units[Len(units)]
    BY <2>1, <1>1, <1>2
  <2> HIDE DEF grown, units, after, count
  <2>3. UnitsHoldEachOnce(grown, count + 1)
    BY <2>2, <1>1, <1>2, <1>3, InsertBeforeLast
  <2> QED
    BY <2>1, <2>3
<1>5. CASE packet.frag /\ r.buffer = <<>> /\ packet.total = NoPrefix
  <2>1. after = [r EXCEPT !.corrupt = TRUE]
    BY <1>5 DEF Absorb
  <2>2. after.appData = r.appData /\ after.buffer = r.buffer /\ after.corrupt
    BY <2>1 DEF ReassemblyState
  <2>3. grown = units /\ count + 0 = count
    BY <2>2, <1>1
  <2> HIDE DEF grown, units, after, count
  <2> QED
    BY <2>2, <2>3, <1>3
<1>6. CASE packet.frag /\ ~(r.buffer = <<>> /\ packet.total = NoPrefix)
  <2> DEFINE longer == Append(r.appData, joined)
  <2>1. /\ longer \in Seq(Seq(Ids)) /\ Len(longer) = Len(units)
        /\ \A m \in 1 .. Len(units) - 1 : longer[m] = units[m]
        /\ longer[Len(units)] = Append(units[Len(units)], count)
    BY <1>1, <1>2
  <2>2. UnitsHoldEachOnce(longer, count + 1)
    <3> HIDE DEF longer, units, count
    <3> QED
      BY <2>1, <1>1, <1>2, <1>3, AppendToLast
  <2>3. CASE Len(joined) >= length
    <3>1. after = [buffer |-> <<>>, expected |-> 0,
                   appData |-> longer, corrupt |-> FALSE]
      BY <1>6, <2>3 DEF Absorb
    <3>2. grown = Append(longer, <<>>) /\ ~after.corrupt
      BY <3>1
    <3> HIDE DEF grown, longer, after, count
    <3>3. UnitsHoldEachOnce(grown, count + 1)
      BY <3>2, <2>1, <2>2, <1>1, AppendEmpty
    <3> QED
      BY <3>2, <3>3
  <2>4. CASE ~(Len(joined) >= length)
    <3>1. after = [buffer |-> joined, expected |-> length,
                   appData |-> r.appData, corrupt |-> FALSE]
      BY <1>6, <2>4 DEF Absorb
    <3>2. grown = longer /\ ~after.corrupt
      BY <3>1
    <3> HIDE DEF grown, longer, after, count
    <3> QED
      BY <3>2, <2>2
  <2> QED
    BY <2>3, <2>4
<1> QED
  BY <1>1, <1>4, <1>5, <1>6

\* A unit that is longer by a packet sent after all of its others.
LEMMA AscendsAppend ==
    ASSUME NEW unit \in Seq(Ids), NEW count \in Ids, Ascends(unit),
           \A k \in DOMAIN unit : unit[k] < count
    PROVE  /\ Ascends(Append(unit, count))
           /\ \E k \in DOMAIN Append(unit, count) : Append(unit, count)[k] = count
<1>1. /\ Len(unit) \in Nat /\ DOMAIN unit = 1 .. Len(unit)
      /\ DOMAIN Append(unit, count) = 1 .. Len(unit) + 1
      /\ \A k \in 1 .. Len(unit) : Append(unit, count)[k] = unit[k]
      /\ Append(unit, count)[Len(unit) + 1] = count
  OBVIOUS
<1>2. Len(unit) + 1 \in 1 .. Len(unit) + 1
  BY <1>1
<1>3. ASSUME NEW j \in 1 .. Len(unit) + 1, NEW k \in 1 .. Len(unit) + 1, j < k
      PROVE  Append(unit, count)[j] < Append(unit, count)[k]
  <2>1. j \in 1 .. Len(unit)
    BY <1>1, <1>3
  <2>2. CASE k \in 1 .. Len(unit)
    BY <2>1, <2>2, <1>1, <1>3 DEF Ascends
  <2>3. CASE k = Len(unit) + 1
    BY <2>1, <2>3, <1>1
  <2> QED
    BY <2>2, <2>3, <1>1
<1> QED
  BY <1>1, <1>2, <1>3 DEF Ascends

\* One more unit, which ends with a packet sent after all of those before.
LEMMA UnitsInOrderAppend ==
    ASSUME NEW units \in Seq(Seq(Ids)), NEW unit \in Seq(Ids), NEW count \in Ids,
           UnitsInOrder(units), Ascends(unit),
           \E k \in DOMAIN unit : unit[k] = count,
           \A m \in DOMAIN units : \A k \in DOMAIN units[m] : units[m][k] < count
    PROVE  UnitsInOrder(Append(units, unit))
<1> DEFINE n == Len(units)
           grown == Append(units, unit)
<1>1. /\ n \in Nat /\ DOMAIN units = 1 .. n /\ DOMAIN grown = 1 .. n + 1
      /\ \A m \in 1 .. n : grown[m] = units[m]
      /\ grown[n + 1] = unit
  OBVIOUS
<1> HIDE DEF n, grown
<1>2. ASSUME NEW m \in DOMAIN grown PROVE Ascends(grown[m])
  <2>1. CASE m \in 1 .. n
    BY <2>1, <1>1 DEF UnitsInOrder
  <2>2. CASE m = n + 1
    BY <2>2, <1>1
  <2> QED
    BY <2>1, <2>2, <1>1, <1>2
<1>3. ASSUME NEW m \in DOMAIN grown, NEW l \in DOMAIN grown, m < l
      PROVE  \E k \in DOMAIN grown[l] : \A j \in DOMAIN grown[m] :
                 grown[m][j] < grown[l][k]
  <2>1. m \in 1 .. n
    BY <1>1, <1>3
  <2>2. CASE l \in 1 .. n
    <3>1. grown[m] = units[m] /\ grown[l] = units[l]
      BY <2>1, <2>2, <1>1
    <3>2. m \in DOMAIN units /\ l \in DOMAIN units
      BY <2>1, <2>2, <1>1
    <3> QED
      BY <3>1, <3>2, <1>3 DEF UnitsInOrder
  <2>3. CASE l = n + 1
    <3>1. grown[m] = units[m] /\ grown[l] = unit /\ m \in DOMAIN units
      BY <2>1, <2>3, <1>1
    <3>2. PICK k \in DOMAIN unit : unit[k] = count
      OBVIOUS
    <3>3. \A j \in DOMAIN grown[m] : grown[m][j] < count
      BY <3>1
    <3> QED
      BY <3>1, <3>2, <3>3
  <2> QED
    BY <2>2, <2>3, <1>1, <1>3
<1>4. UnitsInOrder(grown)
  BY <1>2, <1>3 DEF UnitsInOrder
<1> QED
  BY <1>4 DEF grown

\* Of what holds the sequences below the next one, none is as high as that.
LEMMA HeldBelow ==
    ASSUME NEW r \in ReassemblyState, NEW count \in Nat, HoldsEachOnce(r, count)
    PROVE  /\ \A m \in DOMAIN r.appData : \A k \in DOMAIN r.appData[m] :
                 r.appData[m][k] < count
           /\ \A k \in DOMAIN r.buffer : r.buffer[k] < count
<1> DEFINE units == Append(r.appData, r.buffer)
           n == Len(r.appData)
<1>1. r.appData \in Seq(Seq(Ids)) /\ r.buffer \in Seq(Ids)
  BY DEF ReassemblyState
<1>2. /\ n \in Nat /\ DOMAIN r.appData = 1 .. n /\ DOMAIN units = 1 .. n + 1
      /\ \A m \in 1 .. n : units[m] = r.appData[m]
      /\ units[n + 1] = r.buffer
  BY <1>1
<1>3. \A m \in DOMAIN units : \A k \in DOMAIN units[m] : units[m][k] \in 0 .. count - 1
  BY DEF HoldsEachOnce, UnitsHoldEachOnce
<1> HIDE DEF units, n
<1>4. n + 1 \in DOMAIN units /\ \A m \in DOMAIN r.appData : m \in DOMAIN units
  BY <1>2
<1>5. ASSUME NEW m \in DOMAIN r.appData, NEW k \in DOMAIN r.appData[m]
      PROVE  r.appData[m][k] < count
  <2>1. units[m] = r.appData[m] /\ m \in DOMAIN units
    BY <1>2, <1>4
  <2>2. r.appData[m][k] \in 0 .. count - 1
    BY <2>1, <1>3
  <2> QED
    BY <2>2
<1>6. ASSUME NEW k \in DOMAIN r.buffer PROVE r.buffer[k] < count
  <2>1. r.buffer[k] \in 0 .. count - 1
    BY <1>2, <1>3, <1>4
  <2> QED
    BY <2>1
<1> QED
  BY <1>5, <1>6

\* Processing the next sequence keeps the order, because it is the highest so
\* far: alone it makes a unit of its own, as a fragment it ends the buffer.
LEMMA AbsorbKeepsOrder ==
    ASSUME NEW r \in ReassemblyState, NEW packet \in Packet,
           HoldsEachOnce(r, packet.id), HoldsInOrder(r), ~r.corrupt
    PROVE  HoldsInOrder(Absorb(r, packet))
<1> DEFINE after == Absorb(r, packet)
           count == packet.id
           joined == Append(r.buffer, count)
           length == IF r.buffer = <<>> THEN packet.total ELSE r.expected
<1>1. /\ count \in Ids /\ count \in Nat
      /\ r.appData \in Seq(Seq(Ids)) /\ r.buffer \in Seq(Ids)
  <2>1. packet.id \in Ids
    BY DEF Packet
  <2> QED
    BY <2>1, InputAssumption DEF ReassemblyState
<1>2. /\ \A m \in DOMAIN r.appData : \A k \in DOMAIN r.appData[m] :
            r.appData[m][k] < count
      /\ \A k \in DOMAIN r.buffer : r.buffer[k] < count
  BY <1>1, HeldBelow
<1>3. UnitsInOrder(r.appData) /\ Ascends(r.buffer)
  BY DEF HoldsInOrder
<1>4. /\ joined \in Seq(Ids) /\ Ascends(joined)
      /\ \E k \in DOMAIN joined : joined[k] = count
  <2> HIDE DEF count
  <2> QED
    BY <1>1, <1>2, <1>3, AscendsAppend
<1>5. /\ <<count>> \in Seq(Ids) /\ Ascends(<<count>>)
      /\ \E k \in DOMAIN <<count>> : <<count>>[k] = count
  <2> HIDE DEF count
  <2>1. <<count>> \in Seq(Ids) /\ DOMAIN <<count>> = {1} /\ <<count>>[1] = count
    BY <1>1
  <2> QED
    BY <2>1 DEF Ascends
<1>6. Ascends(<<>>)
  BY DEF Ascends
<1>7. CASE ~packet.frag
  <2>1. /\ after.appData = Append(r.appData, <<count>>)
        /\ after.buffer = r.buffer
    BY <1>7 DEF Absorb, ReassemblyState
  <2> HIDE DEF after, count
  <2>2. UnitsInOrder(Append(r.appData, <<count>>))
    BY <1>1, <1>2, <1>3, <1>5, UnitsInOrderAppend
  <2>3. HoldsInOrder(after)
    BY <2>1, <2>2, <1>3 DEF HoldsInOrder
  <2> QED
    BY <2>3 DEF after
<1>8. CASE packet.frag /\ r.buffer = <<>> /\ packet.total = NoPrefix
  <2>1. after = [r EXCEPT !.corrupt = TRUE]
    BY <1>8 DEF Absorb
  <2>2. after.appData = r.appData /\ after.buffer = r.buffer
    BY <2>1 DEF ReassemblyState
  <2> HIDE DEF after
  <2>3. HoldsInOrder(after)
    BY <2>2, <1>3 DEF HoldsInOrder
  <2> QED
    BY <2>3 DEF after
<1>9. CASE packet.frag /\ ~(r.buffer = <<>> /\ packet.total = NoPrefix)
  <2>1. CASE Len(joined) >= length
    <3>1. after = [buffer |-> <<>>, expected |-> 0,
                   appData |-> Append(r.appData, joined), corrupt |-> FALSE]
      BY <1>9, <2>1 DEF Absorb
    <3>2. after.appData = Append(r.appData, joined) /\ after.buffer = <<>>
      BY <3>1
    <3> HIDE DEF after, joined, count
    <3>3. UnitsInOrder(Append(r.appData, joined))
      BY <1>1, <1>2, <1>3, <1>4, UnitsInOrderAppend
    <3>4. HoldsInOrder(after)
      BY <3>2, <3>3, <1>6 DEF HoldsInOrder
    <3> QED
      BY <3>4 DEF after
  <2>2. CASE ~(Len(joined) >= length)
    <3>1. after = [buffer |-> joined, expected |-> length,
                   appData |-> r.appData, corrupt |-> FALSE]
      BY <1>9, <2>2 DEF Absorb
    <3>2. after.appData = r.appData /\ after.buffer = joined
      BY <3>1
    <3> HIDE DEF after, joined
    <3>3. HoldsInOrder(after)
      BY <3>2, <1>3, <1>4 DEF HoldsInOrder
    <3> QED
      BY <3>3 DEF after
  <2> QED
    BY <2>1, <2>2
<1> QED
  BY <1>1, <1>7, <1>8, <1>9 DEF Packet

\* A run of packets with consecutive sequences, of which at most the last is
\* malformed.
LEMMA RunHoldsInOrder ==
    ASSUME NEW r \in ReassemblyState, ~r.corrupt,
           NEW start \in Nat, HoldsEachOnce(r, start), HoldsInOrder(r),
           NEW packets \in Seq(Packet), NEW n \in Nat, Len(packets) = n + 1,
           \A i \in 1 .. n + 1 : packets[i].id = start + i - 1,
           ~Absorbed(r, packets)[n].corrupt
    PROVE  LET last == Absorbed(r, packets)[n + 1]
           IN  /\ HoldsEachOnce(last, start + n + IF last.corrupt THEN 0 ELSE 1)
               /\ HoldsInOrder(last)
<1> DEFINE f == Absorbed(r, packets)
           S == {i \in Nat : i <= n =>
                    f[i].corrupt \/ (HoldsEachOnce(f[i], start + i) /\ HoldsInOrder(f[i]))}
<1>1. /\ f[0] = r
      /\ \A i \in 1 .. n + 1 : f[i] = Absorb(f[i - 1], packets[i])
  BY AbsorbedSteps
<1>2. \A i \in 0 .. n + 1 : f[i] \in ReassemblyState
  BY AbsorbedType
<1>3. \A i \in 1 .. n + 1 : packets[i] \in Packet
  OBVIOUS
<1>4. ~f[n].corrupt
  OBVIOUS
<1> HIDE DEF f
<1>5. ASSUME NEW i \in 0 .. n, ~f[i].corrupt, HoldsEachOnce(f[i], start + i),
             HoldsInOrder(f[i])
      PROVE  /\ HoldsEachOnce(f[i + 1], start + i + IF f[i + 1].corrupt THEN 0 ELSE 1)
             /\ HoldsInOrder(f[i + 1])
  <2>1. i + 1 \in 1 .. n + 1 /\ (i + 1) - 1 = i /\ i \in 0 .. n + 1
    OBVIOUS
  <2>2. f[i + 1] = Absorb(f[i], packets[i + 1])
    BY <1>1, <2>1
  <2>3. packets[i + 1].id = start + i
    BY <2>1
  <2>4. f[i] \in ReassemblyState /\ packets[i + 1] \in Packet
    BY <1>2, <1>3, <2>1
  <2> QED
    BY <1>5, <2>2, <2>3, <2>4, AbsorbHoldsEachOnce, AbsorbKeepsOrder
<1>6. 0 \in S
  <2>1. start + 0 = start
    OBVIOUS
  <2> QED
    BY <1>1, <2>1
<1>7. ASSUME NEW i \in Nat, i \in S
      PROVE  i + 1 \in S
  <2>1. SUFFICES ASSUME i + 1 <= n, ~f[i + 1].corrupt
                 PROVE  HoldsEachOnce(f[i + 1], start + (i + 1)) /\ HoldsInOrder(f[i + 1])
    BY DEF S
  <2>2. i \in 0 .. n
    BY <2>1
  <2>3. ~f[i].corrupt
    <3>1. f[i + 1] = Absorb(f[i], packets[i + 1])
      BY <1>1, <2>2, <2>1
    <3> QED
      BY <3>1, <2>1 DEF Absorb
  <2>4. HoldsEachOnce(f[i], start + i) /\ HoldsInOrder(f[i])
    BY <1>7, <2>2, <2>3
  <2>5. HoldsEachOnce(f[i + 1], start + i + 1) /\ HoldsInOrder(f[i + 1])
    BY <1>5, <2>1, <2>2, <2>3, <2>4
  <2>6. start + i + 1 = start + (i + 1)
    OBVIOUS
  <2> QED
    BY <2>5, <2>6
<1>8. Nat \subseteq S
  <2> HIDE DEF S
  <2> QED
    BY <1>6, <1>7, NatSetInduction
<1>9. HoldsEachOnce(f[n], start + n) /\ HoldsInOrder(f[n])
  BY <1>4, <1>8
<1>10. /\ HoldsEachOnce(f[n + 1], start + n + IF f[n + 1].corrupt THEN 0 ELSE 1)
       /\ HoldsInOrder(f[n + 1])
  BY <1>4, <1>5, <1>9
<1> QED
  BY <1>10 DEF f

-----------------------------------------------------------------------------
(* The window. *)

InputInv ==
    /\ TypeOK
    /\ StashAheadOfWindow
    /\ EachSequenceOnce
    /\ DeliveredInOrder
    /\ AcknowledgedIsHeld

\* What a packet from the network is read as: its own count when that lies in
\* the window or below it by no more, otherwise something too far ahead.
LEMMA SequenceIsId ==
    ASSUME windowStart \in Nat, NEW packet \in Packet, WithinLifetime(packet),
           SequenceOf(packet) <= windowStart + MaxQueuedIncoming
    PROVE  SequenceOf(packet) = packet.id /\ packet.id \in Nat
<1>1. packet.id \in Nat /\ MaxQueuedIncoming \in Nat
  BY InputAssumption DEF Packet
<1>2. CASE windowStart - MaxQueuedIncoming <= packet.id
             /\ packet.id <= windowStart + MaxQueuedIncoming
  BY <1>1, <1>2, DecodeInWindow, InputWindowAssumption DEF SequenceOf
<1>3. CASE packet.id < windowStart - MaxQueuedIncoming
             \/ packet.id > windowStart + MaxQueuedIncoming
  <2>1. SequenceOf(packet) > windowStart + MaxQueuedIncoming
    BY <1>1, <1>3, DecodeOutsideWindow, InputWindowAssumption
    DEF SequenceOf, WithinLifetime
  <2>2. SequenceOf(packet) \in Int
    BY <1>1, SeqSpaceAssumption DEF SequenceOf, TrueIncomingSequence, Wire
  <2> QED
    BY <1>1, <2>1, <2>2
<1> QED
  BY <1>1, <1>2, <1>3

LEMMA SlotFacts ==
    /\ \A s \in Nat : Slot(s) \in Slots
    /\ \A s, t \in Nat :
          Slot(s) = Slot(t) /\ s - t < MaxQueuedIncoming /\ t - s < MaxQueuedIncoming
             => s = t
  BY SlotsApart, InputAssumption DEF Slot, Slots

\* The stashed packet in the slot of a sequence of the window is that one's.
LEMMA SlotHoldsSequence ==
    ASSUME TypeOK, StashAheadOfWindow,
           NEW s \in Nat, windowStart < s, s <= windowStart + MaxQueuedIncoming,
           stash[Slot(s)] # Empty
    PROVE  stash[Slot(s)].id = s /\ stash[Slot(s)] \in Packet
<1>1. Slot(s) \in Slots
  BY SlotFacts
<1>2. stash[Slot(s)] \in Packet
  BY <1>1 DEF TypeOK
<1>3. stash[Slot(s)].id \in Nat
  BY <1>2, InputAssumption DEF Packet
<1>4. /\ windowStart < stash[Slot(s)].id
      /\ stash[Slot(s)].id <= windowStart + MaxQueuedIncoming
      /\ Slot(stash[Slot(s)].id) = Slot(s)
  BY <1>1 DEF StashAheadOfWindow
<1>5. windowStart \in Nat /\ MaxQueuedIncoming \in Nat
  BY InputAssumption DEF TypeOK
<1> QED
  BY <1>2, <1>3, <1>4, <1>5, SlotFacts

LEMMA InitEstablishes == Init => InputInv
<1> SUFFICES ASSUME Init PROVE InputInv
  OBVIOUS
<1> USE DEF Init
<1>1. TypeOK
  <2>1. MaxAckDelay \in Nat /\ 0 \in 0 .. MaxAckDelay + 1
    BY InputAssumption
  <2>2. /\ <<>> \in Seq(Ids) /\ <<>> \in Seq(Seq(Ids)) /\ <<>> \in Seq(Ack)
        /\ -1 \in Int /\ 0 \in Nat /\ FALSE \in BOOLEAN
    OBVIOUS
  <2>3. [slot \in Slots |-> Empty] \in [Slots -> Packet \cup {Empty}]
    OBVIOUS
  <2> QED
    BY <2>1, <2>2, <2>3 DEF TypeOK
<1>2. StashAheadOfWindow
  BY DEF StashAheadOfWindow
<1>3. EachSequenceOnce
  <2>1. <<>> \in Seq(Seq(Ids)) /\ UnitsHoldEachOnce(<<>>, 0)
    BY DEF UnitsHoldEachOnce
  <2>2. UnitsHoldEachOnce(Append(<<>>, <<>>), 0)
    BY <2>1, AppendEmpty
  <2>3. Reassembly.appData = <<>> /\ Reassembly.buffer = <<>> /\ windowStart = 0
    BY DEF Reassembly
  <2> QED
    BY <2>2, <2>3 DEF EachSequenceOnce, HoldsEachOnce
<1>4. AcknowledgedIsHeld
  BY DEF AcknowledgedIsHeld
<1>5. DeliveredInOrder
  BY DEF DeliveredInOrder, HoldsInOrder, UnitsInOrder, Ascends, Reassembly
<1> QED
  BY <1>1, <1>2, <1>3, <1>4, <1>5 DEF InputInv

\* A step that leaves the window, the stash and the reassembly alone keeps
\* the invariant if the acknowledgements it adds are in order.
LEMMA AcksOnlyKeeps ==
    ASSUME InputInv, UNCHANGED <<windowStart, stash, reassembly>>,
           lastAckAll' \in Int, ackAge' \in 0 .. MaxAckDelay + 1,
           \/ outgoing' = outgoing
           \/ outgoing' = <<>>
           \/ outgoing' = Append(outgoing, [op |-> "AcknowledgeAll",
                                            seq |-> windowStart - 1])
    PROVE  InputInv'
<1> USE DEF InputInv
<1>1. TypeOK'
  <2>1. [op |-> "AcknowledgeAll", seq |-> windowStart - 1] \in Ack
    BY DEF Ack, TypeOK
  <2>2. outgoing \in Seq(Ack)
    BY DEF TypeOK
  <2>3. outgoing' \in Seq(Ack)
    <3>1. CASE outgoing' = outgoing
      BY <3>1, <2>2
    <3>2. CASE outgoing' = <<>>
      BY <3>2
    <3>3. CASE outgoing' = Append(outgoing, [op |-> "AcknowledgeAll",
                                             seq |-> windowStart - 1])
      <4> HIDE DEF Ack
      <4> QED
        BY <3>3, <2>1, <2>2
    <3> QED
      BY <3>1, <3>2, <3>3
  <2> QED
    BY <2>3 DEF TypeOK, reassembly
<1>2. StashAheadOfWindow'
  BY DEF StashAheadOfWindow
<1>3. EachSequenceOnce' /\ DeliveredInOrder'
  BY DEF EachSequenceOnce, DeliveredInOrder, Reassembly, reassembly
<1>4. AcknowledgedIsHeld'
  <2>1. Stashed' = Stashed /\ corrupt' = corrupt /\ windowStart' = windowStart
    BY DEF Stashed, reassembly
  <2>2. SUFFICES ASSUME ~corrupt, NEW i \in DOMAIN outgoing'
                 PROVE  \/ outgoing'[i].seq < windowStart
                        \/ /\ outgoing'[i].op = "Acknowledge"
                           /\ \E packet \in Stashed :
                                 packet.id = outgoing'[i].seq
    BY <2>1 DEF AcknowledgedIsHeld
  <2>3. CASE i \in DOMAIN outgoing /\ outgoing'[i] = outgoing[i]
    BY <2>2, <2>3 DEF AcknowledgedIsHeld
  <2>4. CASE outgoing'[i] = [op |-> "AcknowledgeAll", seq |-> windowStart - 1]
    BY <2>4 DEF TypeOK
  <2>5. outgoing \in Seq(Ack)
    BY DEF TypeOK
  <2> QED
    BY <2>2, <2>3, <2>4, <2>5
<1> QED
  BY <1>1, <1>2, <1>3, <1>4

LEMMA StashAheadKeeps ==
    ASSUME InputInv, ~corrupt, NEW packet \in Packet, WithinLifetime(packet),
           StashAhead(packet)
    PROVE  InputInv'
<1> USE DEF InputInv
<1> DEFINE s == SequenceOf(packet)
<1>1. /\ windowStart \in Nat /\ MaxQueuedIncoming \in Nat \ {0}
      /\ stash \in [Slots -> Packet \cup {Empty}]
      /\ outgoing \in Seq(Ack)
  BY InputAssumption DEF TypeOK
<1>2. /\ s > windowStart /\ s <= windowStart + MaxQueuedIncoming
      /\ s = packet.id /\ s \in Nat
  BY <1>1, SequenceIsId DEF StashAhead
<1>3. /\ UNCHANGED <<windowStart, reassembly, lastAckAll, ackAge>>
      /\ stash' = IF stash[Slot(s)] = Empty
                  THEN [stash EXCEPT ![Slot(s)] = packet] ELSE stash
      /\ outgoing' = Append(outgoing, [op |-> "Acknowledge", seq |-> s])
  BY <1>1, <1>2 DEF StashAhead, AcknowledgePacket
<1>4. Slot(s) \in Slots
  BY <1>2, SlotFacts
<1>5. packet # Empty
  BY <1>2 DEF Empty
<1> HIDE DEF s
<1>6. TypeOK'
  <2>1. [op |-> "Acknowledge", seq |-> s] \in Ack
    BY <1>2 DEF Ack
  <2>2. outgoing' \in Seq(Ack)
    BY <2>1, <1>1, <1>3
  <2>3. stash' \in [Slots -> Packet \cup {Empty}]
    BY <1>1, <1>3, <1>4
  <2> QED
    BY <2>2, <2>3, <1>3 DEF TypeOK, reassembly
<1>7. StashAheadOfWindow'
  BY <1>1, <1>2, <1>3, <1>4 DEF StashAheadOfWindow
<1>8. EachSequenceOnce' /\ DeliveredInOrder'
  BY <1>3 DEF EachSequenceOnce, DeliveredInOrder, Reassembly, reassembly
<1>9. AcknowledgedIsHeld'
  <2>1. \A slot \in Slots : stash[slot] # Empty => stash'[slot] = stash[slot]
    BY <1>1, <1>3, <1>4
  <2>2. Stashed \subseteq Stashed'
    BY <2>1 DEF Stashed
  <2>3. \E held \in Stashed' : held.id = s
    <3>1. stash'[Slot(s)] # Empty /\ stash'[Slot(s)].id = s
      <4>1. CASE stash[Slot(s)] = Empty
        BY <4>1, <1>1, <1>2, <1>3, <1>4, <1>5
      <4>2. CASE stash[Slot(s)] # Empty
        BY <4>2, <1>2, <1>3, SlotHoldsSequence
      <4> QED
        BY <4>1, <4>2
    <3> QED
      BY <3>1, <1>4 DEF Stashed
  <2>4. SUFFICES ASSUME NEW i \in DOMAIN outgoing'
                 PROVE  \/ outgoing'[i].seq < windowStart
                        \/ /\ outgoing'[i].op = "Acknowledge"
                           /\ \E held \in Stashed' : held.id = outgoing'[i].seq
    BY <1>3 DEF AcknowledgedIsHeld
  <2>5. CASE i \in DOMAIN outgoing /\ outgoing'[i] = outgoing[i]
    BY <2>2, <2>5 DEF AcknowledgedIsHeld
  <2>6. CASE outgoing'[i] = [op |-> "Acknowledge", seq |-> s]
    BY <2>3, <2>6
  <2> QED
    BY <2>4, <2>5, <2>6, <1>1, <1>3
<1> QED
  BY <1>6, <1>7, <1>8, <1>9

LEMMA ProcessInOrderKeeps ==
    ASSUME InputInv, ~corrupt, NEW packet \in Packet, WithinLifetime(packet),
           ProcessInOrder(packet)
    PROVE  InputInv'
<1> USE DEF InputInv
<1>1. /\ windowStart \in Nat /\ MaxQueuedIncoming \in Nat \ {0}
      /\ stash \in [Slots -> Packet \cup {Empty}]
      /\ outgoing \in Seq(Ack)
  BY InputAssumption DEF TypeOK
<1>2. packet.id = windowStart
  <2>1. SequenceOf(packet) = windowStart
    BY DEF ProcessInOrder
  <2> QED
    BY <1>1, <2>1, SequenceIsId
<1>3. PICK n \in 0 .. MaxQueuedIncoming :
         LET run   == StashedRun(n)
             after == Absorbed(Reassembly, <<packet>> \o run)
             r     == after[n + 1]
             freed == {Slot(windowStart + i) : i \in 1 .. n}
         IN  /\ \A i \in 1 .. n : run[i] # Empty
             /\ ~after[n].corrupt
             /\ \/ r.corrupt
                \/ n = MaxQueuedIncoming
                \/ stash[Slot(windowStart + n + 1)] = Empty
             /\ stash' = [slot \in Slots |->
                             IF slot \in freed THEN Empty ELSE stash[slot]]
             /\ windowStart' = windowStart + n + (IF r.corrupt THEN 0 ELSE 1)
             /\ buffer' = r.buffer
             /\ expected' = r.expected
             /\ appData' = r.appData
             /\ corrupt' = r.corrupt
  BY DEF ProcessInOrder
<1> DEFINE packets == <<packet>> \o StashedRun(n)
           after == Absorbed(Reassembly, packets)
           r == after[n + 1]
           freed == {Slot(windowStart + i) : i \in 1 .. n}
<1>4. n \in Nat /\ n <= MaxQueuedIncoming
  BY <1>1
<1>5. ASSUME NEW i \in 1 .. n
      PROVE  /\ StashedRun(n)[i] = stash[Slot(windowStart + i)]
             /\ StashedRun(n)[i] \in Packet
             /\ StashedRun(n)[i].id = windowStart + i
  <2>1. StashedRun(n)[i] = stash[Slot(windowStart + i)]
    BY DEF StashedRun
  <2>2. stash[Slot(windowStart + i)] # Empty
    BY <1>3, <2>1
  <2>3. /\ windowStart + i \in Nat /\ windowStart < windowStart + i
        /\ windowStart + i <= windowStart + MaxQueuedIncoming
    BY <1>1, <1>4
  <2> QED
    BY <2>1, <2>2, <2>3, SlotHoldsSequence
<1>6. /\ packets \in Seq(Packet) /\ Len(packets) = n + 1
      /\ \A i \in 1 .. n + 1 : packets[i].id = windowStart + i - 1
  <2>1. /\ StashedRun(n) \in Seq(Packet) /\ Len(StashedRun(n)) = n
        /\ <<packet>> \in Seq(Packet)
    <3>1. StashedRun(n) \in [1 .. n -> Packet]
      BY <1>5 DEF StashedRun
    <3> QED
      BY <3>1, <1>4
  <2> HIDE DEF Packet
  <2>2. /\ packets \in Seq(Packet) /\ Len(packets) = n + 1
        /\ packets[1] = packet
        /\ \A i \in 2 .. n + 1 : packets[i] = StashedRun(n)[i - 1]
    BY <2>1, <1>4
  <2>3. ASSUME NEW i \in 2 .. n + 1
        PROVE  packets[i].id = windowStart + i - 1
    <3>1. i - 1 \in 1 .. n /\ windowStart + (i - 1) = windowStart + i - 1
      BY <1>1, <1>4
    <3> QED
      BY <3>1, <2>2, <1>5
  <2>4. packets[1].id = windowStart + 1 - 1
    BY <1>1, <1>2, <2>2
  <2> HIDE DEF packets
  <2> QED
    BY <2>2, <2>3, <2>4, <1>4
<1>7. Reassembly \in ReassemblyState /\ ~Reassembly.corrupt
  BY DEF Reassembly, ReassemblyState, TypeOK
<1>8. r \in ReassemblyState
  <2>1. n + 1 \in 0 .. Len(packets)
    BY <1>4, <1>6
  <2> HIDE DEF packets
  <2> QED
    BY <2>1, <1>6, <1>7, AbsorbedType
<1>9. /\ HoldsEachOnce(r, windowStart + n + IF r.corrupt THEN 0 ELSE 1)
      /\ HoldsInOrder(r)
  <2>1. ~after[n].corrupt
    BY <1>3
  <2>2. HoldsEachOnce(Reassembly, windowStart) /\ HoldsInOrder(Reassembly)
    BY DEF EachSequenceOnce, DeliveredInOrder
  <2> HIDE DEF packets
  <2> QED
    BY <2>1, <2>2, <1>1, <1>4, <1>6, <1>7, RunHoldsInOrder
<1>10. /\ \/ r.corrupt
          \/ n = MaxQueuedIncoming
          \/ stash[Slot(windowStart + n + 1)] = Empty
       /\ stash' = [slot \in Slots |->
                       IF slot \in freed THEN Empty ELSE stash[slot]]
       /\ windowStart' = windowStart + n + (IF r.corrupt THEN 0 ELSE 1)
       /\ Reassembly' = [buffer |-> r.buffer, expected |-> r.expected,
                         appData |-> r.appData, corrupt |-> r.corrupt]
       /\ corrupt' = r.corrupt
  BY <1>3 DEF Reassembly
<1>11. Reassembly' = r
  <2> HIDE DEF r
  <2> QED
    BY <1>8, <1>10 DEF ReassemblyState
<1>12. /\ \/ outgoing' = outgoing
          \/ outgoing' = Append(outgoing, [op |-> "Acknowledge", seq |-> windowStart])
       /\ UNCHANGED <<lastAckAll, ackAge>>
  BY DEF ProcessInOrder, AcknowledgePacket
<1> HIDE DEF r, after, packets
<1>13. windowStart' \in Nat /\ windowStart' >= windowStart + n
       /\ (~r.corrupt => windowStart' = windowStart + n + 1)
       /\ (r.corrupt => windowStart' = windowStart + n)
  BY <1>1, <1>4, <1>10
<1>14. TypeOK'
  <2>1. stash' \in [Slots -> Packet \cup {Empty}]
    BY <1>1, <1>10
  <2>2. /\ buffer' \in Seq(Ids) /\ expected' \in Nat
        /\ appData' \in Seq(Seq(Ids)) /\ corrupt' \in BOOLEAN
    <3>1. /\ buffer' = r.buffer /\ expected' = r.expected
          /\ appData' = r.appData /\ corrupt' = r.corrupt
      BY <1>11 DEF Reassembly
    <3> QED
      BY <3>1, <1>8 DEF ReassemblyState
  <2>3. outgoing' \in Seq(Ack)
    <3>1. [op |-> "Acknowledge", seq |-> windowStart] \in Ack
      BY <1>1 DEF Ack
    <3> QED
      BY <3>1, <1>1, <1>12
  <2> QED
    BY <2>1, <2>2, <2>3, <1>12, <1>13 DEF TypeOK
<1>15. StashAheadOfWindow'
  <2>1. SUFFICES ASSUME NEW slot \in Slots, stash'[slot] # Empty
                 PROVE  /\ windowStart' < stash'[slot].id
                        /\ stash'[slot].id <= windowStart' + MaxQueuedIncoming
                        /\ Slot(stash'[slot].id) = slot
    BY DEF StashAheadOfWindow
  <2>2. slot \notin freed /\ stash'[slot] = stash[slot]
    BY <2>1, <1>10
  <2> DEFINE x == stash[slot].id
  <2>3. /\ windowStart < x /\ x <= windowStart + MaxQueuedIncoming
        /\ Slot(x) = slot
    BY <2>1, <2>2 DEF StashAheadOfWindow
  <2>4. x \in Nat
    BY <2>1, <2>2, <1>1, InputAssumption DEF Packet
  <2> HIDE DEF x
  <2>5. x > windowStart + n
    <3>1. SUFFICES ASSUME x <= windowStart + n PROVE FALSE
      BY <2>4, <1>1, <1>4
    <3>2. x - windowStart \in 1 .. n /\ windowStart + (x - windowStart) = x
      BY <3>1, <2>3, <2>4, <1>1, <1>4
    <3>3. slot \in freed
      BY <3>2, <2>3
    <3> QED
      BY <3>3, <2>2
  <2>6. windowStart' < x
    <3>1. CASE r.corrupt
      BY <3>1, <2>5, <1>13
    <3>2. CASE ~r.corrupt
      <4>1. x # windowStart + n + 1
        <5>1. CASE n = MaxQueuedIncoming
          BY <5>1, <2>3, <2>4, <1>1, <1>4
        <5>2. CASE stash[Slot(windowStart + n + 1)] = Empty
          BY <5>2, <2>1, <2>2, <2>3
        <5> QED
          BY <5>1, <5>2, <3>2, <1>10
      <4> QED
        BY <4>1, <3>2, <2>4, <2>5, <1>1, <1>4, <1>13
    <3> QED
      BY <3>1, <3>2
  <2> QED
    BY <2>2, <2>3, <2>4, <2>6, <1>1, <1>4, <1>13 DEF x
<1>16. EachSequenceOnce' /\ DeliveredInOrder'
  BY <1>9, <1>10, <1>11 DEF EachSequenceOnce, DeliveredInOrder
<1>17. AcknowledgedIsHeld'
  <2>1. SUFFICES ASSUME ~r.corrupt, NEW i \in DOMAIN outgoing'
                 PROVE  \/ outgoing'[i].seq < windowStart'
                        \/ /\ outgoing'[i].op = "Acknowledge"
                           /\ \E held \in Stashed' : held.id = outgoing'[i].seq
    BY <1>10 DEF AcknowledgedIsHeld
  <2>2. windowStart' = windowStart + n + 1
    BY <2>1, <1>13
  <2>3. CASE i \in DOMAIN outgoing /\ outgoing'[i] = outgoing[i]
    <3> DEFINE a == outgoing[i].seq
    <3>1. a \in Int
      <4>1. outgoing[i] \in Ack
        BY <2>3, <1>1
      <4> QED
        BY <4>1 DEF Ack
    <3>2. \/ a < windowStart
          \/ /\ outgoing[i].op = "Acknowledge"
             /\ \E held \in Stashed : held.id = a
      BY <2>3 DEF AcknowledgedIsHeld
    <3>3. CASE a < windowStart
      BY <3>1, <3>3, <2>2, <2>3, <1>1, <1>4
    <3>4. CASE outgoing[i].op = "Acknowledge" /\ \E held \in Stashed : held.id = a
      <4>1. PICK slot \in Slots : stash[slot] # Empty /\ stash[slot].id = a
        BY <3>4 DEF Stashed
      <4>2. CASE slot \in freed
        <5>1. PICK j \in 1 .. n : slot = Slot(windowStart + j)
          BY <4>2
        <5>2. a = windowStart + j
          <6>1. stash[Slot(windowStart + j)].id = windowStart + j
            BY <1>5
          <6> QED
            BY <4>1, <5>1, <6>1
        <5> QED
          BY <5>2, <2>2, <2>3, <1>1, <1>4
      <4>3. CASE slot \notin freed
        <5>1. stash'[slot] = stash[slot]
          BY <4>3, <1>10
        <5> QED
          BY <4>1, <5>1, <2>3, <3>4 DEF Stashed
      <4> QED
        BY <4>2, <4>3
    <3> QED
      BY <3>2, <3>3, <3>4
  <2>4. CASE outgoing'[i] = [op |-> "Acknowledge", seq |-> windowStart]
    BY <2>2, <2>4, <1>1, <1>4
  <2> QED
    BY <2>1, <2>3, <2>4, <1>1, <1>12
<1> QED
  BY <1>14, <1>15, <1>16, <1>17

-----------------------------------------------------------------------------
(* Every step. *)

LEMMA HandleReliableKeeps ==
    ASSUME InputInv, NEW packet \in Packet, Receive(packet)
    PROVE  InputInv'
<1> USE DEF InputInv
<1>1. ~corrupt /\ WithinLifetime(packet)
  BY DEF Receive, HandleReliable
<1>2. CASE DropTooFarAhead(packet)
  BY <1>2 DEF DropTooFarAhead, vars, TypeOK, StashAheadOfWindow, EachSequenceOnce,
              DeliveredInOrder, Reassembly, reassembly, AcknowledgedIsHeld, Stashed
<1>3. CASE DropAlreadyProcessed(packet)
  <2>1. UNCHANGED <<windowStart, stash, reassembly>>
    BY <1>3 DEF DropAlreadyProcessed
  <2>2. CASE ackAge < MaxAckDelay
    <3>1. SendAckAll(windowStart - 1)
      BY <1>3, <2>2 DEF DropAlreadyProcessed
    <3>2. windowStart - 1 \in Int /\ 0 \in 0 .. MaxAckDelay + 1
      BY InputAssumption DEF TypeOK
    <3> QED
      BY <2>1, <3>1, <3>2, AcksOnlyKeeps DEF SendAckAll
  <2>3. CASE ~(ackAge < MaxAckDelay)
    <3>1. UNCHANGED <<lastAckAll, ackAge, outgoing>>
      BY <1>3, <2>3 DEF DropAlreadyProcessed
    <3>2. lastAckAll \in Int /\ ackAge \in 0 .. MaxAckDelay + 1
      BY DEF TypeOK
    <3> QED
      BY <2>1, <3>1, <3>2, AcksOnlyKeeps
  <2> QED
    BY <2>2, <2>3
<1>4. CASE StashAhead(packet)
  BY <1>1, <1>4, StashAheadKeeps
<1>5. CASE ProcessInOrder(packet)
  BY <1>1, <1>5, ProcessInOrderKeeps
<1> QED
  BY <1>2, <1>3, <1>4, <1>5 DEF Receive, HandleReliable

LEMMA NextKeeps == InputInv /\ [Next]_vars => InputInv'
<1> SUFFICES ASSUME InputInv, [Next]_vars PROVE InputInv'
  OBVIOUS
<1> USE DEF InputInv
<1>1. /\ windowStart - 1 \in Int /\ lastAckAll \in Int
      /\ ackAge \in 0 .. MaxAckDelay + 1 /\ MaxAckDelay \in Nat
  BY InputAssumption DEF TypeOK
<1>2. ASSUME NEW packet \in Packet, Receive(packet)
      PROVE  InputInv'
  BY <1>2, HandleReliableKeeps
<1>3. CASE RunTick
  <2>1. 0 \in 0 .. MaxAckDelay + 1
    BY <1>1
  <2> QED
    BY <1>1, <1>3, <2>1, AcksOnlyKeeps DEF RunTick, SendAckAll
<1>4. CASE Elapse
  <2>1. ackAge' \in 0 .. MaxAckDelay + 1 /\ lastAckAll' \in Int
    BY <1>1, <1>4 DEF Elapse
  <2> QED
    BY <1>4, <2>1, AcksOnlyKeeps DEF Elapse
<1>5. CASE TakeOutgoing
  BY <1>1, <1>5, AcksOnlyKeeps DEF TakeOutgoing
<1>6. CASE UNCHANGED vars
  BY <1>1, <1>6, AcksOnlyKeeps DEF vars
<1> QED
  BY <1>2, <1>3, <1>4, <1>5, <1>6 DEF Next

\* The parts of the invariant need one another: the handler looks up slots
\* (StashAheadOfWindow makes them sequences), what it releases must be the next
\* sequences (EachSequenceOnce), each the highest so far (DeliveredInOrder), and
\* what was acknowledged must have stayed in the stash until then
\* (AcknowledgedIsHeld).
THEOREM InputInvariant == Spec => []InputInv
<1>1. Init => InputInv
  BY InitEstablishes
<1>2. InputInv /\ [Next]_vars => InputInv'
  BY NextKeeps
<1> QED
  BY <1>1, <1>2, PTL DEF Spec

\* The variables keep their types, whatever the remote sends.
THEOREM InputTypes == Spec => []TypeOK
<1>1. InputInv => TypeOK
  BY DEF InputInv
<1> QED
  BY <1>1, InputInvariant, PTL

\* Stashed packets lie ahead of the window's start, each in its own slot,
\* though the window is one longer than the stash.
THEOREM StashIsAhead == Spec => []StashAheadOfWindow
<1>1. InputInv => StashAheadOfWindow
  BY DEF InputInv
<1> QED
  BY <1>1, InputInvariant, PTL

\* Every sequence before the window's start was received exactly once, and the
\* units the application is given are in the order of the packets that
\* completed them, each built in order: for every window size, every remote
\* that frames and fragments as it likes, and every order of arrival within a
\* bounded packet lifetime.
THEOREM ExactlyOnceInOrder == Spec => []OnceInOrder
<1>1. InputInv => OnceInOrder
  BY DEF InputInv, OnceInOrder
<1> QED
  BY <1>1, InputInvariant, PTL

\* An acknowledgement waiting to be sent is for a packet the channel holds.
THEOREM OnlyHeldIsAcknowledged == Spec => []AcknowledgedIsHeld
<1>1. InputInv => AcknowledgedIsHeld
  BY DEF InputInv
<1> QED
  BY <1>1, InputInvariant, PTL

LEMMA StepKeepsStash == InputInv /\ [Next]_vars => [StashStays]_vars
<1> SUFFICES ASSUME InputInv, Next PROVE StashStays
  BY DEF StashStays, vars
<1> USE DEF InputInv
<1>1. CASE UNCHANGED stash
  BY <1>1 DEF StashStays
<1>2. ASSUME NEW packet \in Packet, Receive(packet), StashAhead(packet)
      PROVE  StashStays
  <2>1. stash \in [Slots -> Packet \cup {Empty}]
    BY DEF TypeOK
  <2> QED
    BY <1>2, <2>1 DEF StashAhead, StashStays
<1>3. ASSUME NEW packet \in Packet, Receive(packet), ProcessInOrder(packet)
      PROVE  StashStays
  <2>1. /\ windowStart \in Nat /\ MaxQueuedIncoming \in Nat \ {0}
        /\ stash \in [Slots -> Packet \cup {Empty}]
    BY InputAssumption DEF TypeOK
  <2>2. PICK n \in 0 .. MaxQueuedIncoming :
           LET run   == StashedRun(n)
               after == Absorbed(Reassembly, <<packet>> \o run)
               r     == after[n + 1]
               freed == {Slot(windowStart + i) : i \in 1 .. n}
           IN  /\ \A i \in 1 .. n : run[i] # Empty
               /\ stash' = [slot \in Slots |->
                               IF slot \in freed THEN Empty ELSE stash[slot]]
               /\ windowStart' = windowStart + n + (IF r.corrupt THEN 0 ELSE 1)
               /\ corrupt' = r.corrupt
    BY <1>3 DEF ProcessInOrder
  <2> DEFINE freed == {Slot(windowStart + i) : i \in 1 .. n}
  <2>3. /\ stash' = [slot \in Slots |->
                        IF slot \in freed THEN Empty ELSE stash[slot]]
        /\ ~corrupt' => windowStart' = windowStart + n + 1
        /\ \A i \in 1 .. n : stash[Slot(windowStart + i)] # Empty
    BY <2>2 DEF StashedRun
  <2>4. SUFFICES ASSUME NEW slot \in Slots, stash[slot] # Empty, ~corrupt'
                 PROVE  \/ stash'[slot] = stash[slot]
                        \/ stash[slot].id < windowStart'
    BY DEF StashStays
  <2>5. CASE slot \in freed
    <3>1. PICK i \in 1 .. n : slot = Slot(windowStart + i)
      BY <2>5
    <3>2. /\ windowStart + i \in Nat /\ windowStart < windowStart + i
          /\ windowStart + i <= windowStart + MaxQueuedIncoming
      BY <2>1
    <3>3. stash[slot].id = windowStart + i
      BY <2>3, <3>1, <3>2, SlotHoldsSequence
    <3> QED
      BY <2>1, <2>3, <2>4, <3>3
  <2>6. CASE slot \notin freed
    BY <2>3, <2>6
  <2> QED
    BY <2>5, <2>6
<1>4. CASE \E packet \in Packet : Receive(packet)
  <2>1. PICK packet \in Packet : Receive(packet)
    BY <1>4
  <2> QED
    BY <2>1, <1>1, <1>2, <1>3
    DEF Receive, HandleReliable, DropTooFarAhead, DropAlreadyProcessed, vars
<1> QED
  BY <1>1, <1>4 DEF Next, RunTick, Elapse, TakeOutgoing

\* What was stashed is let go of only when processed or when the session is
\* over.
THEOREM StashIsKept == Spec => StashedStaysUntilProcessed
<1>1. InputInv /\ [Next]_vars => [StashStays]_vars
  BY StepKeepsStash
<1> QED
  BY <1>1, InputInvariant, PTL DEF Spec, StashedStaysUntilProcessed

-----------------------------------------------------------------------------
(* A remote whose packets carry messages, as those of ReliableOutput do.   *)

\* The first id of the k-th message; after the last message, the next id.
Start(messages, total, k) ==
    IF k \in DOMAIN messages THEN messages[k][1] ELSE total

\* Messages whose ids follow one another from 0 to total - 1.
Numbered(messages, total) ==
    /\ messages \in Seq(Seq(Ids))
    /\ total \in Nat
    /\ Start(messages, total, 1) = 0
    /\ \A k \in DOMAIN messages :
          /\ messages[k] # <<>>
          /\ \A i \in DOMAIN messages[k] :
                messages[k][i] = Start(messages, total, k) + i - 1
          /\ Start(messages, total, k + 1)
                = Start(messages, total, k) + Len(messages[k])
          /\ \A j \in k + 1 .. Len(messages) + 1 :
                Start(messages, total, k) + Len(messages[k])
                    <= Start(messages, total, j)

\* The i-th packet of a message, as ReliableOutput cuts it.
PacketOf(message, i) ==
    [id    |-> message[i],
     frag  |-> Len(message) > 1,
     total |-> IF Len(message) = 1 THEN NoPrefix
               ELSE IF i = 1 THEN Len(message) ELSE 0]

Carries(packet, messages) ==
    \E k \in DOMAIN messages : \E i \in DOMAIN messages[k] :
        packet = PacketOf(messages[k], i)

\* The reassembly state r has taken the first `count` ids: whole messages were
\* handed on, and the buffer holds the beginning of the next one.
Follows(r, messages, total, count) ==
    /\ ~r.corrupt
    /\ Len(r.appData) <= Len(messages)
    /\ \A k \in 1 .. Len(r.appData) : r.appData[k] = messages[k]
    /\ count = Start(messages, total, Len(r.appData) + 1) + Len(r.buffer)
    /\ r.buffer # <<>> =>
          LET message == messages[Len(r.appData) + 1]
          IN  /\ Len(r.appData) < Len(messages)
              /\ Len(r.buffer) < Len(message)
              /\ \A i \in 1 .. Len(r.buffer) : r.buffer[i] = message[i]
              /\ r.expected = Len(message)

\* The facts on one message that arithmetic needs.
LEMMA NumberedFacts ==
    ASSUME NEW messages, NEW total, Numbered(messages, total)
    PROVE  /\ Len(messages) \in Nat /\ DOMAIN messages = 1 .. Len(messages)
           /\ \A k \in 1 .. Len(messages) :
                 /\ messages[k] \in Seq(Ids)
                 /\ Len(messages[k]) \in Nat /\ Len(messages[k]) >= 1
                 /\ DOMAIN messages[k] = 1 .. Len(messages[k])
                 /\ Start(messages, total, k) \in Nat
           /\ Start(messages, total, Len(messages) + 1) = total
<1>1. messages \in Seq(Seq(Ids)) /\ total \in Nat
  BY DEF Numbered
<1>2. Len(messages) \in Nat /\ DOMAIN messages = 1 .. Len(messages)
  BY <1>1
<1>3. ASSUME NEW k \in 1 .. Len(messages)
      PROVE  /\ messages[k] \in Seq(Ids)
             /\ Len(messages[k]) \in Nat /\ Len(messages[k]) >= 1
             /\ DOMAIN messages[k] = 1 .. Len(messages[k])
             /\ Start(messages, total, k) \in Nat
  <2>1. messages[k] \in Seq(Ids) /\ messages[k] # <<>>
    <3>1. messages[k] \in Seq(Ids)
      BY <1>1
    <3>2. messages[k] # <<>>
      BY <1>2 DEF Numbered
    <3>3. QED
      BY <3>1, <3>2
  <2>2. /\ Len(messages[k]) \in Nat /\ Len(messages[k]) >= 1
        /\ DOMAIN messages[k] = 1 .. Len(messages[k])
    BY <2>1
  <2>3. messages[k][1] \in Ids
    BY <2>1, <2>2
  <2>4. messages[k][1] \in Nat
    BY <2>3, InputAssumption
  <2>5. QED
    BY <2>1, <2>2, <2>4, <1>2 DEF Start
<1>4. Start(messages, total, Len(messages) + 1) = total
  BY <1>2 DEF Start
<1>5. QED
  BY <1>2, <1>3, <1>4

\* The next packet in order is the next one of the message that is open, or
\* the first one of the next message.
LEMMA NextUnit ==
    ASSUME NEW messages, NEW total, Numbered(messages, total),
           NEW r \in ReassemblyState, NEW count \in Nat,
           Follows(r, messages, total, count),
           NEW packet, packet.id = count, Carries(packet, messages)
    PROVE  /\ Len(r.appData) < Len(messages)
           /\ Len(r.buffer) < Len(messages[Len(r.appData) + 1])
           /\ packet = PacketOf(messages[Len(r.appData) + 1], Len(r.buffer) + 1)
<1> DEFINE d == Len(r.appData)
           b == Len(r.buffer)
           First(k) == Start(messages, total, k)
           L(k) == Len(messages[k])
<1>1. /\ d \in Nat /\ b \in Nat /\ (r.buffer # <<>> <=> b > 0)
      /\ Len(messages) \in Nat /\ DOMAIN messages = 1 .. Len(messages)
      /\ total \in Nat
  <2>1. r.appData \in Seq(Seq(Ids)) /\ r.buffer \in Seq(Ids)
    BY DEF ReassemblyState
  <2>2. total \in Nat
    BY DEF Numbered
  <2>3. QED
    BY <2>1, <2>2, NumberedFacts
<1>2. PICK k \in 1 .. Len(messages) : \E i \in DOMAIN messages[k] :
         packet = PacketOf(messages[k], i)
  BY <1>1 DEF Carries
<1>3. L(k) \in Nat /\ L(k) >= 1 /\ DOMAIN messages[k] = 1 .. L(k)
      /\ First(k) \in Nat
  BY NumberedFacts
<1>4. PICK i \in 1 .. L(k) : packet = PacketOf(messages[k], i)
  BY <1>2, <1>3
<1>5. count = First(k) + i - 1
  <2>1. packet.id = messages[k][i]
    BY <1>4 DEF PacketOf
  <2>2. messages[k][i] = First(k) + i - 1
    BY <1>1, <1>3 DEF Numbered
  <2>3. QED
    BY <2>1, <2>2
<1>6. count = First(d + 1) + b /\ d <= Len(messages)
  BY DEF Follows
<1>7. \A j \in 1 .. Len(messages) : \A h \in j + 1 .. Len(messages) + 1 :
         First(j) + L(j) <= First(h)
  BY <1>1 DEF Numbered
<1>8. First(d + 1) \in Nat
  <2>1. CASE d < Len(messages)
    BY <2>1, <1>1, NumberedFacts
  <2>2. CASE d = Len(messages)
    BY <2>2, <1>1, NumberedFacts
  <2>3. QED
    BY <2>1, <2>2, <1>1, <1>6
<1>9. d < Len(messages) => b < L(d + 1) /\ L(d + 1) \in Nat
  <2>1. ASSUME d < Len(messages) PROVE L(d + 1) \in Nat /\ L(d + 1) >= 1
    <3>1. d + 1 \in 1 .. Len(messages)
      BY <2>1, <1>1
    <3> HIDE DEF d
    <3>2. QED
      BY <3>1, NumberedFacts
  <2>2. b > 0 => b < L(d + 1)
    BY <1>1 DEF Follows
  <2>3. QED
    BY <2>1, <2>2, <1>1
<1> HIDE DEF d, b, First, L
<1>10. ~(k <= d)
  <2>1. SUFFICES ASSUME k <= d PROVE FALSE
    OBVIOUS
  <2>2. d + 1 \in k + 1 .. Len(messages) + 1
    BY <2>1, <1>1, <1>6
  <2>3. First(k) + L(k) <= First(d + 1)
    BY <2>2, <1>7
  <2>4. QED
    BY <2>3, <1>1, <1>3, <1>5, <1>6, <1>8
<1>11. d < Len(messages)
  BY <1>1, <1>10
<1>12. ~(k > d + 1)
  <2>1. SUFFICES ASSUME k > d + 1 PROVE FALSE
    OBVIOUS
  <2>2. d + 1 \in 1 .. Len(messages) /\ k \in d + 1 + 1 .. Len(messages) + 1
    BY <2>1, <1>1, <1>11
  <2>3. First(d + 1) + L(d + 1) <= First(k)
    BY <2>2, <1>7
  <2>4. QED
    BY <2>3, <1>1, <1>3, <1>5, <1>6, <1>8, <1>9, <1>11
<1>13. k = d + 1
  BY <1>1, <1>10, <1>12
<1>14. i = b + 1
  BY <1>1, <1>5, <1>6, <1>8, <1>13
<1>15. QED
  BY <1>4, <1>9, <1>11, <1>13, <1>14 DEF d, b, L

\* Taking the next packet in order leaves the state following the messages.
LEMMA AbsorbFollows ==
    ASSUME NEW messages, NEW total, Numbered(messages, total),
           NEW r \in ReassemblyState, NEW count \in Nat,
           Follows(r, messages, total, count),
           NEW packet \in Packet, packet.id = count, Carries(packet, messages)
    PROVE  /\ Follows(Absorb(r, packet), messages, total, count + 1)
           /\ Len(r.appData) <= Len(Absorb(r, packet).appData)
<1> DEFINE d == Len(r.appData)
           b == Len(r.buffer)
           m == messages[d + 1]
           joined == Append(r.buffer, count)
           after == Absorb(r, packet)
<1>1. /\ d < Len(messages) /\ b < Len(m)
      /\ packet = PacketOf(m, b + 1)
  BY NextUnit
<1>2. /\ r.appData \in Seq(Seq(Ids)) /\ r.buffer \in Seq(Ids)
      /\ d \in Nat /\ b \in Nat /\ (r.buffer = <<>> <=> b = 0)
      /\ r.expected \in Nat /\ r.corrupt = FALSE
  BY DEF ReassemblyState, Follows
<1>3. /\ m \in Seq(Ids) /\ Len(m) \in Nat /\ Len(m) >= 1
      /\ Len(messages) \in Nat
  BY <1>1, <1>2, NumberedFacts
<1>4. /\ (Len(m) > 1 => packet.frag) /\ (Len(m) = 1 => ~packet.frag)
      /\ count = m[b + 1]
      /\ packet.total = IF Len(m) = 1 THEN NoPrefix
                        ELSE IF b = 0 THEN Len(m) ELSE 0
  <2>1. /\ packet.frag = (Len(m) > 1)
        /\ packet.total = IF Len(m) = 1 THEN NoPrefix
                          ELSE IF b + 1 = 1 THEN Len(m) ELSE 0
    BY <1>1 DEF PacketOf
  <2>2. packet.id = m[b + 1]
    BY <1>1 DEF PacketOf
  <2>3. b + 1 = 1 <=> b = 0
    BY <1>2
  <2> HIDE DEF m, b
  <2>4. Len(m) = 1 => ~(Len(m) > 1)
    BY <1>3
  <2>5. (Len(m) > 1 => packet.frag) /\ (Len(m) = 1 => ~packet.frag)
    BY <2>1, <2>4, Zenon
  <2>6. QED
    BY <2>1, <2>2, <2>3, <2>5
<1>5. /\ \A k \in 1 .. d : r.appData[k] = messages[k]
      /\ count = Start(messages, total, d + 1) + b
      /\ \A i \in 1 .. b : r.buffer[i] = m[i]
      /\ b > 0 => r.expected = Len(m)
  <2>1. b > 0 => r.buffer # <<>>
    BY <1>2
  <2>2. QED
    BY <2>1, <1>2 DEF Follows
<1>6. count \in Ids
  BY <1>1, <1>2, <1>3, <1>4
<1>7. /\ joined \in Seq(Ids) /\ Len(joined) = b + 1
      /\ \A i \in 1 .. b + 1 : joined[i] = m[i]
  <2>1. joined \in Seq(Ids) /\ Len(joined) = b + 1
    BY <1>2, <1>6
  <2>2. \A i \in 1 .. b : joined[i] = r.buffer[i]
    BY <1>2, <1>6
  <2>3. joined[b + 1] = count
    BY <1>2, <1>6
  <2>4. ASSUME NEW i \in 1 .. b + 1 PROVE joined[i] = m[i]
    <3>1. CASE i \in 1 .. b
      BY <3>1, <2>2, <1>5
    <3>2. CASE i = b + 1
      BY <3>2, <2>3, <1>4
    <3>3. QED
      BY <3>1, <3>2, <1>2
  <2>5. QED
    BY <2>1, <2>4
<1>8. /\ Start(messages, total, d + 2) = Start(messages, total, d + 1) + Len(m)
      /\ Start(messages, total, d + 1) \in Nat
  <2>1. d + 1 \in DOMAIN messages /\ (d + 1) + 1 = d + 2
    BY <1>1, <1>2, <1>3, NumberedFacts
  <2>2. Start(messages, total, (d + 1) + 1)
           = Start(messages, total, d + 1) + Len(m)
    BY <2>1 DEF Numbered
  <2>3. QED
    BY <2>1, <2>2, <1>1, <1>2, <1>3, NumberedFacts
<1>. HIDE DEF d, b, m, joined, after
<1>9. ASSUME after = [buffer |-> <<>>, expected |-> 0,
                      appData |-> Append(r.appData, m), corrupt |-> FALSE]
              \/ after = [buffer |-> <<>>, expected |-> r.expected,
                         appData |-> Append(r.appData, m), corrupt |-> FALSE],
             Len(m) = b + 1
      PROVE  /\ Follows(after, messages, total, count + 1)
             /\ d <= Len(after.appData)
  <2> DEFINE grown == Append(r.appData, m)
  <2>1. /\ Len(grown) = d + 1
        /\ \A k \in 1 .. d : grown[k] = r.appData[k]
        /\ grown[d + 1] = m
    BY <1>2, <1>3 DEF d
  <2>2. /\ after.buffer = <<>> /\ after.corrupt = FALSE
        /\ after.appData = grown
    BY <1>9
  <2> HIDE DEF grown
  <2>3. Len(after.buffer) = 0
    BY <2>2
  <2>4. count + 1 = Start(messages, total, d + 2)
    BY <1>2, <1>5, <1>8, <1>9
  <2>5. ASSUME NEW k \in 1 .. d + 1 PROVE grown[k] = messages[k]
    <3>1. CASE k \in 1 .. d
      BY <3>1, <2>1, <1>5
    <3>2. CASE k = d + 1
      BY <3>2, <2>1 DEF m
    <3>3. QED
      BY <3>1, <3>2, <1>2
  <2>6. /\ (d + 1) + 1 = d + 2 /\ d <= d + 1 /\ d + 1 <= Len(messages)
        /\ count + 1 = Start(messages, total, d + 2) + 0
    BY <1>1, <1>2, <1>3, <1>8, <2>4
  <2>7. QED
    BY <2>1, <2>2, <2>3, <2>5, <2>6 DEF Follows
<1>10. CASE Len(m) = 1
  <2>1. b = 0 /\ ~packet.frag /\ r.buffer = <<>>
    BY <1>1, <1>2, <1>3, <1>4, <1>10
  <2>2. <<count>> = m
    <3>1. <<count>> \in Seq(Ids) /\ Len(<<count>>) = 1 /\ <<count>>[1] = count
      BY <1>6
    <3>2. \A i \in 1 .. Len(<<count>>) : <<count>>[i] = m[i]
      BY <3>1, <2>1, <1>4
    <3>3. QED
      BY <3>1, <3>2, <1>3, <1>10, SeqEqual
  <2>3. after = [r EXCEPT !.appData = Append(r.appData, m)]
    BY <2>1, <2>2, <1>2 DEF Absorb, after
  <2>4. after = [buffer |-> <<>>, expected |-> r.expected,
                 appData |-> Append(r.appData, m), corrupt |-> FALSE]
    BY <2>1, <2>3, <1>2 DEF ReassemblyState
  <2>5. Len(m) = b + 1
    BY <2>1, <1>10
  <2>6. QED
    BY <2>4, <2>5, <1>9 DEF after, d
<1>11. ASSUME Len(m) # 1
       PROVE  after = IF Len(joined) >= Len(m)
                      THEN [buffer |-> <<>>, expected |-> 0,
                            appData |-> Append(r.appData, joined),
                            corrupt |-> FALSE]
                      ELSE [buffer |-> joined, expected |-> Len(m),
                            appData |-> r.appData, corrupt |-> FALSE]
  <2>1. packet.frag
    <3>1. \A k \in Nat : k >= 1 /\ k # 1 => k > 1
      OBVIOUS
    <3>2. Len(m) > 1
      BY <3>1, <1>3, <1>11, Zenon
    <3>3. QED
      BY <3>2, <1>4, Zenon
  <2>2. (IF r.buffer = <<>> THEN packet.total ELSE r.expected) = Len(m)
    <3>1. CASE b = 0
      BY <3>1, <1>2, <1>4, <1>11
    <3>2. CASE b # 0
      BY <3>2, <1>2, <1>5
    <3>3. QED
      BY <3>1, <3>2
  <2>3. ~(r.buffer = <<>> /\ packet.total = NoPrefix)
    BY <2>2, <1>3 DEF NoPrefix
  <2>4. joined = Append(r.buffer, packet.id)
    BY DEF joined
  <2>5. QED
    BY <2>1, <2>2, <2>3, <2>4, <1>2 DEF Absorb, after
<1>12. CASE Len(m) # 1 /\ Len(m) = b + 1
  <2>1. joined = m
    BY <1>3, <1>7, <1>12, SeqEqual
  <2>2. after = [buffer |-> <<>>, expected |-> 0,
                 appData |-> Append(r.appData, m), corrupt |-> FALSE]
    BY <2>1, <1>3, <1>11, <1>12
  <2>3. QED
    BY <2>2, <1>9, <1>12 DEF after, d
<1>13. CASE Len(m) # 1 /\ Len(m) # b + 1
  <2>1. b + 1 < Len(m) /\ ~(Len(joined) >= Len(m))
    BY <1>1, <1>2, <1>3, <1>7, <1>13
  <2>2. /\ after.buffer = joined /\ after.expected = Len(m)
        /\ after.appData = r.appData /\ after.corrupt = FALSE
    BY <2>1, <1>11, <1>13
  <2>3. /\ Len(after.appData) = d /\ Len(after.buffer) = b + 1
    BY <2>2, <1>7 DEF d
  <2>4. /\ count + 1 = Start(messages, total, d + 1) + (b + 1)
        /\ d <= Len(messages) /\ d <= d
    BY <1>1, <1>2, <1>3, <1>5, <1>8
  <2>5. /\ \A k \in 1 .. d : after.appData[k] = messages[k]
        /\ \A i \in 1 .. b + 1 : after.buffer[i] = m[i]
    BY <2>2, <1>5, <1>7
  <2>6. Follows(after, messages, total, count + 1)
    BY <2>1, <2>2, <2>3, <2>4, <2>5, <1>1 DEF Follows, m
  <2>7. QED
    BY <2>3, <2>4, <2>6 DEF after, d
<1>14. QED
  BY <1>10, <1>12, <1>13

\* So does taking a run of them, and the application loses nothing by it.
LEMMA RunFollows ==
    ASSUME NEW messages, NEW total, Numbered(messages, total),
           NEW r \in ReassemblyState, NEW start \in Nat,
           Follows(r, messages, total, start),
           NEW packets \in Seq(Packet),
           \A i \in 1 .. Len(packets) : /\ packets[i].id = start + i - 1
                                        /\ Carries(packets[i], messages)
    PROVE  \A i \in 0 .. Len(packets) :
              LET after == Absorbed(r, packets)[i]
              IN  /\ Follows(after, messages, total, start + i)
                  /\ Len(r.appData) <= Len(after.appData)
<1> DEFINE f == Absorbed(r, packets)
           Good(i) == /\ Follows(f[i], messages, total, start + i)
                      /\ Len(r.appData) <= Len(f[i].appData)
           S == {i \in Nat : i <= Len(packets) => Good(i)}
<1>1. /\ f[0] = r
      /\ \A i \in 1 .. Len(packets) : f[i] = Absorb(f[i - 1], packets[i])
  <2>1. Len(packets) \in Nat
    OBVIOUS
  <2> HIDE DEF Good, S
  <2> QED
    BY <2>1, AbsorbedSteps
<1>2. \A i \in 0 .. Len(packets) : f[i] \in ReassemblyState
  BY AbsorbedType
<1>3. \A x \in ReassemblyState : Len(x.appData) \in Nat
  BY DEF ReassemblyState
<1> HIDE DEF f
<1>4. 0 \in S
  <2>1. start + 0 = start
    OBVIOUS
  <2> QED
    BY <1>1, <1>3, <2>1
<1> HIDE DEF Good
<1>5. ASSUME NEW i \in Nat, i \in S
      PROVE  i + 1 \in S
  <2>1. SUFFICES ASSUME i + 1 <= Len(packets)
                 PROVE  Good(i + 1)
    BY DEF S
  <2>2. i \in 0 .. Len(packets) /\ i + 1 \in 1 .. Len(packets)
        /\ (i + 1) - 1 = i /\ i + 1 \in 0 .. Len(packets)
    BY <2>1
  <2>3. f[i + 1] = Absorb(f[i], packets[i + 1])
    BY <1>1, <2>2
  <2>4. /\ f[i] \in ReassemblyState /\ f[i + 1] \in ReassemblyState
        /\ packets[i + 1] \in Packet
    BY <1>2, <2>2
  <2>5. Follows(f[i], messages, total, start + i)
        /\ Len(r.appData) <= Len(f[i].appData)
    BY <1>5, <2>2 DEF Good
  <2>6. packets[i + 1].id = start + i /\ Carries(packets[i + 1], messages)
        /\ start + i \in Nat /\ start + i + 1 = start + (i + 1)
    BY <2>2
  <2>7. /\ Follows(f[i + 1], messages, total, start + i + 1)
        /\ Len(f[i].appData) <= Len(f[i + 1].appData)
    BY <2>3, <2>4, <2>5, <2>6, AbsorbFollows
  <2>8. Len(f[i].appData) \in Nat /\ Len(f[i + 1].appData) \in Nat
    BY <1>3, <2>4
  <2>9. Len(r.appData) \in Nat
    BY <1>3
  <2>10. Len(r.appData) <= Len(f[i + 1].appData)
    <3>1. \A a, b, c \in Nat : a <= b /\ b <= c => a <= c
      OBVIOUS
    <3> QED
      BY <3>1, <2>5, <2>7, <2>8, <2>9, Zenon
  <2> QED
    BY <2>6, <2>7, <2>10 DEF Good
<1>6. Nat \subseteq S
  <2> HIDE DEF S
  <2> QED
    BY <1>4, <1>5, NatSetInduction
<1> QED
  BY <1>6 DEF f, Good

-----------------------------------------------------------------------------
(* The messages grow. *)

\* The ids of the next message, of n packets.
NextMessage(total, n) == [i \in 1 .. n |-> total + i - 1]

LEMMA NumberedAppend ==
    ASSUME NEW messages, NEW total, Numbered(messages, total),
           NEW n \in Nat \ {0}, \A i \in 1 .. n : total + i - 1 \in Ids
    PROVE  LET next == NextMessage(total, n)
           IN  /\ Numbered(Append(messages, next), total + n)
               /\ \A k \in 1 .. Len(messages) + 1 :
                     Start(Append(messages, next), total + n, k)
                        = Start(messages, total, k)
<1> DEFINE next == [i \in 1 .. n |-> total + i - 1]
           longer == Append(messages, next)
           l == Len(messages)
           First(k) == Start(messages, total, k)
           Later(k) == Start(longer, total + n, k)
<1>1. messages \in Seq(Seq(Ids)) /\ total \in Nat /\ First(1) = 0
  BY DEF Numbered
<1>2. /\ l \in Nat /\ DOMAIN messages = 1 .. l
      /\ \A k \in 1 .. l :
            /\ Len(messages[k]) \in Nat /\ Len(messages[k]) >= 1
            /\ messages[k] # <<>>
            /\ DOMAIN messages[k] = 1 .. Len(messages[k])
            /\ First(k) \in Nat
      /\ First(l + 1) = total
  <2>1. \A k \in DOMAIN messages : messages[k] # <<>>
    BY DEF Numbered
  <2> QED
    BY <2>1, NumberedFacts
<1>3. /\ next \in Seq(Ids) /\ Len(next) = n /\ DOMAIN next = 1 .. n
      /\ \A i \in 1 .. n : next[i] = total + i - 1
      /\ next # <<>> /\ next[1] = total
  <2>1. next \in [1 .. n -> Ids]
    OBVIOUS
  <2>2. next \in Seq(Ids) /\ Len(next) = n /\ DOMAIN next = 1 .. n
    BY <2>1
  <2>3. \A i \in 1 .. n : next[i] = total + i - 1
    OBVIOUS
  <2>4. next[1] = total
    BY <2>3, <1>1
  <2>5. next # <<>>
    BY <2>2
  <2> QED
    BY <2>2, <2>3, <2>4, <2>5
<1> HIDE DEF next
<1>4. /\ longer \in Seq(Seq(Ids)) /\ Len(longer) = l + 1
      /\ DOMAIN longer = 1 .. l + 1
      /\ \A k \in 1 .. l : longer[k] = messages[k]
      /\ longer[l + 1] = next
  BY <1>1, <1>3
<1> HIDE DEF longer
<1>5. \A k \in 1 .. l + 1 : Later(k) = First(k)
  <2>1. ASSUME NEW k \in 1 .. l PROVE Later(k) = First(k)
    BY <1>2, <1>4 DEF Start
  <2>2. Later(l + 1) = total
    BY <1>2, <1>3, <1>4 DEF Start
  <2> QED
    BY <2>1, <2>2, <1>2
<1>6. Later(l + 2) = total + n
  BY <1>2, <1>4 DEF Start
<1>7. ASSUME NEW k \in 1 .. l
      PROVE  /\ \A i \in 1 .. Len(messages[k]) : messages[k][i] = First(k) + i - 1
             /\ First(k + 1) = First(k) + Len(messages[k])
             /\ \A j \in k + 1 .. l + 1 :
                   First(k) + Len(messages[k]) <= First(j)
  BY <1>2 DEF Numbered
<1> HIDE DEF First, Later, l
<1>8. ASSUME NEW k \in 1 .. l + 1
      PROVE  /\ longer[k] # <<>>
             /\ \A i \in DOMAIN longer[k] : longer[k][i] = Later(k) + i - 1
             /\ Later(k + 1) = Later(k) + Len(longer[k])
             /\ \A j \in k + 1 .. l + 2 : Later(k) + Len(longer[k]) <= Later(j)
  <2>1. CASE k \in 1 .. l
    <3>1. k + 1 \in 1 .. l + 1
      BY <2>1, <1>2
    <3>2. ASSUME NEW j \in k + 1 .. l + 2
          PROVE  First(k) + Len(messages[k]) <= Later(j)
      <4>1. CASE j \in k + 1 .. l + 1
        <5>1. j \in 1 .. l + 1
          BY <2>1, <4>1, <1>2
        <5> QED
          BY <2>1, <4>1, <5>1, <1>5, <1>7
      <4>2. CASE j = l + 2
        <5>1. l + 1 \in k + 1 .. l + 1
          BY <2>1, <1>2
        <5>2. First(k) + Len(messages[k]) <= total
          BY <2>1, <5>1, <1>2, <1>7
        <5> QED
          BY <2>1, <4>2, <5>2, <1>1, <1>2, <1>6
      <4> QED
        BY <4>1, <4>2, <2>1, <1>2
    <3> QED
      BY <2>1, <3>1, <3>2, <1>2, <1>4, <1>5, <1>7
  <2>2. CASE k = l + 1
    <3>1. /\ Later(k) = total /\ Later(k + 1) = total + n
          /\ longer[k] = next
      <4>1. k + 1 = l + 2
        BY <2>2, <1>2
      <4> QED
        BY <2>2, <4>1, <1>2, <1>4, <1>5, <1>6
    <3>2. ASSUME NEW j \in k + 1 .. l + 2
          PROVE  total + n <= Later(j)
      <4>1. j = l + 2
        BY <2>2, <1>2
      <4> QED
        BY <4>1, <1>1, <1>6
    <3> QED
      BY <3>1, <3>2, <1>3
  <2> QED
    BY <2>1, <2>2, <1>2
<1>9. Numbered(longer, total + n)
  <2>1. Later(1) = 0 /\ total + n \in Nat /\ Len(longer) + 1 = l + 2
    BY <1>1, <1>2, <1>4, <1>5 DEF First
  <2> QED
    BY <2>1, <1>4, <1>8 DEF Numbered, Later
<1> QED
  BY <1>5, <1>9 DEF longer, next, NextMessage, First, Later, l

\* What was carried, and what was followed, still is.
LEMMA CarriedByMore ==
    ASSUME NEW messages \in Seq(Seq(Ids)), NEW next \in Seq(Ids), NEW packet,
           Carries(packet, messages)
    PROVE  Carries(packet, Append(messages, next))
<1>1. PICK k \in DOMAIN messages : \E i \in DOMAIN messages[k] :
         packet = PacketOf(messages[k], i)
  BY DEF Carries
<1>2. k \in DOMAIN Append(messages, next)
      /\ Append(messages, next)[k] = messages[k]
  OBVIOUS
<1> QED
  BY <1>1, <1>2 DEF Carries

LEMMA FollowsMore ==
    ASSUME NEW messages, NEW total, Numbered(messages, total),
           NEW n \in Nat \ {0}, \A i \in 1 .. n : total + i - 1 \in Ids,
           NEW r \in ReassemblyState, NEW count,
           Follows(r, messages, total, count)
    PROVE  LET next == NextMessage(total, n)
           IN  Follows(r, Append(messages, next), total + n, count)
<1> DEFINE next == [i \in 1 .. n |-> total + i - 1]
           longer == Append(messages, next)
           d == Len(r.appData)
<1>1. \A k \in 1 .. Len(messages) + 1 :
         Start(longer, total + n, k) = Start(messages, total, k)
  BY NumberedAppend DEF NextMessage
<1>2. /\ messages \in Seq(Seq(Ids)) /\ total \in Nat
      /\ d \in Nat /\ Len(messages) \in Nat /\ d <= Len(messages)
  BY DEF Numbered, ReassemblyState, Follows
<1>3. next \in Seq(Ids)
  <2>1. next \in [1 .. n -> Ids]
    BY <1>2
  <2> QED
    BY <2>1
<1> HIDE DEF next
<1>4. /\ Len(longer) = Len(messages) + 1
      /\ \A k \in 1 .. Len(messages) : longer[k] = messages[k]
  BY <1>2, <1>3
<1> HIDE DEF longer
<1>5. Start(longer, total + n, d + 1) = Start(messages, total, d + 1)
      /\ d <= Len(longer) /\ (d < Len(messages) => d < Len(longer))
  BY <1>1, <1>2, <1>4
<1>6. d < Len(messages) => longer[d + 1] = messages[d + 1]
  <2>1. d < Len(messages) => d + 1 \in 1 .. Len(messages)
    BY <1>2
  <2> HIDE DEF d
  <2> QED
    BY <2>1, <1>4
<1>7. \A k \in 1 .. d : r.appData[k] = longer[k]
  BY <1>2, <1>4 DEF Follows
<1> QED
  BY <1>5, <1>6, <1>7 DEF Follows, longer, next, NextMessage

\* The packets of a message carry it.
LEMMA PacketCarried ==
    ASSUME NEW messages \in Seq(Seq(Ids)), NEW next \in Seq(Ids),
           NEW i \in DOMAIN next
    PROVE  Carries(PacketOf(next, i), Append(messages, next))
<1>1. /\ Len(messages) + 1 \in DOMAIN Append(messages, next)
      /\ Append(messages, next)[Len(messages) + 1] = next
  OBVIOUS
<1> QED
  BY <1>1 DEF Carries

\* A packet that carries a message is one a channel can be given.
LEMMA CarriedIsPacket ==
    ASSUME NEW messages, NEW total, Numbered(messages, total),
           NEW packet, Carries(packet, messages)
    PROVE  /\ packet.id \in Ids /\ packet.id \in Nat
           /\ packet.frag \/ packet.total = NoPrefix
<1>1. PICK k \in DOMAIN messages : \E i \in DOMAIN messages[k] :
         packet = PacketOf(messages[k], i)
  BY DEF Carries
<1>2. PICK i \in DOMAIN messages[k] : packet = PacketOf(messages[k], i)
  BY <1>1
<1>3. messages[k] \in Seq(Ids) /\ Len(messages[k]) \in Nat
      /\ Len(messages[k]) >= 1
  BY NumberedFacts
<1>4. packet.id = messages[k][i]
  BY <1>2 DEF PacketOf
<1>5. packet.id \in Ids
  BY <1>3, <1>4
<1>6. packet.id \in Nat
  BY <1>5, InputAssumption
<1>7. /\ packet.frag = (Len(messages[k]) > 1)
      /\ Len(messages[k]) = 1 => packet.total = NoPrefix
  BY <1>2 DEF PacketOf
<1>8. Len(messages[k]) > 1 \/ Len(messages[k]) = 1
  <2>1. \A l \in Nat : l >= 1 => l > 1 \/ l = 1
    OBVIOUS
  <2> QED
    BY <2>1, <1>3
<1> HIDE DEF NoPrefix
<1>9. packet.frag \/ packet.total = NoPrefix
  BY <1>7, <1>8, Zenon
<1> QED
  BY <1>5, <1>6, <1>9

-----------------------------------------------------------------------------
(* The channel, when the packets it is given carry messages. *)

\* The channel has taken the packet in: processed it or stashed it.
Holds(sequence) ==
    \/ sequence < windowStart
    \/ \E slot \in DOMAIN stash : stash[slot].id = sequence

StashCarries(messages) ==
    \A slot \in Slots : stash[slot] # Empty => Carries(stash[slot], messages)

\* What taking in a packet of the messages does to the channel.
TakesIn(packet, messages, total) ==
    /\ Follows(Reassembly', messages, total, windowStart')
    /\ Len(appData) <= Len(appData')
    /\ windowStart <= windowStart'
    /\ StashCarries(messages)'
    /\ \A s \in Nat : Holds(s) => Holds(s)'
    /\ \A s \in Nat : Holds(s)' => Holds(s) \/ s = packet.id
    /\ \/ outgoing' = outgoing
       \/ \E ack \in Ack : /\ outgoing' = Append(outgoing, ack)
                           /\ ack.seq >= windowStart - 1 /\ ack.seq >= 0
    /\ lastAckAll' = lastAckAll \/ lastAckAll' >= -1

LEMMA StashAheadTakesIn ==
    ASSUME InputInv, NEW packet \in Packet, WithinLifetime(packet),
           StashAhead(packet),
           NEW messages, NEW total,
           Follows(Reassembly, messages, total, windowStart),
           Carries(packet, messages), StashCarries(messages)
    PROVE  TakesIn(packet, messages, total)
<1> USE DEF InputInv
<1> DEFINE s == SequenceOf(packet)
<1>1. /\ windowStart \in Nat /\ MaxQueuedIncoming \in Nat \ {0}
      /\ stash \in [Slots -> Packet \cup {Empty}]
  BY InputAssumption DEF TypeOK
<1>2. /\ s > windowStart /\ s <= windowStart + MaxQueuedIncoming
      /\ s = packet.id /\ s \in Nat
  BY <1>1, SequenceIsId DEF StashAhead
<1>3. /\ UNCHANGED <<windowStart, reassembly, lastAckAll, ackAge>>
      /\ stash' = IF stash[Slot(s)] = Empty
                  THEN [stash EXCEPT ![Slot(s)] = packet] ELSE stash
      /\ outgoing' = Append(outgoing, [op |-> "Acknowledge", seq |-> s])
  BY <1>1, <1>2 DEF StashAhead, AcknowledgePacket
<1>4. Slot(s) \in Slots /\ packet # Empty
  BY <1>2, SlotFacts DEF Empty
<1> HIDE DEF s
<1>5. /\ DOMAIN stash = Slots /\ DOMAIN stash' = Slots
      /\ \A slot \in Slots : \/ stash'[slot] = stash[slot]
                             \/ stash'[slot] = packet /\ stash[slot] = Empty
  BY <1>1, <1>3
<1>6. Reassembly' = Reassembly /\ windowStart' = windowStart /\ appData' = appData
      /\ lastAckAll' = lastAckAll
  BY <1>3 DEF reassembly, Reassembly
<1>7. Len(appData) <= Len(appData') /\ windowStart <= windowStart'
  <2>1. Len(appData) \in Nat
    BY DEF TypeOK
  <2> QED
    BY <2>1, <1>1, <1>6
<1>8. StashCarries(messages)'
  BY <1>5 DEF StashCarries
<1>9. \A t \in Nat : Holds(t) => Holds(t)'
  <2>1. SUFFICES ASSUME NEW t \in Nat, Holds(t) PROVE Holds(t)'
    OBVIOUS
  <2>2. CASE t < windowStart
    BY <2>2, <1>6 DEF Holds
  <2>3. CASE \E slot \in Slots : stash[slot].id = t
    <3>1. PICK slot \in Slots : stash[slot].id = t
      BY <2>3
    <3>2. stash[slot] # Empty
      BY <3>1 DEF Empty
    <3>3. stash'[slot].id = t
      BY <3>1, <3>2, <1>5
    <3> QED
      BY <3>3, <1>5 DEF Holds
  <2> QED
    BY <2>1, <2>2, <2>3, <1>5 DEF Holds
<1>10. \A t \in Nat : Holds(t)' => Holds(t) \/ t = packet.id
  BY <1>5, <1>6 DEF Holds
<1>11. \E ack \in Ack : /\ outgoing' = Append(outgoing, ack)
                        /\ ack.seq >= windowStart - 1 /\ ack.seq >= 0
  <2>1. [op |-> "Acknowledge", seq |-> s] \in Ack
    BY <1>2 DEF Ack
  <2>2. s >= windowStart - 1 /\ s >= 0
    BY <1>1, <1>2
  <2> QED
    BY <2>1, <2>2, <1>3
<1> QED
  BY <1>6, <1>7, <1>8, <1>9, <1>10, <1>11 DEF TakesIn

LEMMA ProcessInOrderTakesIn ==
    ASSUME InputInv, NEW packet \in Packet, WithinLifetime(packet),
           ProcessInOrder(packet),
           NEW messages, NEW total, Numbered(messages, total),
           Follows(Reassembly, messages, total, windowStart),
           Carries(packet, messages), StashCarries(messages)
    PROVE  TakesIn(packet, messages, total)
<1> USE DEF InputInv
<1>1. /\ windowStart \in Nat /\ MaxQueuedIncoming \in Nat \ {0}
      /\ stash \in [Slots -> Packet \cup {Empty}] /\ DOMAIN stash = Slots
  BY InputAssumption DEF TypeOK
<1>2. packet.id = windowStart
  <2>1. SequenceOf(packet) = windowStart
    BY DEF ProcessInOrder
  <2> QED
    BY <1>1, <2>1, SequenceIsId
<1>3. PICK n \in 0 .. MaxQueuedIncoming :
         LET run   == StashedRun(n)
             after == Absorbed(Reassembly, <<packet>> \o run)
             r     == after[n + 1]
             freed == {Slot(windowStart + i) : i \in 1 .. n}
         IN  /\ \A i \in 1 .. n : run[i] # Empty
             /\ stash' = [slot \in Slots |->
                             IF slot \in freed THEN Empty ELSE stash[slot]]
             /\ windowStart' = windowStart + n + (IF r.corrupt THEN 0 ELSE 1)
             /\ buffer' = r.buffer
             /\ expected' = r.expected
             /\ appData' = r.appData
             /\ corrupt' = r.corrupt
  BY DEF ProcessInOrder
<1> DEFINE packets == <<packet>> \o StashedRun(n)
           r == Absorbed(Reassembly, packets)[n + 1]
           freed == {Slot(windowStart + i) : i \in 1 .. n}
<1>4. n \in Nat /\ n <= MaxQueuedIncoming
  BY <1>1
<1>5. ASSUME NEW i \in 1 .. n
      PROVE  /\ StashedRun(n)[i] = stash[Slot(windowStart + i)]
             /\ StashedRun(n)[i] \in Packet
             /\ StashedRun(n)[i].id = windowStart + i
             /\ Slot(windowStart + i) \in Slots
             /\ Carries(StashedRun(n)[i], messages)
  <2>1. StashedRun(n)[i] = stash[Slot(windowStart + i)]
    BY DEF StashedRun
  <2>2. stash[Slot(windowStart + i)] # Empty
    BY <1>3, <2>1
  <2>3. /\ windowStart + i \in Nat /\ windowStart < windowStart + i
        /\ windowStart + i <= windowStart + MaxQueuedIncoming
    BY <1>1, <1>4
  <2>4. Slot(windowStart + i) \in Slots
    BY <2>3, SlotFacts
  <2> QED
    BY <2>1, <2>2, <2>3, <2>4, SlotHoldsSequence DEF StashCarries
<1>6. /\ packets \in Seq(Packet) /\ Len(packets) = n + 1
      /\ \A i \in 1 .. n + 1 : /\ packets[i].id = windowStart + i - 1
                               /\ Carries(packets[i], messages)
  <2>1. /\ StashedRun(n) \in Seq(Packet) /\ Len(StashedRun(n)) = n
        /\ <<packet>> \in Seq(Packet)
    <3>1. StashedRun(n) \in [1 .. n -> Packet]
      BY <1>5 DEF StashedRun
    <3> QED
      BY <3>1, <1>4
  <2> HIDE DEF Packet
  <2>2. /\ packets \in Seq(Packet) /\ Len(packets) = n + 1
        /\ packets[1] = packet
        /\ \A i \in 2 .. n + 1 : packets[i] = StashedRun(n)[i - 1]
    BY <2>1, <1>4
  <2> HIDE DEF packets
  <2>3. ASSUME NEW i \in 2 .. n + 1
        PROVE  packets[i].id = windowStart + i - 1 /\ Carries(packets[i], messages)
    <3>1. i - 1 \in 1 .. n /\ windowStart + (i - 1) = windowStart + i - 1
      BY <1>1, <1>4
    <3> QED
      BY <3>1, <2>2, <1>5
  <2>4. packets[1].id = windowStart + 1 - 1 /\ Carries(packets[1], messages)
    BY <1>1, <1>2, <2>2
  <2> QED
    BY <2>2, <2>3, <2>4, <1>4
<1>7. Reassembly \in ReassemblyState /\ Reassembly.appData = appData
  BY DEF Reassembly, ReassemblyState, TypeOK
<1> HIDE DEF packets
<1>8. /\ r \in ReassemblyState
      /\ Follows(r, messages, total, windowStart + (n + 1))
      /\ Len(appData) <= Len(r.appData)
  <2>1. n + 1 \in 0 .. Len(packets)
    BY <1>4, <1>6
  <2> QED
    BY <2>1, <1>1, <1>6, <1>7, AbsorbedType, RunFollows
<1>9. r.corrupt = FALSE
  BY <1>8 DEF Follows, ReassemblyState
<1>10. /\ stash' = [slot \in Slots |->
                       IF slot \in freed THEN Empty ELSE stash[slot]]
       /\ windowStart' = windowStart + n + (IF r.corrupt THEN 0 ELSE 1)
       /\ Reassembly' = [buffer |-> r.buffer, expected |-> r.expected,
                         appData |-> r.appData, corrupt |-> r.corrupt]
       /\ appData' = r.appData
  BY <1>3 DEF Reassembly, packets
<1> HIDE DEF r
<1>11. Reassembly' = r
  BY <1>8, <1>10 DEF ReassemblyState
<1>12. windowStart' = windowStart + (n + 1) /\ windowStart <= windowStart'
  BY <1>1, <1>4, <1>9, <1>10
<1>13. DOMAIN stash' = Slots
       /\ \A slot \in Slots :
             stash'[slot] = IF slot \in freed THEN Empty ELSE stash[slot]
  BY <1>10
<1>14. StashCarries(messages)'
  BY <1>13 DEF StashCarries
<1>15. ASSUME NEW s \in Nat, Holds(s) PROVE Holds(s)'
  <2>1. CASE s < windowStart
    BY <2>1, <1>1, <1>12 DEF Holds
  <2>2. CASE \E slot \in Slots : stash[slot].id = s
    <3>1. PICK slot \in Slots : stash[slot].id = s
      BY <2>2
    <3>2. CASE slot \in freed
      <4>1. PICK i \in 1 .. n : slot = Slot(windowStart + i)
        BY <3>2
      <4>2. s = windowStart + i
        BY <3>1, <4>1, <1>5
      <4> QED
        BY <4>2, <1>1, <1>4, <1>12 DEF Holds
    <3>3. CASE slot \notin freed
      BY <3>1, <3>3, <1>13 DEF Holds
    <3> QED
      BY <3>2, <3>3
  <2> QED
    BY <2>1, <2>2, <1>1, <1>15 DEF Holds
<1>16. ASSUME NEW s \in Nat, Holds(s)' PROVE Holds(s) \/ s = packet.id
  <2>1. CASE s < windowStart'
    <3>1. s < windowStart \/ s = windowStart \/ s - windowStart \in 1 .. n
      BY <2>1, <1>1, <1>4, <1>12
    <3>2. CASE s - windowStart \in 1 .. n
      <4>1. windowStart + (s - windowStart) = s
        BY <1>1
      <4>2. stash[Slot(s)].id = s /\ Slot(s) \in Slots
        BY <3>2, <4>1, <1>5
      <4> QED
        BY <4>2, <1>1 DEF Holds
    <3> QED
      BY <3>1, <3>2, <1>2 DEF Holds
  <2>2. CASE \E slot \in Slots : stash'[slot].id = s
    <3>1. PICK slot \in Slots : stash'[slot].id = s
      BY <2>2
    <3>2. stash'[slot] # Empty
      BY <3>1 DEF Empty
    <3>3. stash'[slot] = stash[slot]
      BY <3>2, <1>13
    <3> QED
      BY <3>1, <3>3, <1>1 DEF Holds
  <2> QED
    BY <2>1, <2>2, <1>13, <1>16 DEF Holds
<1>17. \/ outgoing' = outgoing
       \/ \E ack \in Ack : /\ outgoing' = Append(outgoing, ack)
                           /\ ack.seq >= windowStart - 1 /\ ack.seq >= 0
  <2>1. [op |-> "Acknowledge", seq |-> windowStart] \in Ack
    BY <1>1 DEF Ack
  <2>2. windowStart >= windowStart - 1 /\ windowStart >= 0
    BY <1>1
  <2>3. \/ outgoing' = outgoing
        \/ outgoing' = Append(outgoing, [op |-> "Acknowledge", seq |-> windowStart])
    BY DEF ProcessInOrder, AcknowledgePacket
  <2> QED
    BY <2>1, <2>2, <2>3
<1>18. lastAckAll' = lastAckAll
  BY DEF ProcessInOrder, AcknowledgePacket
<1>19. Follows(Reassembly', messages, total, windowStart')
       /\ Len(appData) <= Len(appData')
  BY <1>8, <1>10, <1>11, <1>12
<1> QED
  BY <1>12, <1>14, <1>15, <1>16, <1>17, <1>18, <1>19 DEF TakesIn

LEMMA ReceiveTakesIn ==
    ASSUME InputInv, NEW packet \in Packet, Receive(packet),
           NEW messages, NEW total, Numbered(messages, total),
           Follows(Reassembly, messages, total, windowStart),
           Carries(packet, messages), StashCarries(messages)
    PROVE  TakesIn(packet, messages, total)
<1> USE DEF InputInv
<1>1. WithinLifetime(packet)
  BY DEF Receive
<1>2. ASSUME UNCHANGED <<windowStart, stash, reassembly>>,
             \/ outgoing' = outgoing
             \/ \E ack \in Ack : /\ outgoing' = Append(outgoing, ack)
                                 /\ ack.seq >= windowStart - 1 /\ ack.seq >= 0,
             lastAckAll' = lastAckAll \/ lastAckAll' >= -1
      PROVE  TakesIn(packet, messages, total)
  <2>1. Reassembly' = Reassembly /\ appData' = appData
        /\ windowStart' = windowStart /\ stash' = stash
    BY <1>2 DEF Reassembly, reassembly
  <2>2. Len(appData) <= Len(appData) /\ windowStart <= windowStart
    BY DEF TypeOK
  <2>3. \A s \in Nat : Holds(s)' <=> Holds(s)
    BY <2>1 DEF Holds
  <2>4. StashCarries(messages)'
    BY <2>1 DEF StashCarries
  <2> QED
    BY <2>1, <2>2, <2>3, <2>4, <1>2 DEF TakesIn
<1>3. CASE DropTooFarAhead(packet)
  BY <1>2, <1>3 DEF DropTooFarAhead, vars
<1>4. CASE DropAlreadyProcessed(packet)
  <2>1. windowStart > 0
    <3>1. /\ SequenceOf(packet) < windowStart /\ windowStart \in Nat
          /\ MaxQueuedIncoming \in Nat
      BY <1>4, InputAssumption DEF DropAlreadyProcessed, TypeOK
    <3>2. SequenceOf(packet) \in Int
      <4>1. packet.id \in Nat
        BY InputAssumption DEF Packet
      <4> QED
        BY <3>1, <4>1, SeqSpaceAssumption
        DEF SequenceOf, TrueIncomingSequence, Wire
    <3>3. SequenceOf(packet) \in Nat
      BY <3>1, <3>2, <1>1, SequenceIsId
    <3> QED
      BY <3>1, <3>3
  <2>2. CASE SendAckAll(windowStart - 1)
    <3>1. /\ [op |-> "AcknowledgeAll", seq |-> windowStart - 1] \in Ack
          /\ windowStart - 1 >= windowStart - 1 /\ windowStart - 1 >= 0
          /\ windowStart - 1 >= -1
      BY <2>1 DEF Ack, TypeOK
    <3> QED
      BY <3>1, <2>2, <1>2, <1>4 DEF DropAlreadyProcessed, SendAckAll
  <2>3. CASE UNCHANGED <<lastAckAll, ackAge, outgoing>>
    BY <2>3, <1>2, <1>4 DEF DropAlreadyProcessed
  <2> QED
    BY <2>2, <2>3, <1>4 DEF DropAlreadyProcessed
<1>5. CASE StashAhead(packet)
  BY <1>1, <1>5, StashAheadTakesIn
<1>6. CASE ProcessInOrder(packet)
  BY <1>1, <1>6, ProcessInOrderTakesIn
<1> QED
  BY <1>3, <1>4, <1>5, <1>6 DEF Receive, HandleReliable

\* The network takes the oldest acknowledgement.
LEMMA AckTakenKeeps ==
    ASSUME InputInv, UNCHANGED <<windowStart, stash, reassembly, lastAckAll, ackAge>>,
           outgoing # <<>>, outgoing' = Tail(outgoing)
    PROVE  InputInv'
<1> USE DEF InputInv
<1>1. outgoing \in Seq(Ack)
  BY DEF TypeOK
<1> HIDE DEF Ack
<1>2. outgoing' \in Seq(Ack)
      /\ \A i \in DOMAIN outgoing' : i + 1 \in DOMAIN outgoing
                                     /\ outgoing'[i] = outgoing[i + 1]
  BY <1>1
<1>3. TypeOK'
  BY <1>2 DEF TypeOK, reassembly
<1>4. StashAheadOfWindow' /\ EachSequenceOnce' /\ DeliveredInOrder'
  BY DEF StashAheadOfWindow, EachSequenceOnce, DeliveredInOrder, Reassembly, reassembly
<1>5. AcknowledgedIsHeld'
  <2>1. Stashed' = Stashed /\ corrupt' = corrupt /\ windowStart' = windowStart
    BY DEF Stashed, reassembly
  <2> QED
    BY <1>2, <2>1 DEF AcknowledgedIsHeld
<1> QED
  BY <1>3, <1>4, <1>5
=============================================================================
