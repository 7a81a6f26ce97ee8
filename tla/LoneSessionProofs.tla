--------------------------- MODULE LoneSessionProofs ---------------------------
(***************************************************************************)
(* A session against any remote (LoneSession), for every number of         *)
(* reliable channels, window, heartbeat, timeout, set of seeds and length  *)
(* of a bundle: the type invariant, the events its application hears, the  *)
(* order of Opened and data, and that a Disconnect is the last thing sent. *)
(***************************************************************************)
EXTENDS LoneSession, SessionProofs

\* The inductive invariant: between calls, a sound session holds back nothing.
SessionInv == Sound("Lax", session) /\ Flushed(session)

LEMMA DatagramsArrive == Datagrams \subseteq Incoming
<1>1. Packets \subseteq Arrivals
  <2>1. 0 .. Window \subseteq Nat
    BY SessionAssumption DEF SessionAssumption
  <2> QED
    BY <2>1 DEF Packets, Arrivals, Reasons, Effects
<1>2. UNION {[1 .. n -> Packets] : n \in 1 .. MaxBundle} \subseteq Seq(Arrivals)
  <2>1. SUFFICES ASSUME NEW n \in 1 .. MaxBundle,
                        NEW packets \in [1 .. n -> Packets]
                 PROVE  packets \in Seq(Arrivals)
    OBVIOUS
  <2>2. n \in Nat
    BY <2>1, LoneSessionAssumption DEF LoneSessionAssumption
  <2>3. packets \in [1 .. n -> Arrivals]
    BY <1>1, <2>1
  <2> QED
    BY <2>2, <2>3, FunctionIsSequence
<1> QED
  BY <1>2 DEF Datagrams, Incoming, Bodies

LEMMA DrainedSound ==
    ASSUME SessionInv
    PROVE  /\ Sound("Lax", drained) /\ Flushed(drained) /\ ~Surfacing(drained)
           /\ drained.state = session.state
BY TakenSound DEF SessionInv, drained, Pasts

LEMMA SessionStarts == Init => SessionInv
BY NewSound DEF Init, SessionInv, Pasts

LEMMA SessionSteps ==
    ASSUME SessionInv, [Next]_session
    PROVE  SessionInv'
<1>1. /\ Sound("Lax", drained) /\ Flushed(drained) /\ ~Surfacing(drained)
      /\ drained.state = session.state /\ "Lax" \in Pasts
  BY DrainedSound DEF Pasts
<1>2. ASSUME NEW id \in Ids, Connect(id)
      PROVE  Sound("Lax", session') /\ Flushed(session')
  BY <1>1, <1>2, ConnectSound DEF Connect
<1>3. ASSUME NEW datagram \in Datagrams, Receive(datagram)
      PROVE  Sound("Lax", session') /\ Flushed(session')
  <2>1. PICK key \in IF datagram.op = "SessionRequest" THEN Keys ELSE {NoKey} :
           session' = ProcessIncoming(drained, datagram, key)
    BY <1>3 DEF Receive
  <2>2. datagram.op = "SessionRequest" => key \in Keys
    BY <2>1
  <2>3. drained.state # "Terminated"
    BY <1>1, <1>3 DEF Receive
  <2> QED
    BY <1>1, <2>1, <2>2, <2>3, DatagramsArrive, IncomingSound
<1>4. ASSUME Tick PROVE Sound("Lax", session') /\ Flushed(session')
  BY <1>1, <1>4, TickSound DEF Tick
<1>5. ASSUME Elapse PROVE Sound("Lax", session') /\ Flushed(session')
  BY <1>1, <1>5, AgeSound DEF Elapse
<1>6. ASSUME NEW ch \in Channels, EnqueueOn(ch)
      PROVE  Sound("Lax", session') /\ Flushed(session')
  BY <1>1, <1>6, EnqueueReliableSound DEF EnqueueOn
<1>7. ASSUME NEW tooLarge \in BOOLEAN, EnqueueBestEffort(tooLarge)
      PROVE  Sound("Lax", session') /\ Flushed(session')
  BY <1>1, <1>7, EnqueueUnreliableSound DEF EnqueueBestEffort
<1>8. ASSUME NEW notifyRemote \in BOOLEAN, Close(notifyRemote)
      PROVE  Sound("Lax", session') /\ Flushed(session')
  <2>1. session' = Terminate(drained, "Application", notifyRemote, FALSE)
    BY <1>8 DEF Close
  <2>2. Sound("Lax", session') /\ session'.state = "Terminated"
    BY <1>1, <2>1, TerminateSound DEF Reasons
  <2> QED
    BY <2>2 DEF Sound, LastWords
<1>9. ASSUME UNCHANGED session PROVE Sound("Lax", session') /\ Flushed(session')
  BY <1>9 DEF SessionInv
<1>10. Sound("Lax", session') /\ Flushed(session')
  BY <1>2, <1>3, <1>4, <1>5, <1>6, <1>7, <1>8, <1>9 DEF Next
<1> QED
  BY <1>10 DEF SessionInv

LEMMA SessionAlwaysSound == Spec => []SessionInv
<1>1. SessionInv /\ [Next]_session => SessionInv'
  BY SessionSteps
<1> QED
  BY SessionStarts, <1>1, PTL DEF Spec

-----------------------------------------------------------------------------
(* The theorems. *)

\* Every field of a session stays in its range, whatever a remote sends and
\* whatever the application does between.
THEOREM SessionTypes == Spec => []TypeOK
<1>1. SessionInv => TypeOK
  <2> SUFFICES ASSUME SessionInv PROVE TypeOK
    OBVIOUS
  <2>1. session \in Sessions /\ WindowsHold(session)
    BY DEF SessionInv, Sound
  <2>2. ASSUME NEW ch \in Channels
        PROVE  /\ 0 <= session.outputs[ch].sent
               /\ session.outputs[ch].sent <= session.outputs[ch].queued
    <3>1. session.outputs[ch] \in Outputs
      BY <2>1 DEF Sessions
    <3> QED
      BY <2>1, <3>1 DEF Outputs, WindowsHold
  <2> QED
    BY <2>1, <2>2 DEF TypeOK, Sessions
<1> QED
  BY <1>1, SessionAlwaysSound, PTL

\* The application hears that a session opened at most once, then that it
\* closed at most once, and of its end exactly when run_tick, process_incoming
\* or terminate has ended it.
THEOREM SessionTellsItsLife == Spec => []Lifecycle
<1>1. SessionInv => Lifecycle
  <2> SUFFICES ASSUME SessionInv PROVE Lifecycle
    OBVIOUS
  <2>1. /\ session \in Sessions /\ Told("Lax", session)
    BY DEF SessionInv, Sound
  <2>2. /\ session.state \in {"Negotiating", "Running", "Terminated"}
        /\ session.openOnNextPacket \in BOOLEAN
    BY <2>1 DEF Sessions
  <2> DEFINE told == session.events
             opened == \E i \in DOMAIN told : told[i] = "Opened"
             closed == \E i \in DOMAIN told : told[i] = "Closed"
  <2>3. Lifecycle <=>
           /\ told \in {<<>>, <<"Opened">>, <<"Closed">>, <<"Opened", "Closed">>}
           /\ session.state = "Terminated" <=> closed
           /\ session.state = "Running" =>
                 (opened <=> ~session.openOnNextPacket)
    BY DEF Lifecycle
  <2>4. /\ told = <<>> => ~opened /\ ~closed
        /\ told = <<"Opened">> => opened /\ ~closed
        /\ told = <<"Closed">> => closed
        /\ told = <<"Opened", "Closed">> => closed
    <3>1. \A i \in DOMAIN <<>> : FALSE
      OBVIOUS
    <3>2. /\ DOMAIN <<"Opened">> = {1} /\ <<"Opened">>[1] = "Opened"
          /\ DOMAIN <<"Closed">> = {1} /\ <<"Closed">>[1] = "Closed"
      OBVIOUS
    <3>3. /\ 2 \in DOMAIN <<"Opened", "Closed">>
          /\ <<"Opened", "Closed">>[2] = "Closed"
      OBVIOUS
    <3> HIDE DEF told
    <3> QED
      BY <3>1, <3>2, <3>3
  <2> HIDE DEF told, opened, closed
  <2>5. /\ session.state = "Negotiating" => told = <<>>
        /\ session.state = "Running" =>
              \/ told = <<>> /\ session.openOnNextPacket = TRUE
              \/ told = <<"Opened">> /\ session.openOnNextPacket = FALSE
        /\ session.state = "Terminated" =>
              told \in {<<"Closed">>, <<"Opened", "Closed">>}
    BY <2>1 DEF Told, told
  <2>6. told \in {<<>>, <<"Opened">>, <<"Closed">>, <<"Opened", "Closed">>}
    BY <2>2, <2>5
  <2>7. CASE session.state = "Negotiating"
    BY <2>3, <2>4, <2>5, <2>6, <2>7
  <2>8. CASE session.state = "Running" /\ session.openOnNextPacket = TRUE
    <3>1. told = <<>>
      BY <2>5, <2>8
    <3> QED
      BY <2>3, <2>4, <2>6, <2>8, <3>1
  <2>9. CASE session.state = "Running" /\ session.openOnNextPacket = FALSE
    <3>1. told = <<"Opened">>
      BY <2>5, <2>9
    <3> QED
      BY <2>3, <2>4, <2>6, <2>9, <3>1
  <2>10. CASE session.state = "Terminated"
    BY <2>3, <2>4, <2>5, <2>6, <2>10
  <2> QED
    BY <2>2, <2>7, <2>8, <2>9, <2>10
<1> QED
  BY <1>1, SessionAlwaysSound, PTL

\* No data surfaces before Opened once a session has agreed on a seed, whichever
\* packet process_incoming opens it with.
THEOREM SessionOpensFirst == Spec => []DataAfterOpened
<1>1. SessionInv => DataAfterOpened
  <2> SUFFICES ASSUME SessionInv, session.received # <<>>
               PROVE  \/ session.events # <<>> /\ session.events[1] = "Opened"
                      \/ session.key = NoKey
    BY DEF DataAfterOpened
  <2>1. Opened("Lax", session) \/ session.key = NoKey
    BY DEF SessionInv, Sound, Surfacing, Entitled
  <2>2. ASSUME Opened("Lax", session)
        PROVE  session.events # <<>> /\ session.events[1] = "Opened"
    BY <2>2 DEF Opened
  <2> QED
    BY <2>1, <2>2
<1> QED
  BY <1>1, SessionAlwaysSound, PTL

LEMMA QuietIsNoDisconnect ==
    ASSUME NEW message \in Quiet, message.op = "Contextual"
    PROVE  message.packets[1].op # "Disconnect"
<1>1. PICK key \in Seeds, packet \in Carried : message = Contextual(key, packet)
  BY DEF Quiet, SessionRequest, SessionResponse, Unreliable
<1>2. message.packets[1] = packet
  BY <1>1 DEF Contextual
<1>3. packet.op # "Disconnect"
  BY DEF Carried
<1> QED
  BY <1>2, <1>3

\* A session sends nothing after its Disconnect, and keeps nothing that it
\* might have sent before it.
THEOREM SessionEndsWithDisconnect == Spec => []DisconnectIsLast
<1>1. SessionInv => DisconnectIsLast
  <2> SUFFICES ASSUME SessionInv PROVE DisconnectIsLast
    OBVIOUS
  <2>1. session \in Sessions /\ Flushed(session) /\ LastWords(session)
    BY DEF SessionInv, Sound
  <2>2. PICK quiet \in Seq(Quiet) :
           \/ session.outgoing = quiet
           \/ \E notice \in Notices : session.outgoing = Append(quiet, notice)
    BY <2>1 DEF LastWords
  <2>3. ASSUME NEW i \in DOMAIN session.outgoing,
               i # Len(session.outgoing),
               session.outgoing[i].op = "Contextual"
        PROVE  session.outgoing[i].packets[1].op # "Disconnect"
    <3>1. i \in 1 .. Len(quiet) /\ session.outgoing[i] = quiet[i]
      BY <2>2, <2>3
    <3>2. session.outgoing[i] \in Quiet
      BY <2>2, <3>1
    <3> QED
      BY <2>3, <3>2, QuietIsNoDisconnect
  <2>4. ASSUME NEW ch \in Channels PROVE Pending(session, ch) = <<>>
    BY <2>1, PendingIsQuiet DEF Flushed
  <2> QED
    BY <2>3, <2>4 DEF DisconnectIsLast
<1> QED
  BY <1>1, SessionAlwaysSound, PTL
=============================================================================
