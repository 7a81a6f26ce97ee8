------------------------------- MODULE MCWire -------------------------------
(* Small instances of Wire for TLC. *)
EXTENDS Wire

\* n bytes, none of them like the next one, the first one given.
Long(first, n) == [i \in 1 .. n |-> IF i = 1 THEN first ELSE (7 * i) % Radix]

\* Datagrams of 16 bytes cut most messages into fragments, of 48 none.
MCConfigs ==
    [crcLength : {0, 2}, compression : BOOLEAN, encrypted : BOOLEAN,
     udpLength : {16, 48}, remoteUdpLength : {16, 48}]

MCData ==
    {<<0>>, <<1>>, <<0, 0>>, <<0, 25, 1>>, <<Top, Top, Top>>,
     Long(3, 9), Long(0, 27), Long(5, 28), Long(0, 31)}

MCPairs ==
    {<<<<0>>, <<0, 25, 1, 7>>>>, <<Long(1, 30), Long(2, 31)>>}

MCControls ==
    [kind : {"Acknowledge", "AcknowledgeAll"}, channel : {0, 3},
     values : {<<U16Max>>}]
    \cup {[kind |-> "Disconnect", channel |-> 0, values |-> <<U16Max + 1, 6>>],
          [kind |-> "Heartbeat", channel |-> 0, values |-> <<>>],
          [kind |-> "SessionRequest", channel |-> 0,
           values |-> <<3, 1, 48, <<8, 9>>>>],
          [kind |-> "SessionRequest", channel |-> 0, values |-> <<3, 1, 48, <<>>>>],
          [kind |-> "SessionResponse", channel |-> 0,
           values |-> <<1, 77, 2, 0, 0, 48, 3>>],
          [kind |-> "RemapConnection", channel |-> 0, values |-> <<1, 77>>],
          [kind |-> "UnknownSender", channel |-> 0, values |-> <<>>]}

MCKey == <<5, 17, 2>>
=============================================================================
