---------------------------- MODULE MCMultiplexer ----------------------------
(* Small instances of Multiplexer for TLC: two ports of one host and one of *)
(* another.                                                                 *)
EXTENDS Multiplexer, TLC

CONSTANTS a1, a2, b1

MCAddr == {a1, a2, b1}
MCSameHost(x, y) == x = y \/ {x, y} = {a1, a2}

\* The two ports play the same part in every action.
Ports == Permutations({a1, a2})
=============================================================================
