---------------------------- MODULE MCTimedOutput ----------------------------
(* Small instances of TimedOutput for TLC. *)
EXTENDS TimedOutput

CONSTANT MaxSequence   \* sequences are given out, and acknowledged, up to it

MCNext == TimedNext /\ totalSequence' <= MaxSequence /\ maxClient' <= MaxSequence
MCSpec == TimedInit /\ [][MCNext]_allVars
=============================================================================
