----------------------------- MODULE MCSwTimer -----------------------------
(***************************************************************************)
(* SwTimer for TLC: two timers with an owner each, whose calls interleave  *)
(* with each other, with the thread and with what its callbacks call.      *)
(***************************************************************************)
EXTENDS SwTimer

CONSTANTS c1, c2, t1, t2

MCOwner == [t \in Timers |-> IF t = t1 THEN c1 ELSE c2]
=============================================================================
