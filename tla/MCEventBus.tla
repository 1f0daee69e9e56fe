----------------------------- MODULE MCEventBus -----------------------------
(***************************************************************************)
(* EventBus for TLC: subscribers of all three types and two publishers.    *)
(***************************************************************************)
EXTENDS EventBus, TLC

CONSTANTS n1, e1, o1

MCSubType == [s \in Subs |-> IF s = e1 THEN "EMERGENCY" ELSE IF s = o1 THEN "ONETIME" ELSE "NORMAL"]

\* The publishers are interchangeable.
Symmetric == Permutations(Publishers)
=============================================================================
