--------------------------- MODULE MCForceSensor ---------------------------
(***************************************************************************)
(* ForceSensor for TLC: the bag at rest, a strike of 50 N as the simulated *)
(* sensor makes it, and a pull straight up that cancels the result.        *)
(***************************************************************************)
EXTENDS ForceSensor

MCRest == [fx |-> 0, fz |-> -196]
Strike == [fx |-> 500, fz |-> 604]
Pull == [fx |-> 0, fz |-> 196]
MCRaw == {MCRest, Strike, Pull}
=============================================================================
