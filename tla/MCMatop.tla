------------------------------ MODULE MCMatop ------------------------------
(***************************************************************************)
(* Matop for TLC: two threads, a publication or a request each or both by  *)
(* one of them, and a loss, a stop or a failed send.  With six packet      *)
(* identifiers a second connection uses those of the first again.  A       *)
(* failed send and a publication that waits use up the two records.  The   *)
(* identifiers of the requests have one bit.                               *)
(***************************************************************************)
EXTENDS Matop
=============================================================================
