------------------------------ MODULE MCNetMgr ------------------------------
(***************************************************************************)
(* NetMgr for TLC: two calls or changes of the wire, one fault, and a      *)
(* back-off table of two intervals.                                        *)
(***************************************************************************)
EXTENDS NetMgr
=============================================================================
