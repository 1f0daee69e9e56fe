---------------------------- MODULE MCWorkQueue ----------------------------
(***************************************************************************)
(* WorkQueue for TLC: two clients and the worker's own callbacks compete   *)
(* for two slots, with three acceptances in all, so that the queue fills,  *)
(* refuses work, and is cancelled and released in every state of fill.     *)
(***************************************************************************)
EXTENDS WorkQueue
=============================================================================
