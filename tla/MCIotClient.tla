---------------------------- MODULE MCIotClient ----------------------------
(***************************************************************************)
(* IotClient for TLC: two threads that ask for resets, stops, starts and   *)
(* reconnections, and power failures, at every point of every turn.        *)
(***************************************************************************)
EXTENDS IotClient
=============================================================================
