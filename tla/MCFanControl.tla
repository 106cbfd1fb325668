---------------------------- MODULE MCFanControl ----------------------------
(* A small instance of FanControl. *)
EXTENDS FanControl
=============================================================================
