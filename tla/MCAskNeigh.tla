----------------------------- MODULE MCAskNeigh -----------------------------
(* A small instance of AskNeigh: two notifiers can race for the last place.  *)
EXTENDS AskNeigh

CONSTANTS p1, p2, a, b
=============================================================================
