------------------------------ MODULE MCAskFlow -----------------------------
(* Small instances of AskFlow. *)
EXTENDS AskFlow, TLC

CONSTANTS c1, c2, k1, k2, n1, n2

\* Which tuples may follow each other at which address.
AnyTuple   == c1 :> {k1, k2} @@ c2 :> {k1, k2}  \* a tuple moves to another address
OneTuple   == c1 :> {k1}
Recycled   == c1 :> {k1, k2}                    \* an address is used for another tuple
=============================================================================
