--------------------------- MODULE MCEhashTable ---------------------------
(* Three keys share a bucket, so that it grows from a record to one node and *)
(* to two; a record and a node more than that make room for the copies.      *)
EXTENDS EhashTable, TLC

MCBucketOf == [k \in Keys |-> 0]

\* The blocks of one pool are interchangeable.
Symmetry == Permutations(Recs) \cup Permutations(Nodes)
=============================================================================
