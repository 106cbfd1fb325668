---------------------------- MODULE FixupLedger ----------------------------
(***************************************************************************)
(* What a kernel source preparation promises, whatever the files, markers  *)
(* and anchors: it starts from a tree without any edit, it only ever adds  *)
(* edits, it reports success only when every required edit is in the tree, *)
(* and a preparation that cannot do so stops.                              *)
(***************************************************************************)
EXTENDS Naturals

CONSTANT Edits          \* the edits the preparation may make

VARIABLES status,       \* "idle", "building", "built" or "stopped"
          required,     \* the edits this tree has to receive
          landed        \* the edits in the tree

LedgerVars == <<status, required, landed>>

LedgerInit == status = "idle" /\ required \in SUBSET Edits /\ landed = {}

Start ==
    /\ status \in {"idle", "stopped"}
    /\ status' = "building"
    /\ landed' = {}
    /\ UNCHANGED required

Land ==
    /\ status = "building"
    /\ landed' \in SUBSET Edits
    /\ landed \subseteq landed'
    /\ UNCHANGED <<status, required>>

Finish ==
    /\ status = "building"
    /\ required \subseteq landed
    /\ status' = "built"
    /\ UNCHANGED <<required, landed>>

\* A failed or killed preparation may leave any part of its work behind.
Stop ==
    /\ status = "building"
    /\ status' = "stopped"
    /\ landed' \in SUBSET landed
    /\ UNCHANGED required

\* A later hand-made run on the finished tree takes nothing away.
Rework ==
    /\ status = "built"
    /\ landed' \in SUBSET Edits
    /\ landed \subseteq landed'
    /\ UNCHANGED <<status, required>>

LedgerNext == Start \/ Land \/ Finish \/ Stop \/ Rework

LedgerSpec == LedgerInit /\ [][LedgerNext]_LedgerVars
=============================================================================
