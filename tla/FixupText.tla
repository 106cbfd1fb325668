----------------------------- MODULE FixupText -----------------------------
(***************************************************************************)
(* The text-editing engine shared by the kernel fixups of                  *)
(* bin/kernel-fixups.  A kernel source tree is a function from the files   *)
(* that exist to their contents, and a file's contents are a bag of        *)
(* passages: the anchors, markers and probes some fixup looks for, each    *)
(* with the number of places it occurs in.  Everything else in a file is   *)
(* invisible to the fixups and is left out.                                *)
(*                                                                         *)
(* An edit looks for the passage `old'.  The count-gated ones insist on    *)
(* exactly `want' places; those with want = 0 are Python's                 *)
(* "if old in src: src.replace(old, new, 1)".  Every place replaced gains  *)
(* the passages of `new'; `cut' names the passages that lie inside the     *)
(* replaced text and disappear with it.  The edit's own id stands for the  *)
(* text it inserts, so the tree itself says which edits have landed.       *)
(***************************************************************************)
EXTENDS Naturals, Sequences, FiniteSets, Bags, SequencesExt

\* The kernel sources the fixups edit.
EthC     == "dpaa_eth.c"
EthH     == "dpaa_eth.h"
OffH     == "dpaa_flow_offload.h"
EthtoolC == "dpaa_ethtool.c"
SfpC     == "sfp.c"
QmanC    == "qman.c"
FmanC    == "fman.c"
FmanH    == "fman.h"
KgC      == "fman_keygen.c"
KgH      == "fman_keygen_internal.h"
PortC    == "fman_port.c"
PortH    == "fman_port.h"
PcdC     == "fman_pcd.c"
PcdH     == "fman_pcd.h"
PcdIntH  == "fman_pcd_internal.h"
PcdKgC   == "fman_pcd_kg.c"
TestC    == "fman_pcd_cc_test.c"
CcC      == "fman_pcd_cc.c"

-----------------------------------------------------------------------------
\* One count-gated replacement: exactly one place, else the script exits 1.
Gate(id, old, new) ==
    [id |-> id, file |-> "", old |-> old, want |-> 1, every |-> FALSE,
     hard |-> TRUE, mark |-> {}, also |-> {}, new |-> new, cut |-> {}]

\* The same, keeping the anchor and adding text beside it.
Beside(id, old, new) == Gate(id, old, new \cup {old})

\* An anchor that must occur in exactly n places, all of them replaced.
Times(n, e) == [e EXCEPT !.want = n]

\* An ungated "replace the first occurrence".
Loose(e) == [e EXCEPT !.want = 0]

\* An ungated "replace every occurrence".
Every(e) == [e EXCEPT !.want = 0, !.every = TRUE]

\* A missing anchor is only logged.
Soft(e) == [e EXCEPT !.want = 0, !.hard = FALSE]

\* Skipped when all the passages of m are already in the file.
Unless(m, e) == [e EXCEPT !.mark = m]

\* The place of `old' must be close to the passages of a as well.
Near(a, e) == [e EXCEPT !.also = a]

\* The replaced text held the passages of c.
Cutting(c, e) == [e EXCEPT !.cut = c]

\* A list of edits made to one file.
On(f, edits) == [i \in DOMAIN edits |-> [edits[i] EXCEPT !.file = f]]

\* The files a list of edits touches.
FilesOf(edits) == {e.file : e \in ToSet(edits)}

\* Those whose text the edits changed, in the order they are written back.
ChangedFiles(old, new, edits) ==
    FoldLeft(LAMBDA s, e : IF e.file \in ToSet(s) \/ new[e.file] = old[e.file]
                           THEN s ELSE Append(s, e.file),
             <<>>, edits)

-----------------------------------------------------------------------------
(* A stage reads its files, edits them in memory and writes them back.     *)
(*   unless  all of these passages present: the stage is already applied   *)
(*   need    passages that an earlier fixup must have left                 *)
(*   gone    passages that may not survive the edits                       *)

Stage(edits) ==
    [edits |-> edits, unless |-> {}, need |-> {}, gone |-> {}]

StageUnless(f, mark, edits) == [Stage(edits) EXCEPT !.unless = {<<f, mark>>}]

Needing(f, passages, s) == [s EXCEPT !.need = @ \cup ({f} \X passages)]

Gone(f, passages, s) == [s EXCEPT !.gone = {f} \X passages]

(* A script is its stages with                                             *)
(*   exists  files without which it exits 0 at once                        *)
(*   done    marks that together mean "already applied": exit 0            *)
(*   mixed   some but not all of the marks present is an error             *)
(*   redo    what it still does to an already applied tree                 *)
(*   idle    exit status when no stage changed anything                    *)

Script(name, stages) ==
    [name |-> name, stages |-> stages, exists |-> {}, done |-> {},
     mixed |-> FALSE, redo |-> <<>>, idle |-> 0]

\* One file, one whole-file marker, all edits in one write.
Fixup(name, f, mark, edits) ==
    [Script(name, <<Stage(On(f, edits))>>) EXCEPT !.done = {<<f, mark>>}]

\* Several files, each carrying the marker once the script has run.
Batch(name, mark, edits) ==
    [Script(name, <<Stage(edits)>>)
        EXCEPT !.done = FilesOf(edits) \X {mark}]

\* A missing file is not an error for this script.
IfExist(files, s) == [s EXCEPT !.exists = files]

-----------------------------------------------------------------------------
\* In how many places a file has passage t.
Copies(t, c) == IF BagIn(t, c) THEN c[t] ELSE 0

Present(tree, at) == at[1] \in DOMAIN tree /\ BagIn(at[2], tree[at[1]])

AllPresent(tree, ats) == \A at \in ats : Present(tree, at)

\* A non-empty set of marks, all of them found.
Marked(tree, marks) == marks # {} /\ AllPresent(tree, marks)

\* The file after `old' was replaced in n places.
Rewritten(c, e, n) ==
    LET kept == c (-) [t \in {e.old} |-> n]
        left == [t \in BagToSet(kept) \ e.cut |-> kept[t]]
    IN  left (+) [t \in e.new |-> n] (+) SetToBag({e.id})

\* How many places the edit replaces: 0 when its gate refuses.
Places(c, e) ==
    IF ~(e.also \subseteq BagToSet(c)) THEN 0
    ELSE CASE e.want = 0 /\ e.every                       -> Copies(e.old, c)
           [] e.want = 0 /\ ~e.every /\ BagIn(e.old, c)   -> 1
           [] e.want > 0 /\ Copies(e.old, c) = e.want     -> e.want
           [] OTHER                                       -> 0

\* Mutant: a missing or ambiguous anchor is only logged.
ApplyEditSoft(r, e) ==
    IF ~r.ok \/ Marked(r.tree, {e.file} \X e.mark) \/ Places(r.tree[e.file], e) = 0
    THEN r
    ELSE [r EXCEPT !.tree[e.file] = Rewritten(@, e, Places(r.tree[e.file], e))]

\* One edit applied to the text in memory.
ApplyEdit(r, e) ==
    IF ~r.ok \/ Marked(r.tree, {e.file} \X e.mark)
    THEN r
    ELSE LET n == Places(r.tree[e.file], e)
         IN  IF n > 0 THEN [r EXCEPT !.tree[e.file] = Rewritten(@, e, n)]
                      ELSE [r EXCEPT !.ok = ~e.hard]

\* All the edits of a stage, in order.
ApplyEdits(r, edits) == FoldLeft(ApplyEdit, r, edits)

Opens(s) == FilesOf(s.edits) \cup {at[1] : at \in s.need \cup s.unless}

\* A whole stage: `ok' is false when the script exits with an error.
EvalStage(tree, s) ==
    LET readable == Opens(s) \subseteq DOMAIN tree
        applied == readable /\ Marked(tree, s.unless)
        r == ApplyEdits([ok |-> readable /\ AllPresent(tree, s.need), tree |-> tree],
                        s.edits)
    IN  IF applied THEN [ok |-> TRUE, tree |-> tree]
        ELSE [r EXCEPT !.ok = @ /\ \A at \in s.gone : ~Present(r.tree, at)]

\* What a script decides before its first stage.
Verdict(tree, s) ==
    LET found == {m \in s.done : Present(tree, m)}
    IN  IF ~(s.exists \subseteq DOMAIN tree) THEN "leave"
        ELSE IF ~({m[1] : m \in s.done} \subseteq DOMAIN tree) THEN "fail"
        ELSE IF s.done # {} /\ found = s.done THEN "redo"
        ELSE IF s.mixed /\ found # {} THEN "fail"
        ELSE "apply"

\* The next stage of a script; a failing stage writes nothing.
AfterStage(r, st) ==
    IF ~r.ok THEN r
    ELSE LET q == EvalStage(r.tree, st)
         IN  IF q.ok THEN q ELSE [r EXCEPT !.ok = FALSE]

RunStages(r, stages) == FoldLeft(AfterStage, r, stages)

\* A script run from start to finish.
RunScript(tree, s) ==
    LET start == [ok |-> TRUE, tree |-> tree]
        v == Verdict(tree, s)
        end == RunStages(start, IF v = "redo" THEN s.redo ELSE s.stages)
    IN  CASE v = "leave" -> start
          [] v = "fail"  -> [start EXCEPT !.ok = FALSE]
          [] OTHER       -> [end EXCEPT !.ok =
                               @ /\ (end.tree = tree /\ v = "apply" => s.idle = 0)]

\* The edits of a script, and those it makes to an already applied tree.
EditsOf(s) == UNION {ToSet(s.stages[i].edits) : i \in DOMAIN s.stages}
RedoEdits(s) == UNION {ToSet(s.redo[i].edits) : i \in DOMAIN s.redo}

\* The edit leaves passage at[2] in file at[1].
Makes(e, at) == at[1] = e.file /\ at[2] \in e.new \cup {e.id}

-----------------------------------------------------------------------------
(* What trees, edits, stages and scripts are.                              *)

IsTree(t) == t = [f \in DOMAIN t |-> t[f]] /\ \A f \in DOMAIN t : IsABag(t[f])

Edit == [id : STRING, file : STRING, old : STRING, want : Nat, every : BOOLEAN,
         hard : BOOLEAN, mark : SUBSET STRING, also : SUBSET STRING,
         new : SUBSET STRING, cut : SUBSET STRING]

Marks == SUBSET (STRING \X STRING)

AStage == [edits : Seq(Edit), unless : Marks, need : Marks, gone : Marks]

AScript == [name : STRING, stages : Seq(AStage), exists : SUBSET STRING, done : Marks,
            mixed : BOOLEAN, redo : Seq(AStage), idle : Nat]
=============================================================================
