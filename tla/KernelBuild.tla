---------------------------- MODULE KernelBuild ----------------------------
(***************************************************************************)
(* The kernel source preparation of bin/ci-setup-kernel.sh: reset the      *)
(* tree, apply the patches, then run the chain of fixups under "set -e".   *)
(* Each script is a process that reads files, edits them in memory and     *)
(* writes them back one at a time.                                         *)
(*                                                                         *)
(* Faults, at most MaxFaults of them: the patched tree differs from the    *)
(* one the fixups were written for (a passage missing or occurring once    *)
(* too often, a file absent), or the job is killed, possibly while a file  *)
(* is being rewritten.  A killed job is started again from the reset.      *)
(* After a successful build scripts may be run again by hand.              *)
(*                                                                         *)
(* The chain and the tree the patches leave are parameters; KernelChain    *)
(* has the real ones.                                                      *)
(***************************************************************************)
EXTENDS FixupText

CONSTANTS Chain,            \* the scripts, each with the files the driver tests for
          Patched,          \* the kernel sources after the patches
          Shadowed,         \* edits known to find another script's marker
          NotIdempotent,    \* names of scripts that may not be run twice
          MaxFaults,        \* how often a job may be killed; 0: no drift either
          MaxHandRuns       \* how many scripts are run again by hand

ASSUME BoundsAssumption == MaxFaults \in Nat /\ MaxHandRuns \in Nat

VARIABLES tree,     \* the kernel sources: file -> bag of passages
          phase,    \* "idle", "running", "writing", "built", "failed" or "killed"
          pc,       \* position in the chain
          stage,    \* next stage of the script at pc; 0 before its first test
          redo,     \* the script found itself already applied
          mem,      \* the files as edited in memory, while they are written
          out,      \* the files still to be written, in order
          start,    \* the tree when the script at pc began
          kills,    \* how often the job has been killed
          drift,    \* how the patched tree differs from the intended one
          hand      \* the scripts run by hand so far

vars == <<tree, phase, pc, stage, redo, mem, out, start, kills, drift, hand>>

-----------------------------------------------------------------------------
(* The tree a job starts from.                                             *)

Files == DOMAIN Patched

NoDrift == [kind |-> "none", file |-> "", passage |-> ""]

Drifts ==
    {NoDrift} \cup
    (IF MaxFaults = 0 THEN {} ELSE
        [kind : {"absent"}, file : Files, passage : {""}] \cup
        UNION {[kind : {"lost", "twice"}, file : {f}, passage : BagToSet(Patched[f])] :
                   f \in Files})

\* git reset --hard, git clean, copied files and the patch loop: a patch that
\* does not apply is counted and the job goes on.
PreparedTree(d) ==
    CASE d.kind = "none"   -> Patched
      [] d.kind = "absent" -> [f \in Files \ {d.file} |-> Patched[f]]
      [] d.kind = "lost"   -> [Patched EXCEPT ![d.file] = @ (-) SetToBag({d.passage})]
      [] d.kind = "twice"  -> [Patched EXCEPT ![d.file] = @ (+) SetToBag({d.passage})]

Scripts == {Chain[i].script : i \in DOMAIN Chain}

-----------------------------------------------------------------------------
Init ==
    /\ drift \in Drifts
    /\ tree = PreparedTree(drift)
    /\ phase = "idle"
    /\ pc = 1 /\ stage = 0 /\ redo = FALSE
    /\ mem = <<>> /\ out = <<>> /\ start = <<>>
    /\ kills = 0 /\ hand = 0

\* Mutant: the next job goes on from the tree the killed one left.
PrepareKeeps ==
    /\ phase \in {"idle", "killed"}
    /\ phase' = "running"
    /\ pc' = 1 /\ stage' = 0 /\ redo' = FALSE
    /\ mem' = <<>> /\ out' = <<>> /\ start' = <<>>
    /\ UNCHANGED <<tree, kills, drift, hand>>

\* A new job, or the next one after a killed one.
Prepare ==
    /\ phase \in {"idle", "killed"}
    /\ phase' = "running"
    /\ tree' = PreparedTree(drift)
    /\ pc' = 1 /\ stage' = 0 /\ redo' = FALSE
    /\ mem' = <<>> /\ out' = <<>> /\ start' = <<>>
    /\ UNCHANGED <<kills, drift, hand>>

Current == Chain[pc].script

Stages == IF redo THEN Current.redo ELSE Current.stages

\* On to the next script, or to the end of the chain.
Advance ==
    /\ stage' = 0 /\ redo' = FALSE /\ start' = <<>>
    /\ IF pc = Len(Chain) THEN phase' = "built" /\ UNCHANGED pc
                          ELSE pc' = pc + 1 /\ UNCHANGED phase
    /\ UNCHANGED <<tree, mem, out, kills, drift, hand>>

\* Mutant: without set -e the job goes on to the next script.
FailIgnored == Advance

\* set -e: the job ends with the first script that exits with an error.
Fail ==
    /\ phase' = "failed"
    /\ UNCHANGED <<tree, pc, stage, redo, mem, out, start, kills, drift, hand>>

\* The driver's file test, or the script's own, passes the script over.
PassOver ==
    /\ phase = "running" /\ stage = 0
    /\ \/ ~(Chain[pc].guard \subseteq DOMAIN tree)
       \/ Verdict(tree, Current) = "leave"
    /\ Advance

\* The script reads its files and looks for its markers.
Begin ==
    /\ phase = "running" /\ stage = 0
    /\ Chain[pc].guard \subseteq DOMAIN tree
    /\ Verdict(tree, Current) \in {"redo", "apply"}
    /\ stage' = 1
    /\ redo' = (Verdict(tree, Current) = "redo")
    /\ start' = tree
    /\ UNCHANGED <<tree, phase, pc, mem, out, kills, drift, hand>>

Refuse ==
    /\ phase = "running" /\ stage = 0
    /\ Chain[pc].guard \subseteq DOMAIN tree
    /\ Verdict(tree, Current) = "fail"
    /\ Fail

\* One stage evaluated in memory; what it changed is then written file by file.
RunStage ==
    /\ phase = "running" /\ stage \in 1..Len(Stages)
    /\ LET s == Stages[stage]
           r == EvalStage(tree, s)
           changed == ChangedFiles(tree, r.tree, s.edits)
       IN  /\ r.ok
           /\ stage' = stage + 1
           /\ IF changed = <<>>
              THEN UNCHANGED <<phase, mem, out>>
              ELSE phase' = "writing" /\ mem' = r.tree /\ out' = changed
    /\ UNCHANGED <<tree, pc, redo, start, kills, drift, hand>>

StageFails ==
    /\ phase = "running" /\ stage \in 1..Len(Stages)
    /\ ~EvalStage(tree, Stages[stage]).ok
    /\ Fail

WriteFile ==
    /\ phase = "writing"
    /\ tree' = [tree EXCEPT ![Head(out)] = mem[Head(out)]]
    /\ out' = Tail(out)
    /\ IF Len(out) = 1 THEN phase' = "running" /\ mem' = <<>>
                       ELSE UNCHANGED <<phase, mem>>
    /\ UNCHANGED <<pc, stage, redo, start, kills, drift, hand>>

\* The script's own verdict on having changed nothing.
Idle == ~redo /\ tree = start /\ Current.idle # 0

EndScript ==
    /\ phase = "running" /\ stage = Len(Stages) + 1
    /\ IF Idle THEN Fail ELSE Advance

\* The job is killed; a file being rewritten is left truncated, or untouched.
Kill ==
    /\ kills < MaxFaults /\ drift = NoDrift
    /\ kills' = kills + 1
    /\ phase \in {"running", "writing"}
    /\ phase' = "killed"
    /\ \/ UNCHANGED tree
       \/ /\ phase = "writing"
          /\ tree' = [tree EXCEPT ![Head(out)] = EmptyBag]
    /\ UNCHANGED <<pc, stage, redo, mem, out, start, drift, hand>>

\* A script run again by hand on the finished tree.
HandRun(s) ==
    /\ phase = "built" /\ hand < MaxHandRuns
    /\ hand' = hand + 1
    /\ tree' = RunScript(tree, s).tree
    /\ UNCHANGED <<phase, pc, stage, redo, mem, out, start, kills, drift>>

Next ==
    \/ Prepare \/ PassOver \/ Begin \/ Refuse \/ RunStage \/ StageFails
    \/ WriteFile \/ EndScript \/ Kill
    \/ \E s \in Scripts : HandRun(s)

Spec == Init /\ [][Next]_vars

-----------------------------------------------------------------------------
(* Properties.                                                             *)

AllEdits == UNION {EditsOf(s) : s \in Scripts}

EditIds == {e.id : e \in AllEdits}

\* The edits that insist on their anchor.
HardEdits == {e \in AllEdits : e.hard}

\* The markers that make a script, or a stage of it, skip an edit.
SkipMarks(s, i, e) ==
    s.done \cup s.stages[i].unless \cup ({e.file} \X e.mark)

\* The edits whose work a patch already carries: their marker is in the
\* patched tree.
Folded == UNION {UNION {{e.id : e \in {x \in ToSet(s.stages[i].edits) :
                            \E m \in SkipMarks(s, i, x) : Present(Patched, m)}}
                        : i \in DOMAIN s.stages} : s \in Scripts}

RequiredIds == {e.id : e \in HardEdits} \ (Folded \cup Shadowed)

-----------------------------------------------------------------------------
(* What a chain must be like.                                              *)

WellFormed ==
    /\ Chain \in Seq([guard : SUBSET Files, script : AScript]) /\ Chain # <<>>
    /\ \A i \in DOMAIN Chain : Chain[i].script.exists \subseteq Files
    /\ IsTree(Patched)

\* Everything that is ever edited in.
MadeEdits == AllEdits \cup UNION {RedoEdits(s) : s \in Scripts}

\* No edit takes the text of an edit away, and no patch carries it.
IdsKept ==
    /\ \A e \in MadeEdits : EditIds \cap ({e.old} \cup e.cut) = {}
    /\ \A f \in Files : EditIds \cap BagToSet(Patched[f]) = {}

\* The text of a required edit comes from one edit only.
IdsOwn ==
    /\ \A e \in MadeEdits : RequiredIds \cap e.new = {}
    /\ \A s \in Scripts : \A e \in RedoEdits(s) : e.id \notin RequiredIds
    /\ \A i1, i2 \in DOMAIN Chain :
         \A j1 \in DOMAIN Chain[i1].script.stages, j2 \in DOMAIN Chain[i2].script.stages :
           LET a == Chain[i1].script.stages[j1].edits
               b == Chain[i2].script.stages[j2].edits
           IN  \A k1 \in DOMAIN a, k2 \in DOMAIN b :
                 a[k1].id = b[k2].id /\ a[k1].id \in RequiredIds =>
                   i1 = i2 /\ j1 = j2 /\ k1 = k2

\* What would make a required edit be skipped is not written before its turn:
\* not by an earlier script, an earlier stage or an earlier edit of its stage.
MarksFresh ==
    \A i \in DOMAIN Chain : LET s == Chain[i].script IN
      \A j \in DOMAIN s.stages : LET es == s.stages[j].edits IN
        \A k \in DOMAIN es : es[k].id \in RequiredIds =>
          /\ \A h \in 1..(i - 1) : \A m \in SkipMarks(s, j, es[k]) :
               \A x \in EditsOf(Chain[h].script) \cup RedoEdits(Chain[h].script) :
                 ~Makes(x, m)
          /\ \A h \in 1..(j - 1) :
               \A m \in s.stages[j].unless \cup ({es[k].file} \X es[k].mark) :
                 \A x \in ToSet(s.stages[h].edits) : ~Makes(x, m)
          /\ \A h \in 1..(k - 1) : \A m \in {es[k].file} \X es[k].mark :
               ~Makes(es[h], m)

ASSUME ChainAssumption == WellFormed /\ IdsKept /\ IdsOwn /\ MarksFresh

-----------------------------------------------------------------------------
\* The edits whose text is in the tree.
Landed == EditIds \cap UNION {BagToSet(tree[f]) : f \in DOMAIN tree}

\* A build of a tree with all its files reports success only if every required
\* edit is in it, once: no drift of a passage gets past the gates
\* ("hard-fail on any source drift" of the fixups).
BuiltIsWhole ==
    phase = "built" /\ drift.kind # "absent" =>
        \A e \in HardEdits : e.id \in RequiredIds =>
            IF hand = 0 THEN Copies(e.id, tree[e.file]) = 1
                        ELSE BagIn(e.id, tree[e.file])

\* A tree with a missing file never gets half of a script: a script that edits
\* several files either made all its required edits or none of them.
ScriptsWhole ==
    phase = "built" =>
        \A s \in Scripts :
            LET ids == {e.id : e \in EditsOf(s)} \cap RequiredIds
            IN  ids \subseteq Landed \/ ids \cap Landed = {}

\* The intended tree is never refused: markers and anchors that one fixup
\* leaves are the ones the next looks for, in the chain's order.
PristineNeverFails == drift = NoDrift => phase # "failed"

\* The tree a build of the intended sources ends with, computed script by
\* script rather than stage by stage and write by write.
AfterScript(t, c) == RunScript(t, c.script).tree
Golden == FoldLeft(AfterScript, Patched, Chain)

\* Kills and restarts leave no trace: a finished build of the intended sources
\* has one possible result.
RestartLeavesNoTrace ==
    phase = "built" /\ drift = NoDrift /\ hand = 0 => tree = Golden

\* A fixup run again by hand on the finished tree of the intended sources
\* changes nothing ("idempotent" in the fixups' headers), whether or not it
\* reports an error.
RerunChangesNothing ==
    [][drift = NoDrift =>
          \A s \in Scripts :
              HandRun(s) /\ s.name \notin NotIdempotent => tree' = tree]_vars

\* What the driver logs after each step is so: an edit that no patch carried
\* has landed, and after F-215 no port asserts the global SYNC unconditionally.
StepsEffective ==
    phase = "built" /\ drift = NoDrift /\ hand = 0 =>
        /\ {e.id : e \in HardEdits} \ Folded \subseteq Landed
        /\ ~Present(tree, <<PortC, "ungated INV0 SYNC">>)

-----------------------------------------------------------------------------
(* The preparation implements the ledger.                                  *)

Ledger == INSTANCE FixupLedger WITH
    Edits <- EditIds,
    status <- CASE phase \in {"running", "writing"} -> "building"
                [] phase \in {"failed", "killed"}   -> "stopped"
                [] OTHER                            -> phase,
    required <- IF drift.kind = "absent" THEN {} ELSE RequiredIds,
    landed <- Landed

\* The chain of scripts with its markers, gates and separate writes does what
\* FixupLedger promises.
ImplementsLedger == Ledger!LedgerSpec
=============================================================================
