---------------------------- MODULE AskFlowCounts ----------------------------
(***************************************************************************)
(* CountersExact of AskFlow, for every instance: num_flows and             *)
(* num_hw_backed count the software flow table exactly, up to the calls    *)
(* that have published or unlinked an entry and not yet adjusted them.     *)
(*                                                                         *)
(* The sets that are counted stay finite although Cookies and Nft may be   *)
(* any sets: a step adds at most one member to each. CountInv says so      *)
(* together with the two equations, and is inductive relative to TypeInv.  *)
(***************************************************************************)
EXTENDS AskFlowProofs

\* A counter n follows the table A, less the additions B that are still to be
\* counted, plus the removals C that are.
Follows(n, A, B, C) ==
  /\ IsFiniteSet(A) /\ IsFiniteSet(B) /\ IsFiniteSet(C)
  /\ n = Cardinality(A) - Cardinality(B) + Cardinality(C)

\* An entry is published, and will be counted.
LEMMA FollowsAdd ==
  ASSUME NEW n, NEW A, NEW B, NEW C, Follows(n, A, B, C), NEW a, a \notin A, NEW b, b \notin B
  PROVE  Follows(n, A \cup {a}, B \cup {b}, C)
<1>1. IsFiniteSet(A \cup {a}) /\ Cardinality(A \cup {a}) = Cardinality(A) + 1
  BY FS_AddElement DEF Follows
<1>2. IsFiniteSet(B \cup {b}) /\ Cardinality(B \cup {b}) = Cardinality(B) + 1
  BY FS_AddElement DEF Follows
<1>3. Cardinality(A) \in Nat /\ Cardinality(B) \in Nat /\ Cardinality(C) \in Nat
  BY FS_CardinalityType DEF Follows
<1> QED BY <1>1, <1>2, <1>3 DEF Follows

\* The publication is counted.
LEMMA FollowsUp ==
  ASSUME NEW n, NEW A, NEW B, NEW C, Follows(n, A, B, C), NEW b \in B
  PROVE  Follows(n + 1, A, B \ {b}, C)
<1>1. IsFiniteSet(B \ {b}) /\ Cardinality(B \ {b}) = Cardinality(B) - 1
  BY FS_RemoveElement DEF Follows
<1>2. Cardinality(A) \in Nat /\ Cardinality(B) \in Nat /\ Cardinality(C) \in Nat
  BY FS_CardinalityType DEF Follows
<1> QED BY <1>1, <1>2 DEF Follows

\* An entry is unlinked, and will be discounted.
LEMMA FollowsRemove ==
  ASSUME NEW n, NEW A, NEW B, NEW C, Follows(n, A, B, C), NEW a \in A, NEW b, b \notin C
  PROVE  Follows(n, A \ {a}, B, C \cup {b})
<1>1. IsFiniteSet(A \ {a}) /\ Cardinality(A \ {a}) = Cardinality(A) - 1
  BY FS_RemoveElement DEF Follows
<1>2. IsFiniteSet(C \cup {b}) /\ Cardinality(C \cup {b}) = Cardinality(C) + 1
  BY FS_AddElement DEF Follows
<1>3. Cardinality(A) \in Nat /\ Cardinality(B) \in Nat /\ Cardinality(C) \in Nat
  BY FS_CardinalityType DEF Follows
<1> QED BY <1>1, <1>2, <1>3 DEF Follows

\* The removal is counted.
LEMMA FollowsDown ==
  ASSUME NEW n, NEW A, NEW B, NEW C, Follows(n, A, B, C), NEW b \in C
  PROVE  Follows(n - 1, A, B, C \ {b})
<1>1. IsFiniteSet(C \ {b}) /\ Cardinality(C \ {b}) = Cardinality(C) - 1
  BY FS_RemoveElement DEF Follows
<1>2. Cardinality(A) \in Nat /\ Cardinality(B) \in Nat /\ Cardinality(C) \in Nat
  BY FS_CardinalityType DEF Follows
<1> QED BY <1>1, <1>2 DEF Follows

-----------------------------------------------------------------------------
(* The counted sets.                                                       *)

AtPc(p)   == {t \in Threads : th[t].pc = p}
AtPcHw(p) == {t \in Threads : th[t].pc = p /\ th[t].hw}
BackedSet == {c \in Cookies : Backed(c)}

CountInv ==
  /\ Follows(numFlows, Installed, AtPc("count"), AtPc("release"))
  /\ Follows(numHw, BackedSet, AtPcHw("count"), AtPcHw("release"))

CountPcs == {"count", "release"}

\* Thread t neither publishes, unlinks nor counts.
EvenStep(t) ==
  /\ UNCHANGED <<rht, numFlows, numHw>>
  /\ th[t].pc \notin CountPcs
  /\ UNCHANGED th \/ \E l : Step(t, l) /\ l.pc \notin CountPcs

LEMMA EvenCount ==
  ASSUME NEW t \in Threads, TypeInv, CountInv, EvenStep(t) PROVE CountInv'
<1>1. Installed' = Installed /\ BackedSet' = BackedSet
  BY DEF EvenStep, Installed, BackedSet, Backed
<1>2. \A u \in Threads, p \in CountPcs :
        /\ th'[u].pc = p <=> th[u].pc = p
        /\ th[u].pc = p => th'[u] = th[u]
  BY DEF EvenStep, Step, TypeInv, ThreadsOK
<1>3. \A p \in CountPcs : AtPc(p)' = AtPc(p) /\ AtPcHw(p)' = AtPcHw(p)
  BY <1>2 DEF AtPc, AtPcHw
<1>4. UNCHANGED <<numFlows, numHw>> /\ "count" \in CountPcs /\ "release" \in CountPcs
  BY DEF EvenStep, CountPcs
<1> QED BY <1>1, <1>3, <1>4 DEF CountInv

LEMMA BackEven ==
  ASSUME NEW t \in Threads PROVE Back(t).pc \notin CountPcs
BY DEF Back, CountPcs, Idle

\* A step to a program point that counts nothing.
LEMMA GotoEven ==
  ASSUME NEW t \in Threads, TypeInv, UNCHANGED <<rht, numFlows, numHw>>,
         th[t].pc \notin CountPcs, NEW p \in Pcs \ CountPcs,
         \/ Goto(t, p) \/ Return(t) \/ UNCHANGED th
         \/ Step(t, [th[t] EXCEPT !.pc = p, !.undo = TRUE])
         \/ \E x : Step(t, [th[t] EXCEPT !.pc = p, !.mac = x])
         \/ \E x : Step(t, [th[t] EXCEPT !.pc = p, !.gen = x])
         \/ \E x : Step(t, [th[t] EXCEPT !.pc = p, !.sink = x])
         \/ \E x : Step(t, [th[t] EXCEPT !.pc = p, !.old = x])
  PROVE  EvenStep(t)
<1>1. th[t] \in Local
  BY DEF TypeInv, ThreadsOK
<1>2. \A x : /\ [th[t] EXCEPT !.pc = p].pc \notin CountPcs
             /\ [th[t] EXCEPT !.pc = p, !.undo = TRUE].pc \notin CountPcs
             /\ [th[t] EXCEPT !.pc = p, !.mac = x].pc \notin CountPcs
             /\ [th[t] EXCEPT !.pc = p, !.gen = x].pc \notin CountPcs
             /\ [th[t] EXCEPT !.pc = p, !.sink = x].pc \notin CountPcs
             /\ [th[t] EXCEPT !.pc = p, !.old = x].pc \notin CountPcs
  BY <1>1 DEF Local
<1> QED BY <1>2, BackEven DEF EvenStep, Goto, Return

\* A thread that starts a call, or takes the next entry of its list.
LEMMA StartEven ==
  ASSUME NEW t \in Threads, UNCHANGED <<rht, numFlows, numHw>>, th[t].pc \notin CountPcs,
         NEW l, Step(t, l), l.pc \notin CountPcs
  PROVE  EvenStep(t)
BY DEF EvenStep

\* The steps of insert and remove that leave the counted sets alone.
LEMMA InsertEven ==
  ASSUME NEW t \in Threads, TypeInv,
         \/ Insert_Admit(t) \/ Insert_HwOk(t) \/ Insert_HwFallback(t)
         \/ Insert_HwRefused(t) \/ Insert_Gate(t)
  PROVE  EvenStep(t)
<1>0. {"hw", "publish"} \subseteq Pcs \ CountPcs /\ th[t] \in Local
  BY DEF Pcs, CountPcs, TypeInv, ThreadsOK
<1>1. CASE Insert_Admit(t)
  BY <1>0, <1>1, GotoEven DEF Insert_Admit, CountPcs, cnt
<1>2. CASE Insert_HwOk(t)
  <2>1. PICK i : Step(t, [th[t] EXCEPT !.pc = "gate", !.hw = TRUE, !.id = i])
    BY <1>2 DEF Insert_HwOk
  <2>2. [th[t] EXCEPT !.pc = "gate", !.hw = TRUE, !.id = i].pc = "gate"
    BY <1>0 DEF Local
  <2> QED BY <1>2, <2>1, <2>2, StartEven DEF Insert_HwOk, CountPcs, cnt
<1>3. CASE Insert_HwFallback(t)
  <2>1. [th[t] EXCEPT !.pc = "gate", !.hw = FALSE, !.id = fake + 1].pc = "gate"
    BY <1>0 DEF Local
  <2> QED BY <1>3, <2>1, StartEven DEF Insert_HwFallback, CountPcs, cnt
<1>4. CASE Insert_HwRefused(t)
  BY <1>0, <1>4, GotoEven DEF Insert_HwRefused, CountPcs, cnt
<1>5. CASE Insert_Gate(t)
  <2>1. Return(t) \/ Goto(t, "publish")
    BY <1>5 DEF Insert_Gate
  <2> QED BY <1>0, <1>5, <2>1, GotoEven DEF Insert_Gate, CountPcs, cnt
<1> QED BY <1>1, <1>2, <1>3, <1>4, <1>5

\* The FE record is not counted.
LEMMA FeEven == ASSUME NEW t \in Threads, TypeInv, FeStep(t) PROVE EvenStep(t)
<1>0. {"feadd", "unlink", "fecheck", "feundo", "forget", "admit"} \subseteq Pcs \ CountPcs
  BY DEF Pcs, CountPcs
<1>1. CASE Fe_Sink(t)
  BY <1>0, <1>1, GotoEven DEF Fe_Sink, CountPcs, cnt
<1>2. CASE Fe_Add(t)
  BY <1>0, <1>2, GotoEven DEF Fe_Add, CountPcs, cnt
<1>3. CASE Fe_AddFails(t)
  BY <1>0, <1>3, GotoEven DEF Fe_AddFails, CountPcs, cnt
<1>4. CASE Fe_Check(t)
  BY <1>0, <1>4, GotoEven DEF Fe_Check, CountPcs, cnt
<1>5. CASE Fe_Undo(t)
  BY <1>0, <1>5, GotoEven DEF Fe_Undo, CountPcs, cnt
<1>6. CASE Fe_Delete(t)
  <2>1. Goto(t, "forget") \/ Goto(t, "admit") \/ Return(t)
    BY <1>6 DEF Fe_Delete
  <2> QED BY <1>0, <1>6, <2>1, GotoEven DEF Fe_Delete, CountPcs, cnt
<1> QED BY <1>1, <1>2, <1>3, <1>4, <1>5, <1>6 DEF FeStep

\* Nor do REPLACE and DESTROY count outside insert and remove.
LEMMA NftEven == ASSUME NEW t \in Threads, TypeInv, NftStep(t) PROVE EvenStep(t)
<1>0. {"resolve", "admit", "park", "sink", "unlink", "drop", "lookup"} \subseteq Pcs \ CountPcs
  BY DEF Pcs, CountPcs
<1>1. ASSUME NEW c \in Cookies, Replace_Dedup(t, c) PROVE EvenStep(t)
  <2>1. [Idle EXCEPT !.pc = "claim", !.op = "replace", !.c = c, !.k = conn[c], !.rt = route].pc
           = "claim"
    BY DEF Idle
  <2> QED BY <1>1, <2>1, StartEven DEF Replace_Dedup, CountPcs, cnt
<1>2. ASSUME NEW c \in Cookies, Destroy_Snapshot(t, c) PROVE EvenStep(t)
  <2>1. [Idle EXCEPT !.pc = "tomb", !.op = "destroy", !.c = c,
                     !.gen = GenCurrent(registry, c)].pc = "tomb"
    BY DEF Idle
  <2> QED BY <1>2, <2>1, StartEven DEF Destroy_Snapshot, CountPcs, cnt
<1>3. CASE Replace_Claim(t)
  BY <1>0, <1>3, GotoEven DEF Replace_Claim, CountPcs, cnt
<1>4. CASE Replace_ClaimFails(t) \/ Replace_Refused(t) \/ Replace_Park(t)
  BY <1>0, <1>4, GotoEven DEF Replace_ClaimFails, Replace_Refused, Replace_Park, CountPcs, cnt
<1>5. CASE Replace_Resolve(t)
  <2>1. Goto(t, "park") \/ Step(t, [th[t] EXCEPT !.pc = "admit", !.mac = nbr.mac])
    BY <1>5 DEF Replace_Resolve
  <2> QED BY <1>0, <1>5, <2>1, GotoEven DEF Replace_Resolve, CountPcs, cnt
<1>6. CASE Replace_Check(t)
  BY <1>0, <1>6, GotoEven DEF Replace_Check, CountPcs, cnt
<1>7. CASE Destroy_Tombstone(t)
  BY <1>0, <1>7, GotoEven DEF Destroy_Tombstone, CountPcs, cnt
<1>8. CASE Destroy_DropPending(t)
  BY <1>0, <1>8, GotoEven DEF Destroy_DropPending, CountPcs, cnt
<1>9. CASE Destroy_Lookup(t)
  BY <1>0, <1>9, GotoEven DEF Destroy_Lookup, CountPcs, cnt
<1>10. CASE Destroy_Forget(t)
  BY <1>0, <1>10, GotoEven DEF Destroy_Forget, CountPcs, cnt
<1> QED BY <1>1, <1>2, <1>3, <1>4, <1>5, <1>6, <1>7, <1>8, <1>9, <1>10
        DEF NftStep, ReplaceStep, DestroyStep

\* What a worker loads or starts with.
LEMMA LoadPc ==
  ASSUME NEW p, NEW o, NEW i, NEW k
  PROVE  /\ Load(p, o, i).pc = p /\ [Load(p, o, i) EXCEPT !.old = k].pc = p
         /\ [Idle EXCEPT !.pc = p, !.op = o].pc = p /\ Idle.pc = "idle"
BY DEF Load, Idle

LEMMA WorkerEven == ASSUME NEW t \in Workers, TypeInv, WorkerStep(t) PROVE EvenStep(t)
<1>0. /\ t \in Threads /\ {"sink", "admit", "next", "fedel"} \subseteq Pcs \ CountPcs
      /\ {"next", "take", "collect", "idle", "reresolve", "unlink", "admit"} \cap CountPcs = {}
  BY DEF Threads, Pcs, CountPcs
<1>1. CASE Republish_Backed(t)
  BY <1>0, <1>1, GotoEven DEF Republish_Backed, CountPcs, cnt
<1>2. CASE Poll_Scan(t)
  BY <1>0, <1>2, LoadPc, StartEven DEF Poll_Scan, CountPcs, cnt
<1>3. ASSUME NEW i \in work[t], Poll_Next(t, i) PROVE EvenStep(t)
  BY <1>0, <1>3, LoadPc, StartEven, GotoEven DEF Poll_Next, CountPcs, cnt
<1>4. CASE Neigh_Event(t)
  BY <1>0, <1>4, LoadPc, StartEven DEF Neigh_Event, CountPcs, cnt
<1>5. ASSUME NEW p \in pending, Drain_Take(t, p) PROVE EvenStep(t)
  BY <1>0, <1>5, LoadPc, StartEven DEF Drain_Take, CountPcs, cnt
<1>6. CASE Drain_Resolve(t)
  <2>1. Return(t) \/ Step(t, [th[t] EXCEPT !.pc = "admit", !.mac = nbr.mac])
    BY <1>6 DEF Drain_Resolve
  <2> QED BY <1>0, <1>6, <2>1, GotoEven DEF Drain_Resolve, CountPcs, cnt
<1>7. CASE Drain_Done(t)
  BY <1>0, <1>7, LoadPc, StartEven DEF Drain_Done, CountPcs, cnt
<1>8. CASE Rebuild_Collect(t)
  BY <1>0, <1>8, GotoEven DEF Rebuild_Collect, CountPcs, cnt
<1>9. ASSUME NEW i \in work[t], Rebuild_Next(t, i) PROVE EvenStep(t)
  <2>1. th[t].pc = "next" /\ UNCHANGED <<rht, numFlows, numHw>>
    BY <1>9 DEF Rebuild_Next, cnt
  <2>2. CASE UNCHANGED th
    BY <1>0, <2>1, <2>2, GotoEven
  <2>3. CASE Step(t, [Load("unlink", "rebuild", i) EXCEPT !.old = rht[i.c].k])
    <3>1. [Load("unlink", "rebuild", i) EXCEPT !.old = rht[i.c].k].pc = "unlink"
      BY LoadPc
    <3> QED BY <1>0, <2>1, <2>3, <3>1, StartEven
  <2> QED BY <1>9, <2>2, <2>3 DEF Rebuild_Next
<1>10. CASE Rebuild_Recheck(t)
  BY <1>0, <1>10, GotoEven DEF Rebuild_Recheck, CountPcs, cnt
<1>11. CASE Flush_Collect(t)
  BY <1>0, <1>11, LoadPc, StartEven DEF Flush_Collect, CountPcs, cnt
<1>12. ASSUME NEW i \in work[t], Flush_Next(t, i) PROVE EvenStep(t)
  <2>1. /\ th[t].pc = "next" /\ UNCHANGED <<rht, numFlows, numHw>>
        /\ Step(t, [Load("unlink", "flush", i) EXCEPT !.old = i.k])
    BY <1>12 DEF Flush_Next, cnt
  <2>2. [Load("unlink", "flush", i) EXCEPT !.old = i.k].pc = "unlink"
    BY LoadPc
  <2> QED BY <1>0, <2>1, <2>2, StartEven
<1>13. CASE Worker_Done(t)
  BY <1>0, <1>13, LoadPc, StartEven DEF Worker_Done, CountPcs, cnt
<1> QED BY <1>1, <1>2, <1>3, <1>4, <1>5, <1>6, <1>7, <1>8, <1>9, <1>10, <1>11, <1>12, <1>13
        DEF WorkerStep

-----------------------------------------------------------------------------
(* The four steps that move a flow between the counted sets.               *)

\* A publication enters the table and waits to be counted.
LEMMA PublishCount ==
  ASSUME NEW t \in Threads, TypeInv, CountInv, Insert_Publish(t) PROVE CountInv'
<1>0. /\ th[t] \in Local /\ th[t].c \in Cookies /\ th[t].k \in Tuples /\ th[t].pc = "publish"
      /\ UNCHANGED <<numFlows, numHw>>
  BY KeyFacts DEF Insert_Publish, KeyPcs, cnt
<1>1. CASE Return(t) /\ rht' = rht
  <2>1. EvenStep(t)
    BY <1>0, <1>1, BackEven DEF EvenStep, Return, CountPcs
  <2> QED BY <2>1, EvenCount
<1>2. CASE rht[th[t].c] = None /\ Goto(t, "count")
           /\ rht' = [rht EXCEPT ![th[t].c] = [k |-> th[t].k, mac |-> th[t].mac,
                        rt |-> th[t].rt, gen |-> th[t].gen, hw |-> th[t].hw, id |-> th[t].id]]
  <2>0. PICK c \in Cookies : c = th[t].c
    BY <1>0
  <2> DEFINE f == [k |-> th[t].k, mac |-> th[t].mac, rt |-> th[t].rt, gen |-> th[t].gen,
                   hw |-> th[t].hw, id |-> th[t].id]
  <2>1. f # None /\ f.hw = th[t].hw
    <3>1. f \in Flow
      BY <1>0 DEF Local, Flow
    <3> QED BY <3>1, NoneAssumption
  <2>2. rht[c] = None /\ rht'[c] = f /\ \A d \in Cookies \ {c} : rht'[d] = rht[d]
    BY <1>2, <2>0 DEF TypeInv, DataOK
  <2>3. th' = [th EXCEPT ![t] = [th[t] EXCEPT !.pc = "count"]]
    BY <1>2 DEF Goto, Step
  <2>4. /\ th'[t].pc = "count" /\ th'[t].hw = th[t].hw
        /\ \A u \in Threads \ {t} : th'[u] = th[u]
    BY <1>0, <2>3 DEF TypeInv, ThreadsOK, Local
  <2>b. /\ (Backed(c)' <=> th[t].hw) /\ ~Backed(c)
        /\ \A d \in Cookies \ {c} : Backed(d)' <=> Backed(d)
    BY <2>1, <2>2 DEF Backed
  <2> HIDE DEF f
  <2>5. Installed' = Installed \cup {c} /\ c \notin Installed
    BY <2>1, <2>2 DEF Installed
  <2>6. /\ AtPc("count")' = AtPc("count") \cup {t} /\ t \notin AtPc("count")
        /\ AtPc("release")' = AtPc("release")
    BY <1>0, <2>4 DEF AtPc
  <2>7. AtPcHw("release")' = AtPcHw("release")
    BY <1>0, <2>4 DEF AtPcHw
  <2>8. Follows(numFlows, Installed, AtPc("count"), AtPc("release"))'
    BY <1>0, <2>5, <2>6, FollowsAdd DEF CountInv
  <2>9. Follows(numHw, BackedSet, AtPcHw("count"), AtPcHw("release"))'
    <3>1. CASE th[t].hw
      <4>1. BackedSet' = BackedSet \cup {c} /\ c \notin BackedSet
        BY <2>b, <3>1 DEF BackedSet
      <4>2. AtPcHw("count")' = AtPcHw("count") \cup {t} /\ t \notin AtPcHw("count")
        BY <1>0, <2>4, <3>1 DEF AtPcHw
      <4> QED BY <4>1, <4>2, <1>0, <2>7, FollowsAdd DEF CountInv
    <3>2. CASE ~th[t].hw
      <4>1. BackedSet' = BackedSet
        BY <2>b, <3>2 DEF BackedSet
      <4>2. AtPcHw("count")' = AtPcHw("count")
        BY <1>0, <2>4, <3>2 DEF AtPcHw
      <4> QED BY <4>1, <4>2, <1>0, <2>7 DEF CountInv
    <3> QED BY <3>1, <3>2
  <2> QED BY <2>8, <2>9 DEF CountInv
<1> QED BY <1>1, <1>2 DEF Insert_Publish

\* The publication is counted.
LEMMA CountCount ==
  ASSUME NEW t \in Threads, TypeInv, CountInv, Insert_Count(t) PROVE CountInv'
<1>0. /\ th[t] \in Local /\ th[t].pc = "count" /\ th[t].hw \in BOOLEAN /\ numHw \in Int
      /\ UNCHANGED rht /\ numFlows' = numFlows + 1
      /\ numHw' = numHw + (IF th[t].hw THEN 1 ELSE 0)
  BY DEF Insert_Count, TypeInv, ThreadsOK, DataOK, Local
<1>1. PICK p \in {"check", "backed"} : th' = [th EXCEPT ![t] = [th[t] EXCEPT !.pc = p]]
  BY DEF Insert_Count, Goto, Step
<1>2. /\ th'[t].pc = p /\ \A u \in Threads \ {t} : th'[u] = th[u]
  BY <1>0, <1>1 DEF TypeInv, ThreadsOK, Local
<1>3. Installed' = Installed /\ BackedSet' = BackedSet
  BY <1>0 DEF Installed, BackedSet, Backed
<1>4. /\ AtPc("count")' = AtPc("count") \ {t} /\ t \in AtPc("count")
      /\ AtPc("release")' = AtPc("release")
  BY <1>0, <1>2 DEF AtPc
<1>5. /\ AtPcHw("count")' = AtPcHw("count") \ {t} /\ AtPcHw("release")' = AtPcHw("release")
      /\ t \in AtPcHw("count") <=> th[t].hw
  BY <1>0, <1>2 DEF AtPcHw
<1>6. Follows(numFlows, Installed, AtPc("count"), AtPc("release"))'
  BY <1>0, <1>3, <1>4, FollowsUp DEF CountInv
<1>7. Follows(numHw, BackedSet, AtPcHw("count"), AtPcHw("release"))'
  <2>1. CASE th[t].hw
    <3>1. numHw' = numHw + 1
      BY <1>0, <2>1
    <3> QED BY <3>1, <2>1, <1>3, <1>5, FollowsUp DEF CountInv
  <2>2. CASE ~th[t].hw
    <3>1. numHw' = numHw
      BY <1>0, <2>2
    <3>2. AtPcHw("count")' = AtPcHw("count")
      BY <1>5, <2>2
    <3> QED BY <3>1, <3>2, <1>3, <1>5 DEF CountInv
  <2> QED BY <2>1, <2>2
<1> QED BY <1>6, <1>7 DEF CountInv

\* An unlinked flow leaves the table and waits to be discounted.
LEMMA UnlinkCount ==
  ASSUME NEW t \in Threads, TypeInv, CountInv, Remove_Unlink(t) PROVE CountInv'
<1>0. /\ th[t] \in Local /\ th[t].c \in Cookies /\ th[t].pc = "unlink"
      /\ UNCHANGED <<numFlows, numHw>>
  BY CallFacts DEF Remove_Unlink, TypeInv, CookiePcs, Pcs, cnt
<1>1. CASE Step(t, NotRemoved(t)) /\ rht' = rht
  <2>1. NotRemoved(t).pc \notin CountPcs
    BY <1>0, BackEven DEF NotRemoved, CountPcs, Local
  <2>2. EvenStep(t)
    BY <1>0, <1>1, <2>1 DEF EvenStep, CountPcs
  <2> QED BY <2>2, EvenCount
<1>2. CASE /\ rht[th[t].c] # None /\ rht' = [rht EXCEPT ![th[t].c] = None]
           /\ Step(t, [th[t] EXCEPT !.pc = "release", !.hw = rht[th[t].c].hw,
                                    !.id = rht[th[t].c].id])
  <2>c. PICK c \in Cookies : c = th[t].c
    BY <1>0
  <2>0. rht[c] # None /\ rht'[c] = None /\ \A d \in Cookies \ {c} : rht'[d] = rht[d]
    BY <2>c, <1>2 DEF TypeInv, DataOK
  <2>1. /\ th'[t].pc = "release" /\ th'[t].hw = rht[c].hw
        /\ \A u \in Threads \ {t} : th'[u] = th[u]
    BY <2>c, <1>0, <1>2 DEF Step, TypeInv, ThreadsOK, Local
  <2>2. Installed' = Installed \ {c} /\ c \in Installed
    BY <2>0 DEF Installed
  <2>3. /\ AtPc("release")' = AtPc("release") \cup {t} /\ t \notin AtPc("release")
        /\ AtPc("count")' = AtPc("count")
    BY <1>0, <2>1 DEF AtPc
  <2>4. AtPcHw("count")' = AtPcHw("count")
    BY <1>0, <2>1 DEF AtPcHw
  <2>5. Follows(numFlows, Installed, AtPc("count"), AtPc("release"))'
    BY <1>0, <2>2, <2>3, FollowsRemove DEF CountInv
  <2>6. Follows(numHw, BackedSet, AtPcHw("count"), AtPcHw("release"))'
    <3>1. CASE rht[c].hw
      <4>1. BackedSet' = BackedSet \ {c} /\ c \in BackedSet
        BY <2>0, <3>1 DEF BackedSet, Backed
      <4>2. AtPcHw("release")' = AtPcHw("release") \cup {t} /\ t \notin AtPcHw("release")
        BY <1>0, <2>1, <3>1 DEF AtPcHw
      <4> QED BY <4>1, <4>2, <1>0, <2>4, FollowsRemove DEF CountInv
    <3>2. CASE ~rht[c].hw
      <4>1. BackedSet' = BackedSet
        BY <2>0, <3>2 DEF BackedSet, Backed
      <4>2. AtPcHw("release")' = AtPcHw("release")
        BY <1>0, <2>1, <3>2 DEF AtPcHw
      <4> QED BY <4>1, <4>2, <1>0, <2>4 DEF CountInv
    <3> QED BY <3>1, <3>2
  <2> QED BY <2>5, <2>6 DEF CountInv
<1> QED BY <1>1, <1>2 DEF Remove_Unlink, Absent

\* The removal is counted.
LEMMA ReleaseCount ==
  ASSUME NEW t \in Threads, TypeInv, CountInv, Remove_Release(t) PROVE CountInv'
<1>0. /\ th[t] \in Local /\ th[t].pc = "release" /\ th[t].hw \in BOOLEAN /\ numHw \in Int
      /\ UNCHANGED rht /\ numFlows' = numFlows - 1 /\ Step(t, Removed(t))
      /\ numHw' = numHw - (IF th[t].hw THEN 1 ELSE 0)
  BY DEF Remove_Release, TypeInv, ThreadsOK, DataOK, Local
<1>1. Removed(t).pc \notin CountPcs
  BY <1>0, BackEven DEF Removed, CountPcs, Local
<1>2. /\ th'[t].pc \notin CountPcs /\ \A u \in Threads \ {t} : th'[u] = th[u]
  BY <1>0, <1>1 DEF Step, TypeInv, ThreadsOK
<1>3. Installed' = Installed /\ BackedSet' = BackedSet
  BY <1>0 DEF Installed, BackedSet, Backed
<1>4. /\ AtPc("release")' = AtPc("release") \ {t} /\ t \in AtPc("release")
      /\ AtPc("count")' = AtPc("count")
  BY <1>0, <1>2 DEF AtPc, CountPcs
<1>5. /\ AtPcHw("release")' = AtPcHw("release") \ {t} /\ AtPcHw("count")' = AtPcHw("count")
      /\ t \in AtPcHw("release") <=> th[t].hw
  BY <1>0, <1>2 DEF AtPcHw, CountPcs
<1>6. Follows(numFlows, Installed, AtPc("count"), AtPc("release"))'
  BY <1>0, <1>3, <1>4, FollowsDown DEF CountInv
<1>7. Follows(numHw, BackedSet, AtPcHw("count"), AtPcHw("release"))'
  <2>1. CASE th[t].hw
    <3>1. numHw' = numHw - 1
      BY <1>0, <2>1
    <3> QED BY <3>1, <2>1, <1>3, <1>5, FollowsDown DEF CountInv
  <2>2. CASE ~th[t].hw
    <3>1. numHw' = numHw
      BY <1>0, <2>2
    <3>2. AtPcHw("release")' = AtPcHw("release")
      BY <1>5, <2>2
    <3> QED BY <3>1, <3>2, <1>3, <1>5 DEF CountInv
  <2> QED BY <2>1, <2>2
<1> QED BY <1>6, <1>7 DEF CountInv

LEMMA EnvironmentCount ==
  ASSUME CountInv, Environment \/ UNCHANGED vars PROVE CountInv'
<1>1. UNCHANGED <<rht, numFlows, numHw, th>>
  BY DEF Environment, NewConn, Teardown, NeighUpdate, NeighLost, RouteChange, vars, cnt
<1>2. /\ Installed' = Installed /\ BackedSet' = BackedSet
      /\ AtPc("count")' = AtPc("count") /\ AtPc("release")' = AtPc("release")
      /\ AtPcHw("count")' = AtPcHw("count") /\ AtPcHw("release")' = AtPcHw("release")
  BY <1>1 DEF Installed, BackedSet, Backed, AtPc, AtPcHw
<1> QED BY <1>1, <1>2 DEF CountInv

LEMMA CountStep == TypeInv /\ CountInv /\ [Next]_vars => CountInv'
<1> SUFFICES ASSUME TypeInv, CountInv, [Next]_vars PROVE CountInv'
  OBVIOUS
<1>1. ASSUME NEW t \in Threads, InsertStep(t) PROVE CountInv'
  BY <1>1, InsertEven, EvenCount, PublishCount, CountCount DEF InsertStep
<1>2. ASSUME NEW t \in Threads, RemoveStep(t) PROVE CountInv'
  BY <1>2, UnlinkCount, ReleaseCount DEF RemoveStep
<1>3. ASSUME NEW t \in Threads, FeStep(t) PROVE CountInv'
  BY <1>3, FeEven, EvenCount
<1>4. ASSUME NEW t \in Nft, NftStep(t) PROVE CountInv'
  BY <1>4, NftEven, EvenCount DEF Threads
<1>5. ASSUME NEW t \in Workers, WorkerStep(t) PROVE CountInv'
  BY <1>5, WorkerEven, EvenCount DEF Threads
<1> QED BY <1>1, <1>2, <1>3, <1>4, <1>5, EnvironmentCount DEF Next, CallStep

LEMMA InitCount == Init => CountInv
<1> SUFFICES ASSUME Init PROVE CountInv
  OBVIOUS
<1>1. /\ Installed = {} /\ BackedSet = {} /\ AtPc("count") = {} /\ AtPc("release") = {}
      /\ AtPcHw("count") = {} /\ AtPcHw("release") = {}
  BY DEF Init, Installed, BackedSet, Backed, AtPc, AtPcHw, Idle
<1>2. numFlows = 0 /\ numHw = 0
  BY DEF Init
<1>3. Follows(0, {}, {}, {})
  BY FS_EmptySet DEF Follows
<1> QED BY <1>1, <1>2, <1>3 DEF CountInv

\* num_flows and num_hw_backed are exact in every interleaving of callbacks and
\* workers: each published entry is counted once and each unlinked one
\* discounted once, so that both read the table's true size as soon as no
\* ask_flow_insert or ask_flow_remove is between its table update and its
\* counter update.
THEOREM CountersAreExact == Spec => []CountersExact
<1>1. CountInv => CountersExact
  BY DEF CountInv, CountersExact, Follows, AtPc, AtPcHw, BackedSet
<1> QED BY <1>1, InitType, TypeStep, InitCount, CountStep, PTL DEF Spec
=============================================================================
