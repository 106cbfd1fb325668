--------------------------- MODULE AskFlowProofs ----------------------------
(***************************************************************************)
(* Proofs about AskFlow, for every set of cookies, tuples and threads, with *)
(* or without each worker, with overlapping callbacks or not.              *)
(*                                                                         *)
(*   TypeCorrect         the state stays well typed                        *)
(*   HwCookiesOwned      a hardware cookie has at most one owner           *)
(*   HwCookiesNotLeaked  and at least one                                  *)
(*   PendingBounded      one parked entry per cookie, at most MaxPending   *)
(*                                                                         *)
(* TypeOK is not inductive: that a publication writes a Flow needs that the *)
(* call carries a cookie and a key at that point. CallOK says which program *)
(* points carry what; TypeInv joins it to the types. HwInv rests on TypeInv *)
(* and adds that the cookie a call holds was taken for the call's own key;  *)
(* PendInv adds that the queue is finite.                                  *)
(***************************************************************************)
EXTENDS AskFlow, FiniteSetTheorems, TLAPS

\* The program points at which a call works for a cookie.
CookiePcs == Pcs \ {"idle", "next", "take", "collect"}

\* The program points from which a call may still publish its key.
KeyPcs == {"claim", "resolve", "park", "admit", "hw", "gate", "publish", "count",
           "check", "backed", "sink", "feadd", "fecheck", "feundo", "reresolve"}

\* The rebuild republishes after its remove, so it keeps its key through it.
KeyNeeded(l) ==
  l.pc \in KeyPcs \/ (l.op = "rebuild" /\ l.pc \in {"unlink", "release", "recheck", "fedel"})

\* What a call carries at its program point.
CallOK(l) ==
  /\ l.pc \in CookiePcs => l.c \in Cookies
  /\ KeyNeeded(l) => l.k \in Tuples
  /\ l.pc = "feadd" => l.sink \in Tuples
  /\ l.pc \in {"tomb", "drop", "lookup", "forget"} => l.op = "destroy"

\* The local states of all threads.
ThreadsOK == th \in [Threads -> Local] /\ \A t \in Threads : CallOK(th[t])

\* The shared state: TypeOK without the threads.
DataOK ==
  /\ conn \in [Cookies -> Tuples \cup {None}]
  /\ dying \subseteq Cookies
  /\ born \in [Cookies -> 0..MaxBorn]
  /\ nbr \in [mac : Macs, valid : BOOLEAN]
  /\ ev \in Macs /\ cur \in Macs /\ route \in Routes /\ flushReq \in BOOLEAN
  /\ registry \in [Cookies -> GenEntry]
  /\ \A c \in Cookies : registry[c].gen \in Gens
  /\ rht \in [Cookies -> Flow \cup {None}]
  /\ hwTab \in [HwIds -> Tuples \cup {None}]
  /\ fake \in 0..MaxFake /\ numFlows \in Int /\ numHw \in Int
  /\ fe \in [Tuples -> Record \cup {None}]
  /\ pending \subseteq Item
  /\ work \in [Workers -> SUBSET Item]

TypeInv == DataOK /\ ThreadsOK

-----------------------------------------------------------------------------
(* Lemmas on the local state of a call.                                    *)

\* A call moves on with a well-typed local state.
LEMMA StepType ==
  ASSUME NEW t \in Threads, NEW l, l \in Local, CallOK(l), ThreadsOK, Step(t, l)
  PROVE  ThreadsOK'
BY DEF ThreadsOK, Step

\* The local state of a thread that is in no call is well typed.
LEMMA IdleOK == Idle \in Local /\ CallOK(Idle)
<1>1. Idle \in Local
  BY FlowAssumption DEF Idle, Local, Pcs, Ops, Macs, Routes, Gens, Ids
<1>2. CallOK(Idle)
  BY DEF Idle, CallOK, KeyNeeded, CookiePcs, KeyPcs, Pcs
<1> QED BY <1>1, <1>2

\* Every caller of a helper resumes with a well-typed local state.
LEMMA BackOK ==
  ASSUME NEW t \in Threads, ThreadsOK PROVE Back(t) \in Local /\ CallOK(Back(t))
<1> DEFINE a == [Idle EXCEPT !.pc = "take", !.op = "drain"]
           b == [Idle EXCEPT !.pc = "next", !.op = th[t].op]
<1>1. th[t].op \in Ops
  BY DEF ThreadsOK, Local
<1>2. a \in Local /\ b \in Local
  BY <1>1, IdleOK DEF Local, Pcs, Ops
<1>3. CallOK(a) /\ CallOK(b)
  BY <1>1 DEF Idle, CallOK, KeyNeeded, CookiePcs, KeyPcs, Pcs
<1> QED BY <1>2, <1>3, IdleOK DEF Back

\* Returning from a helper keeps the threads well typed.
LEMMA ReturnType ==
  ASSUME NEW t \in Threads, ThreadsOK, Return(t) PROVE ThreadsOK'
BY BackOK, StepType DEF Return

\* A call that still carries its key may go on anywhere but to the FE write
\* (which needs the sink) and to the steps of a DESTROY.
LEMMA GotoKey ==
  ASSUME NEW t \in Threads, ThreadsOK, th[t].c \in Cookies, th[t].k \in Tuples,
         NEW p \in Pcs \ {"feadd", "tomb", "drop", "lookup", "forget"}
  PROVE  /\ [th[t] EXCEPT !.pc = p] \in Local /\ CallOK([th[t] EXCEPT !.pc = p])
         /\ Goto(t, p) => ThreadsOK'
<1>1. [th[t] EXCEPT !.pc = p] \in Local
  BY DEF ThreadsOK, Local
<1>2. CallOK([th[t] EXCEPT !.pc = p])
  BY DEF ThreadsOK, Local, CallOK
<1> QED BY <1>1, <1>2, StepType DEF Goto

\* The same with the rollback mark, for the owned remove of a failed install.
LEMMA UndoType ==
  ASSUME NEW t \in Threads, ThreadsOK, th[t].c \in Cookies, th[t].k \in Tuples,
         Step(t, [th[t] EXCEPT !.pc = "unlink", !.undo = TRUE])
  PROVE  ThreadsOK'
<1> DEFINE l == [th[t] EXCEPT !.pc = "unlink", !.undo = TRUE]
<1>0. "unlink" \in Pcs
  BY DEF Pcs
<1>1. l \in Local
  BY <1>0 DEF ThreadsOK, Local
<1>2. CallOK(l)
  BY DEF ThreadsOK, Local, CallOK
<1> QED BY <1>1, <1>2, StepType

\* The cookie and key a call carries at its program point.
LEMMA CallFacts ==
  ASSUME NEW t \in Threads, ThreadsOK
  PROVE  /\ th[t] \in Local
         /\ th[t].pc \in CookiePcs => th[t].c \in Cookies
         /\ KeyNeeded(th[t]) => th[t].k \in Tuples
BY DEF ThreadsOK, CallOK

\* A call loaded from a worker's list.
LEMMA LoadType ==
  ASSUME NEW i \in Item, NEW p \in Pcs \ {"feadd", "tomb", "drop", "lookup", "forget"},
         NEW o \in Ops
  PROVE  Load(p, o, i) \in Local /\ CallOK(Load(p, o, i))
<1>1. Load(p, o, i) \in Local
  BY IdleOK DEF Load, Local, Item
<1>2. CallOK(Load(p, o, i))
  BY DEF Load, Idle, Item, CallOK
<1> QED BY <1>1, <1>2

\* What a call parks, and what a collector copies from the table.
LEMMA ItemType ==
  ASSUME NEW l \in Local, l.c \in Cookies, l.k \in Tuples PROVE ItemOf(l) \in Item
BY DEF ItemOf, Local, Item

\* What a collector copies from the flow table is an item of its list.
LEMMA FlowItemType ==
  ASSUME NEW c \in Installed, DataOK PROVE FlowItem(c) \in Item
BY DEF FlowItem, Installed, DataOK, Flow, Item

\* A call that may still publish carries a cookie and a key.
LEMMA KeyFacts ==
  ASSUME NEW t \in Threads, TypeInv, th[t].pc \in KeyPcs
  PROVE  th[t] \in Local /\ th[t].c \in Cookies /\ th[t].k \in Tuples
BY CallFacts DEF TypeInv, KeyNeeded, KeyPcs, CookiePcs, Pcs

-----------------------------------------------------------------------------
(* Type correctness: insert.                                               *)

\* The admission check keeps the state well typed.
LEMMA AdmitType == ASSUME NEW t \in Threads, TypeInv, Insert_Admit(t) PROVE TypeInv'
<1>1. DataOK'
  BY DEF TypeInv, DataOK, Insert_Admit, env, hw, cnt
<1>2. th[t].c \in Cookies /\ th[t].k \in Tuples
  BY KeyFacts DEF Insert_Admit, KeyPcs
<1>3. ThreadsOK'
  BY <1>2, GotoKey, ReturnType DEF Insert_Admit, TypeInv, Pcs
<1> QED BY <1>1, <1>3 DEF TypeInv

\* Taking a hardware cookie keeps the state well typed.
LEMMA HwOkType == ASSUME NEW t \in Threads, TypeInv, Insert_HwOk(t) PROVE TypeInv'
<1>1. th[t] \in Local /\ th[t].c \in Cookies /\ th[t].k \in Tuples
  BY KeyFacts DEF Insert_HwOk, KeyPcs
<1>2. PICK i \in HwIds :
        /\ hwTab' = [hwTab EXCEPT ![i] = th[t].k]
        /\ Step(t, [th[t] EXCEPT !.pc = "gate", !.hw = TRUE, !.id = i])
  BY DEF Insert_HwOk
<1> DEFINE l == [th[t] EXCEPT !.pc = "gate", !.hw = TRUE, !.id = i]
<1>3. DataOK'
  BY <1>1, <1>2 DEF TypeInv, DataOK, Insert_HwOk, env, cnt
<1>4. i \in Ids /\ "gate" \in Pcs
  BY FlowAssumption DEF HwIds, Ids, Pcs
<1>5. l \in Local
  BY <1>1, <1>4 DEF Local
<1>6. CallOK(l)
  BY <1>1 DEF CallOK, Local
<1>7. ThreadsOK'
  BY <1>2, <1>5, <1>6, StepType DEF TypeInv
<1> QED BY <1>3, <1>7 DEF TypeInv

\* The software fallback stays within the bound of its id sequence.
LEMMA HwFallbackType ==
  ASSUME NEW t \in Threads, TypeInv, Insert_HwFallback(t) PROVE TypeInv'
<1> DEFINE l == [th[t] EXCEPT !.pc = "gate", !.hw = FALSE, !.id = fake + 1]
<1>1. th[t] \in Local /\ th[t].c \in Cookies /\ th[t].k \in Tuples
  BY KeyFacts DEF Insert_HwFallback, KeyPcs
<1>2. fake \in 0..MaxFake /\ fake < MaxFake /\ fake' = fake + 1
  BY DEF TypeInv, DataOK, Insert_HwFallback
<1>3. fake' \in 0..MaxFake /\ fake + 1 \in Ids /\ "gate" \in Pcs
  BY <1>2, FlowAssumption DEF Ids, Pcs
<1>4. DataOK'
  BY <1>3 DEF TypeInv, DataOK, Insert_HwFallback, env, cnt
<1>5. l \in Local
  BY <1>1, <1>3 DEF Local
<1>6. CallOK(l)
  BY <1>1 DEF CallOK, Local
<1>7. ThreadsOK'
  BY <1>5, <1>6, StepType DEF TypeInv, Insert_HwFallback
<1> QED BY <1>4, <1>7 DEF TypeInv

\* A refused hardware insert changes no table.
LEMMA HwRefusedType ==
  ASSUME NEW t \in Threads, TypeInv, Insert_HwRefused(t) PROVE TypeInv'
<1>1. DataOK'
  BY DEF TypeInv, DataOK, Insert_HwRefused, env, hw, cnt
<1>2. ThreadsOK'
  BY ReturnType DEF Insert_HwRefused, TypeInv
<1> QED BY <1>1, <1>2 DEF TypeInv

\* Freeing a hardware cookie keeps the table of cookies well typed.
LEMMA RollbackType ==
  ASSUME NEW l, DataOK PROVE HwRollback(l) \in [HwIds -> Tuples \cup {None}]
BY DEF HwRollback, DataOK

\* The generation gate, with its rollback, keeps the state well typed.
LEMMA GateType == ASSUME NEW t \in Threads, TypeInv, Insert_Gate(t) PROVE TypeInv'
<1>1. hwTab' \in [HwIds -> Tuples \cup {None}]
  BY RollbackType DEF Insert_Gate, TypeInv, DataOK
<1>2. DataOK'
  BY <1>1 DEF TypeInv, DataOK, Insert_Gate, env, cnt
<1>3. th[t].c \in Cookies /\ th[t].k \in Tuples
  BY KeyFacts DEF Insert_Gate, KeyPcs
<1>4. ThreadsOK'
  BY <1>3, GotoKey, ReturnType DEF Insert_Gate, TypeInv, Pcs
<1> QED BY <1>2, <1>4 DEF TypeInv

\* Publication writes a well-formed flow or rolls back.
LEMMA PublishType == ASSUME NEW t \in Threads, TypeInv, Insert_Publish(t) PROVE TypeInv'
<1> DEFINE f == [k |-> th[t].k, mac |-> th[t].mac, rt |-> th[t].rt,
                 gen |-> th[t].gen, hw |-> th[t].hw, id |-> th[t].id]
<1>1. th[t] \in Local /\ th[t].c \in Cookies /\ th[t].k \in Tuples
  BY KeyFacts DEF Insert_Publish, KeyPcs
<1>2. f \in Flow
  BY <1>1 DEF Local, Flow
<1>3. rht' = rht \/ rht' = [rht EXCEPT ![th[t].c] = f]
  BY DEF Insert_Publish
<1>4. rht' \in [Cookies -> Flow \cup {None}]
  BY <1>2, <1>3 DEF TypeInv, DataOK
<1>5. hwTab' \in [HwIds -> Tuples \cup {None}]
  BY RollbackType DEF Insert_Publish, TypeInv, DataOK
<1>6. DataOK'
  BY <1>4, <1>5 DEF TypeInv, DataOK, Insert_Publish, env, cnt
<1>7. ThreadsOK'
  BY <1>1, GotoKey, ReturnType DEF Insert_Publish, TypeInv, Pcs
<1> QED BY <1>6, <1>7 DEF TypeInv

\* Counting a published flow keeps the state well typed.
LEMMA CountType == ASSUME NEW t \in Threads, TypeInv, Insert_Count(t) PROVE TypeInv'
<1>1. numFlows' \in Int /\ numHw' \in Int
  BY DEF TypeInv, DataOK, Insert_Count
<1>2. DataOK'
  BY <1>1 DEF TypeInv, DataOK, Insert_Count, env, hw
<1>3. th[t].c \in Cookies /\ th[t].k \in Tuples
  BY KeyFacts DEF Insert_Count, KeyPcs
<1>4. Goto(t, "check") \/ Goto(t, "backed")
  BY DEF Insert_Count
<1>5. ThreadsOK'
  BY <1>3, <1>4, GotoKey DEF TypeInv, Pcs
<1> QED BY <1>2, <1>5 DEF TypeInv

-----------------------------------------------------------------------------
(* Type correctness: remove and the FE record.                             *)

\* Where the caller of a remove goes on.
LEMMA RemovedType ==
  ASSUME NEW t \in Threads, TypeInv, th[t].pc \in {"unlink", "release"}
  PROVE  /\ NotRemoved(t) \in Local /\ CallOK(NotRemoved(t))
         /\ Removed(t) \in Local /\ CallOK(Removed(t))
<1> DEFINE l == [th[t] EXCEPT !.hw = FALSE, !.id = 0]
<1>1. th[t] \in Local /\ th[t].c \in Cookies
  BY CallFacts DEF TypeInv, CookiePcs, Pcs
<1>2. th[t].op = "rebuild" => th[t].k \in Tuples
  BY CallFacts DEF TypeInv, KeyNeeded
<1>3. 0 \in Ids /\ {"forget", "recheck", "fedel"} \subseteq Pcs
  BY FlowAssumption DEF Ids, Pcs
<1>4. l \in Local /\ l.c = th[t].c /\ l.k = th[t].k /\ l.op = th[t].op
  BY <1>1, <1>3 DEF Local
<1>5. ASSUME NEW x \in {th[t], l}, NEW p \in {"forget", "recheck", "fedel"},
             p = "forget" => th[t].op = "destroy"
      PROVE  [x EXCEPT !.pc = p] \in Local /\ CallOK([x EXCEPT !.pc = p])
  <2>1. x \in Local /\ x.c \in Cookies /\ x.op = th[t].op /\ (x.op = "rebuild" => x.k \in Tuples)
    BY <1>1, <1>2, <1>4
  <2>2. [x EXCEPT !.pc = p] \in Local
    BY <2>1, <1>3 DEF Local
  <2>3. CallOK([x EXCEPT !.pc = p])
    BY <2>1, <1>5 DEF Local, CallOK, KeyNeeded, KeyPcs
  <2> QED BY <2>2, <2>3
<1>6. NotRemoved(t) \in Local /\ CallOK(NotRemoved(t))
  BY <1>5, BackOK DEF NotRemoved, TypeInv
<1>7. Removed(t) \in Local /\ CallOK(Removed(t))
  <2>1. l.op = th[t].op
    BY <1>4
  <2>2. Removed(t) \in {[l EXCEPT !.pc = "fedel"], Back(t)}
        \/ (th[t].op = "destroy" /\ Removed(t) = [l EXCEPT !.pc = "forget"])
        \/ Removed(t) = [l EXCEPT !.pc = "recheck"]
    BY <2>1 DEF Removed
  <2> QED BY <2>2, <1>5, BackOK DEF TypeInv
<1> QED BY <1>6, <1>7

\* The end of a DESTROY frees the address of its flow and nothing else.
LEMMA ReapType ==
  ASSUME NEW c \in Cookies, DataOK, Reap(c)
  PROVE  conn' \in [Cookies -> Tuples \cup {None}] /\ dying' \subseteq Cookies
BY DEF Reap, DataOK

\* The unlink, owned or refused, keeps the state well typed.
LEMMA UnlinkType == ASSUME NEW t \in Threads, TypeInv, Remove_Unlink(t) PROVE TypeInv'
<1>1. th[t] \in Local /\ th[t].c \in Cookies
  BY CallFacts DEF TypeInv, Remove_Unlink, CookiePcs, Pcs
<1>2. conn' \in [Cookies -> Tuples \cup {None}] /\ dying' \subseteq Cookies
  BY <1>1, ReapType DEF Remove_Unlink, TypeInv, DataOK
<1>3. rht' \in [Cookies -> Flow \cup {None}]
  BY DEF Remove_Unlink, TypeInv, DataOK
<1>4. DataOK'
  BY <1>2, <1>3 DEF TypeInv, DataOK, Remove_Unlink, hw, cnt
<1>5. CASE Step(t, NotRemoved(t))
  BY <1>4, <1>5, RemovedType, StepType DEF TypeInv, Remove_Unlink
<1>6. CASE ~Absent(th[t]) /\ Step(t, [th[t] EXCEPT !.pc = "release",
                  !.hw = rht[th[t].c].hw, !.id = rht[th[t].c].id])
  <2> DEFINE l == [th[t] EXCEPT !.pc = "release", !.hw = rht[th[t].c].hw,
                                !.id = rht[th[t].c].id]
  <2>1. rht[th[t].c] \in Flow
    BY <1>1, <1>6 DEF TypeInv, DataOK, Absent
  <2>2. l \in Local
    BY <1>1, <2>1 DEF Local, Flow, Pcs
  <2>3. KeyNeeded(l) => l.k \in Tuples
    BY <1>1, CallFacts DEF TypeInv, Remove_Unlink, KeyNeeded, KeyPcs, Local
  <2>4. CallOK(l)
    BY <1>1, <2>3 DEF Local, CallOK
  <2> QED BY <1>4, <1>6, <2>2, <2>4, StepType DEF TypeInv
<1> QED BY <1>5, <1>6 DEF Remove_Unlink

\* Releasing a removed flow keeps the state well typed.
LEMMA ReleaseType == ASSUME NEW t \in Threads, TypeInv, Remove_Release(t) PROVE TypeInv'
<1>1. numFlows' \in Int /\ numHw' \in Int
  BY DEF TypeInv, DataOK, Remove_Release
<1>2. hwTab' \in [HwIds -> Tuples \cup {None}]
  BY RollbackType DEF Remove_Release, TypeInv
<1>3. DataOK'
  BY <1>1, <1>2 DEF TypeInv, DataOK, Remove_Release, env
<1>4. ThreadsOK'
  BY RemovedType, StepType DEF TypeInv, Remove_Release
<1> QED BY <1>3, <1>4 DEF TypeInv

\* The TX queue an FE record will use is resolved before the record is written.
LEMMA SinkType == ASSUME NEW t \in Threads, TypeInv, Fe_Sink(t) PROVE TypeInv'
<1> DEFINE l == [th[t] EXCEPT !.pc = "feadd", !.sink = hwTab[th[t].id]]
<1>1. DataOK'
  BY DEF TypeInv, DataOK, Fe_Sink, env, hw, cnt
<1>2. th[t] \in Local /\ th[t].c \in Cookies /\ th[t].k \in Tuples
  BY KeyFacts DEF Fe_Sink, KeyPcs
<1>3. CASE th[t].id \in HwIds /\ hwTab[th[t].id] # None
  <2>1. hwTab[th[t].id] \in Tuples /\ "feadd" \in Pcs
    BY <1>3 DEF TypeInv, DataOK, Pcs
  <2>2. l \in Local
    BY <1>2, <2>1 DEF Local
  <2>3. CallOK(l)
    BY <1>2, <2>1 DEF Local, CallOK
  <2>4. ThreadsOK'
    BY <1>3, <2>2, <2>3, StepType DEF Fe_Sink, TypeInv
  <2> QED BY <1>1, <2>4 DEF TypeInv
<1>4. CASE ~(th[t].id \in HwIds /\ hwTab[th[t].id] # None)
  BY <1>1, <1>2, <1>4, UndoType DEF Fe_Sink, TypeInv
<1> QED BY <1>3, <1>4

\* The FE add writes a well-formed record.
LEMMA FeAddType == ASSUME NEW t \in Threads, TypeInv, Fe_Add(t) PROVE TypeInv'
<1> DEFINE r == [owner |-> th[t].c, gen |-> th[t].gen, mac |-> th[t].mac,
                 sink |-> th[t].sink]
<1>1. th[t] \in Local /\ th[t].c \in Cookies /\ th[t].k \in Tuples
  BY KeyFacts DEF Fe_Add, KeyPcs
<1>2. th[t].sink \in Tuples
  BY DEF TypeInv, ThreadsOK, CallOK, Fe_Add
<1>3. r \in Record
  BY <1>1, <1>2 DEF Local, Record
<1>4. fe' = [fe EXCEPT ![th[t].k] = r]
  BY DEF Fe_Add
<1>5. DataOK'
  BY <1>3, <1>4 DEF TypeInv, DataOK, Fe_Add, env, hw, cnt
<1>6. ThreadsOK'
  BY <1>1, GotoKey DEF Fe_Add, TypeInv, Pcs
<1> QED BY <1>5, <1>6 DEF TypeInv

\* A failed FE add enters the rollback.
LEMMA FeAddFailsType ==
  ASSUME NEW t \in Threads, TypeInv, Fe_AddFails(t) PROVE TypeInv'
<1>1. DataOK'
  BY DEF TypeInv, DataOK, Fe_AddFails, env, hw, cnt
<1>2. ThreadsOK'
  BY KeyFacts, UndoType DEF Fe_AddFails, TypeInv, KeyPcs
<1> QED BY <1>1, <1>2 DEF TypeInv

\* The ownership check after the FE add keeps the state well typed.
LEMMA FeCheckType == ASSUME NEW t \in Threads, TypeInv, Fe_Check(t) PROVE TypeInv'
<1>1. DataOK'
  BY DEF TypeInv, DataOK, Fe_Check, env, hw, cnt
<1>2. th[t].c \in Cookies /\ th[t].k \in Tuples
  BY KeyFacts DEF Fe_Check, KeyPcs
<1>3. ThreadsOK'
  BY <1>2, GotoKey, ReturnType DEF Fe_Check, TypeInv, Pcs
<1> QED BY <1>1, <1>3 DEF TypeInv

\* The rollback of an FE record keeps the state well typed.
LEMMA FeUndoType == ASSUME NEW t \in Threads, TypeInv, Fe_Undo(t) PROVE TypeInv'
<1>1. fe' \in [Tuples -> Record \cup {None}]
  BY DEF Fe_Undo, FeWithout, TypeInv, DataOK
<1>2. DataOK'
  BY <1>1 DEF TypeInv, DataOK, Fe_Undo, env, hw, cnt
<1>3. ThreadsOK'
  BY KeyFacts, UndoType DEF Fe_Undo, TypeInv, KeyPcs
<1> QED BY <1>2, <1>3 DEF TypeInv

\* The FE delete returns to the caller it was called from.
LEMMA FeDeleteType == ASSUME NEW t \in Threads, TypeInv, Fe_Delete(t) PROVE TypeInv'
<1> DEFINE l == [th[t] EXCEPT !.pc = "forget"]
<1>1. fe' \in [Tuples -> Record \cup {None}]
  BY DEF Fe_Delete, FeWithout, TypeInv, DataOK
<1>2. DataOK'
  BY <1>1 DEF TypeInv, DataOK, Fe_Delete, env, hw, cnt
<1>3. th[t] \in Local /\ th[t].c \in Cookies
  BY CallFacts DEF TypeInv, Fe_Delete, CookiePcs, Pcs
<1>4. CASE th[t].op = "destroy"
  <2>1. l \in Local /\ CallOK(l)
    BY <1>3, <1>4 DEF Local, CallOK, KeyNeeded, KeyPcs, Pcs
  <2> QED BY <1>2, <1>4, <2>1, StepType DEF Fe_Delete, Goto, TypeInv
<1>5. CASE th[t].op = "rebuild"
  <2>1. th[t].k \in Tuples
    BY <1>5, CallFacts DEF TypeInv, Fe_Delete, KeyNeeded
  <2>2. Goto(t, "admit")
    BY <1>5 DEF Fe_Delete
  <2> QED BY <1>2, <1>3, <2>1, <2>2, GotoKey DEF TypeInv, Pcs
<1>6. CASE th[t].op \notin {"destroy", "rebuild"}
  <2>1. Return(t)
    BY <1>6 DEF Fe_Delete
  <2> QED BY <1>2, <2>1, ReturnType DEF TypeInv
<1> QED BY <1>4, <1>5, <1>6

-----------------------------------------------------------------------------
(* Type correctness: REPLACE and DESTROY.                                  *)

\* A REPLACE that passes the dedup carries the tuple of its flow.
LEMMA DedupType ==
  ASSUME NEW t \in Threads, NEW c \in Cookies, TypeInv, Replace_Dedup(t, c) PROVE TypeInv'
<1> DEFINE l == [Idle EXCEPT !.pc = "claim", !.op = "replace", !.c = c,
                             !.k = conn[c], !.rt = route]
<1>1. DataOK'
  BY DEF TypeInv, DataOK, Replace_Dedup, env, hw, cnt
<1>2. conn[c] \in Tuples /\ route \in Routes
  BY DEF TypeInv, DataOK, Replace_Dedup
<1>3. "claim" \in Pcs /\ "replace" \in Ops
  BY DEF Pcs, Ops
<1>4. l \in Local
  BY <1>2, <1>3, IdleOK DEF Local
<1>5. CallOK(l)
  BY <1>2 DEF Idle, CallOK
<1> QED BY <1>1, <1>4, <1>5, StepType DEF TypeInv, Replace_Dedup

\* A claim hands out a generation within its range.
LEMMA ClaimType == ASSUME NEW t \in Threads, TypeInv, Replace_Claim(t) PROVE TypeInv'
<1> DEFINE c == th[t].c
           e == [gen |-> NextGen(registry[c]), st |-> "live"]
           l == [th[t] EXCEPT !.pc = "resolve", !.gen = GenCurrent(registry', c)]
<1>1. th[t] \in Local /\ c \in Cookies /\ th[t].k \in Tuples
  BY KeyFacts DEF Replace_Claim, KeyPcs
<1>2. registry' = [registry EXCEPT ![c] = e]
  BY DEF Replace_Claim, GenNext
<1>3. registry[c] \in GenEntry /\ registry[c].gen < MaxGen
  BY <1>1 DEF TypeInv, DataOK, Replace_Claim
<1>4. NextGen(registry[c]) \in Gens /\ NextGen(registry[c]) \in 0..(GenLimit - 1)
  BY <1>3, FlowAssumption, GenLimitAssumption DEF NextGen, GenEntry, Gens
<1>5. e \in GenEntry /\ e.gen \in Gens
  BY <1>4 DEF GenEntry
<1>6. registry' \in [Cookies -> GenEntry] /\ \A d \in Cookies : registry'[d].gen \in Gens
  BY <1>1, <1>2, <1>5 DEF TypeInv, DataOK
<1>7. DataOK'
  BY <1>6 DEF TypeInv, DataOK, Replace_Claim, env, hw, cnt
<1>8. l \in Local
  BY <1>1, <1>6 DEF Local, GenCurrent, Pcs
<1>9. CallOK(l)
  BY <1>1 DEF Local, CallOK
<1> QED BY <1>7, <1>8, <1>9, StepType DEF TypeInv, Replace_Claim

\* A failed claim ends the callback.
LEMMA ClaimFailsType ==
  ASSUME NEW t \in Threads, TypeInv, Replace_ClaimFails(t) PROVE TypeInv'
<1>1. DataOK'
  BY DEF TypeInv, DataOK, Replace_ClaimFails, env, hw, cnt
<1> QED BY <1>1, ReturnType DEF Replace_ClaimFails, TypeInv

\* A resolved next hop gives the call its address.
LEMMA ResolveType == ASSUME NEW t \in Threads, TypeInv, Replace_Resolve(t) PROVE TypeInv'
<1> DEFINE l == [th[t] EXCEPT !.pc = "admit", !.mac = nbr.mac]
<1>1. DataOK'
  BY DEF TypeInv, DataOK, Replace_Resolve, env, hw, cnt
<1>2. th[t] \in Local /\ th[t].c \in Cookies /\ th[t].k \in Tuples
  BY KeyFacts DEF Replace_Resolve, KeyPcs
<1>3. nbr.mac \in Macs
  BY DEF TypeInv, DataOK
<1>4. l \in Local
  BY <1>2, <1>3 DEF Local, Pcs
<1>5. CallOK(l)
  BY <1>2 DEF Local, CallOK
<1>6. Step(t, l) \/ Goto(t, "park")
  BY DEF Replace_Resolve
<1> QED BY <1>1, <1>2, <1>4, <1>5, <1>6, StepType, GotoKey DEF TypeInv, Pcs

\* A REPLACE refused during resolution changes nothing.
LEMMA RefusedType == ASSUME NEW t \in Threads, TypeInv, Replace_Refused(t) PROVE TypeInv'
<1>1. DataOK'
  BY DEF TypeInv, DataOK, Replace_Refused, env, hw, cnt
<1> QED BY <1>1, ReturnType DEF Replace_Refused, TypeInv

\* Parking keeps the queue well typed.
LEMMA EnqueueType ==
  ASSUME NEW i \in Item, DataOK, Enqueue(i) PROVE pending' \subseteq Item
BY DEF Enqueue, Enqueued, DataOK

\* A REPLACE that parks ends its callback.
LEMMA ParkType == ASSUME NEW t \in Threads, TypeInv, Replace_Park(t) PROVE TypeInv'
<1>1. ItemOf(th[t]) \in Item
  BY KeyFacts, ItemType DEF Replace_Park, KeyPcs
<1>2. pending' \subseteq Item
  BY <1>1, EnqueueType DEF Replace_Park, TypeInv
<1>3. DataOK'
  BY <1>2 DEF TypeInv, DataOK, Replace_Park, env, hw, cnt
<1> QED BY <1>3, ReturnType DEF Replace_Park, TypeInv

\* The ownership check before the FE install keeps the state well typed.
LEMMA CheckType == ASSUME NEW t \in Threads, TypeInv, Replace_Check(t) PROVE TypeInv'
<1>1. DataOK'
  BY DEF TypeInv, DataOK, Replace_Check, env, hw, cnt
<1>2. th[t].c \in Cookies /\ th[t].k \in Tuples
  BY KeyFacts DEF Replace_Check, KeyPcs
<1>3. Goto(t, "sink") \/ Step(t, [th[t] EXCEPT !.pc = "unlink", !.undo = TRUE])
  BY DEF Replace_Check
<1> QED BY <1>1, <1>2, <1>3, GotoKey, UndoType DEF TypeInv, Pcs

\* A DESTROY starts with the generation it destroys.
LEMMA SnapshotType ==
  ASSUME NEW t \in Threads, NEW c \in Cookies, TypeInv, Destroy_Snapshot(t, c) PROVE TypeInv'
<1> DEFINE l == [Idle EXCEPT !.pc = "tomb", !.op = "destroy", !.c = c,
                             !.gen = GenCurrent(registry, c)]
<1>1. DataOK'
  BY DEF TypeInv, DataOK, Destroy_Snapshot, env, hw, cnt
<1>2. GenCurrent(registry, c) \in Gens
  BY DEF TypeInv, DataOK, GenCurrent
<1>3. l \in Local
  BY <1>2, IdleOK DEF Local, Pcs, Ops
<1>4. CallOK(l)
  BY DEF Idle, CallOK, KeyNeeded, KeyPcs
<1> QED BY <1>1, <1>3, <1>4, StepType DEF TypeInv, Destroy_Snapshot

\* The steps of a DESTROY before its remove.
LEMMA DestroyGoto ==
  ASSUME NEW t \in Threads, TypeInv, th[t].pc \in {"tomb", "drop", "lookup"},
         NEW p \in {"drop", "lookup", "unlink"}, NEW o \in Tuples \cup {None}
  PROVE  /\ [th[t] EXCEPT !.pc = p, !.old = o] \in Local
         /\ CallOK([th[t] EXCEPT !.pc = p, !.old = o])
         /\ [th[t] EXCEPT !.pc = p] \in Local /\ CallOK([th[t] EXCEPT !.pc = p])
<1>1. th[t] \in Local /\ th[t].c \in Cookies
  BY CallFacts DEF TypeInv, CookiePcs, Pcs
<1>2. th[t].op = "destroy"
  BY DEF TypeInv, ThreadsOK, CallOK
<1>3. p \in Pcs
  BY DEF Pcs
<1>4. [th[t] EXCEPT !.pc = p, !.old = o] \in Local /\ [th[t] EXCEPT !.pc = p] \in Local
  BY <1>1, <1>3 DEF Local
<1>5. CallOK([th[t] EXCEPT !.pc = p, !.old = o]) /\ CallOK([th[t] EXCEPT !.pc = p])
  BY <1>1, <1>2 DEF Local, CallOK, KeyNeeded, KeyPcs
<1> QED BY <1>4, <1>5

\* The tombstone keeps the generation of the entry.
LEMMA TombstoneType ==
  ASSUME NEW t \in Threads, TypeInv, Destroy_Tombstone(t) PROVE TypeInv'
<1> DEFINE c == th[t].c
           e == [gen |-> registry[c].gen, st |-> "tomb"]
<1>1. c \in Cookies
  BY CallFacts DEF TypeInv, Destroy_Tombstone, CookiePcs, Pcs
<1>2. registry' = [registry EXCEPT ![c] = e]
  BY DEF Destroy_Tombstone, GenTombstone
<1>3. e \in GenEntry /\ e.gen \in Gens
  BY <1>1 DEF TypeInv, DataOK, GenEntry
<1>4. DataOK'
  BY <1>2, <1>3 DEF TypeInv, DataOK, Destroy_Tombstone, env, hw, cnt
<1>5. ThreadsOK'
  BY DestroyGoto, StepType DEF Destroy_Tombstone, Goto, TypeInv
<1> QED BY <1>4, <1>5 DEF TypeInv

\* Dropping parked entries keeps the queue well typed.
LEMMA DropPendingType ==
  ASSUME NEW t \in Threads, TypeInv, Destroy_DropPending(t) PROVE TypeInv'
<1>1. pending' \subseteq Item
  BY DEF TypeInv, DataOK, Destroy_DropPending
<1>2. DataOK'
  BY <1>1 DEF TypeInv, DataOK, Destroy_DropPending, env, hw, cnt
<1>3. ThreadsOK'
  BY DestroyGoto, StepType DEF Destroy_DropPending, Goto, TypeInv
<1> QED BY <1>2, <1>3 DEF TypeInv

\* DESTROY captures a tuple, or none, before its unlink.
LEMMA LookupType == ASSUME NEW t \in Threads, TypeInv, Destroy_Lookup(t) PROVE TypeInv'
<1> DEFINE o == IF rht[th[t].c] = None THEN None ELSE rht[th[t].c].k
<1>1. DataOK'
  BY DEF TypeInv, DataOK, Destroy_Lookup, env, hw, cnt
<1>2. th[t].c \in Cookies
  BY CallFacts DEF TypeInv, Destroy_Lookup, CookiePcs, Pcs
<1>3. o \in Tuples \cup {None}
  BY <1>2 DEF TypeInv, DataOK, Flow
<1>4. ThreadsOK'
  BY <1>3, DestroyGoto, StepType DEF Destroy_Lookup, TypeInv
<1> QED BY <1>1, <1>4 DEF TypeInv

\* Erasing the registry entry leaves the absent entry.
LEMMA ForgetType == ASSUME NEW t \in Threads, TypeInv, Destroy_Forget(t) PROVE TypeInv'
<1>1. th[t].c \in Cookies
  BY CallFacts DEF TypeInv, Destroy_Forget, CookiePcs, Pcs
<1>2. NoEntry \in GenEntry /\ NoEntry.gen \in Gens
  BY FlowAssumption, GenLimitAssumption DEF NoEntry, GenEntry, Gens
<1>3. registry' = [registry EXCEPT ![th[t].c] = NoEntry]
  BY DEF Destroy_Forget, GenRelease
<1>4. conn' \in [Cookies -> Tuples \cup {None}] /\ dying' \subseteq Cookies
  BY <1>1, ReapType DEF Destroy_Forget, TypeInv
<1>5. registry' \in [Cookies -> GenEntry] /\ \A d \in Cookies : registry'[d].gen \in Gens
  BY <1>1, <1>2, <1>3 DEF TypeInv, DataOK
<1>6. DataOK'
  BY <1>4, <1>5 DEF TypeInv, DataOK, Destroy_Forget, hw, cnt
<1> QED BY <1>6, ReturnType DEF Destroy_Forget, TypeInv

-----------------------------------------------------------------------------
(* Type correctness: the workers.                                          *)

\* A worker that starts on a list or a queue is in no call.
LEMMA StartType ==
  ASSUME NEW t \in Threads, ThreadsOK, NEW p \in {"next", "take", "collect"}, NEW o \in Ops,
         Step(t, [Idle EXCEPT !.pc = p, !.op = o])
  PROVE  ThreadsOK'
<1> DEFINE l == [Idle EXCEPT !.pc = p, !.op = o]
<1>1. l \in Local
  BY IdleOK DEF Local, Pcs
<1>2. CallOK(l)
  BY DEF Idle, CallOK, KeyNeeded, CookiePcs, KeyPcs, Pcs
<1> QED BY <1>1, <1>2, StepType

\* A worker's list shrinks when it takes an entry.
LEMMA TakeType ==
  ASSUME NEW t \in Workers, NEW i \in work[t], DataOK,
         work' = [work EXCEPT ![t] = @ \ {i}]
  PROVE  i \in Item /\ work' \in [Workers -> SUBSET Item]
BY DEF DataOK

\* The lookup after a republication keeps the state well typed.
LEMMA BackedType == ASSUME NEW t \in Threads, TypeInv, Republish_Backed(t) PROVE TypeInv'
<1>1. DataOK'
  BY DEF TypeInv, DataOK, Republish_Backed, env, hw, cnt
<1>2. th[t].c \in Cookies /\ th[t].k \in Tuples
  BY KeyFacts DEF Republish_Backed, KeyPcs
<1> QED BY <1>1, <1>2, GotoKey, ReturnType DEF Republish_Backed, TypeInv, Pcs

\* The poll moves well-formed entries to its private list.
LEMMA PollScanType == ASSUME NEW t \in Workers, TypeInv, Poll_Scan(t) PROVE TypeInv'
<1>1. \A p \in pending : [p EXCEPT !.mac = nbr.mac] \in Item
  BY DEF TypeInv, DataOK, Item
<1>2. work' \in [Workers -> SUBSET Item] /\ pending' \subseteq Item
  BY <1>1 DEF TypeInv, DataOK, Poll_Scan
<1>3. DataOK'
  BY <1>2 DEF TypeInv, DataOK, Poll_Scan, env, hw, cnt
<1> QED BY <1>3, StartType DEF Poll_Scan, TypeInv, Threads, Ops

\* The poll replays a well-formed entry or drops it.
LEMMA PollNextType ==
  ASSUME NEW t \in Workers, NEW i \in work[t], TypeInv, Poll_Next(t, i) PROVE TypeInv'
<1>1. i \in Item /\ work' \in [Workers -> SUBSET Item]
  BY TakeType DEF TypeInv, Poll_Next
<1>2. DataOK'
  BY <1>1 DEF TypeInv, DataOK, Poll_Next, env, hw, cnt
<1>3. CASE Step(t, Load("admit", "poll", i))
  BY <1>1, <1>2, <1>3, LoadType, StepType DEF TypeInv, Threads, Pcs, Ops
<1>4. CASE UNCHANGED th
  BY <1>2, <1>4 DEF TypeInv, ThreadsOK, CallOK
<1> QED BY <1>3, <1>4 DEF Poll_Next

\* The neighbour worker takes an address of the range.
LEMMA NeighEventType == ASSUME NEW t \in Workers, TypeInv, Neigh_Event(t) PROVE TypeInv'
<1>1. cur' \in Macs /\ ev' \in Macs
  BY FlowAssumption DEF TypeInv, DataOK, Neigh_Event, Macs
<1>2. DataOK'
  BY <1>1 DEF TypeInv, DataOK, Neigh_Event, hw, cnt
<1> QED BY <1>2, StartType DEF Neigh_Event, TypeInv, Threads, Ops

\* The drain takes one entry off the queue.
LEMMA DrainTakeType ==
  ASSUME NEW t \in Workers, NEW p \in pending, TypeInv, Drain_Take(t, p) PROVE TypeInv'
<1>1. p \in Item /\ pending' \subseteq Item
  BY DEF TypeInv, DataOK, Drain_Take
<1>2. DataOK'
  BY <1>1 DEF TypeInv, DataOK, Drain_Take, env, hw, cnt
<1> QED BY <1>1, <1>2, LoadType, StepType DEF Drain_Take, TypeInv, Threads, Pcs, Ops

\* The drain re-parks, drops or replays a well-formed entry.
LEMMA DrainResolveType ==
  ASSUME NEW t \in Workers, TypeInv, Drain_Resolve(t) PROVE TypeInv'
<1> DEFINE z == [th[t] EXCEPT !.mac = 0]
           l == [th[t] EXCEPT !.pc = "admit", !.mac = nbr.mac]
<1>0. t \in Threads
  BY DEF Threads
<1>1. th[t] \in Local /\ th[t].c \in Cookies /\ th[t].k \in Tuples
  BY <1>0, KeyFacts DEF Drain_Resolve, KeyPcs
<1>2. nbr.mac \in Macs /\ 0 \in Macs
  BY FlowAssumption DEF TypeInv, DataOK, Macs
<1>3. z \in Local /\ z.c \in Cookies /\ z.k \in Tuples
  BY <1>1, <1>2 DEF Local
<1>4. pending' \subseteq Item
  BY <1>3, ItemType, EnqueueType DEF Drain_Resolve, TypeInv, DataOK
<1>5. DataOK'
  BY <1>4 DEF TypeInv, DataOK, Drain_Resolve, env, hw, cnt
<1>6. l \in Local
  BY <1>1, <1>2 DEF Local, Pcs
<1>7. CallOK(l)
  BY <1>1 DEF Local, CallOK
<1>8. Return(t) \/ Step(t, l)
  BY DEF Drain_Resolve
<1> QED BY <1>0, <1>5, <1>6, <1>7, <1>8, StepType, ReturnType DEF TypeInv

\* The neighbour worker goes on with the rebuild.
LEMMA DrainDoneType == ASSUME NEW t \in Workers, TypeInv, Drain_Done(t) PROVE TypeInv'
<1>1. DataOK'
  BY DEF TypeInv, DataOK, Drain_Done, env, hw, cnt
<1> QED BY <1>1, StartType DEF Drain_Done, TypeInv, Threads, Ops

\* The rebuild collects well-formed fixups.
LEMMA RebuildCollectType ==
  ASSUME NEW t \in Workers, TypeInv, Rebuild_Collect(t) PROVE TypeInv'
<1>1. PICK S \in Collected({d \in Installed : rht[d].hw /\ rht[d].mac # cur}) :
        work' = [work EXCEPT ![t] = {[FlowItem(c) EXCEPT !.mac = cur] : c \in S}]
  BY DEF Rebuild_Collect
<1>2. S \subseteq Installed
  BY <1>1 DEF Collected
<1>3. \A c \in S : FlowItem(c) \in Item
  BY <1>2, FlowItemType DEF TypeInv
<1>4. \A c \in S : [FlowItem(c) EXCEPT !.mac = cur] \in Item
  BY <1>3 DEF Item, TypeInv, DataOK
<1>5. work' \in [Workers -> SUBSET Item]
  BY <1>1, <1>4 DEF TypeInv, DataOK
<1>6. DataOK'
  BY <1>5 DEF TypeInv, DataOK, Rebuild_Collect, env, hw, cnt
<1>7. [th[t] EXCEPT !.pc = "next"] \in Local
  BY DEF TypeInv, ThreadsOK, Threads, Local, Pcs
<1>8. CallOK([th[t] EXCEPT !.pc = "next"])
  BY DEF TypeInv, ThreadsOK, Threads, Local, CallOK, KeyNeeded, KeyPcs, CookiePcs, Pcs
<1> QED BY <1>6, <1>7, <1>8, StepType DEF Rebuild_Collect, Goto, TypeInv, Threads

\* A worker that takes an entry from its list starts the owned remove of it.
LEMMA LoadOldType ==
  ASSUME NEW i \in Item, NEW o \in Ops, NEW k \in Tuples
  PROVE  /\ [Load("unlink", o, i) EXCEPT !.old = k] \in Local
         /\ CallOK([Load("unlink", o, i) EXCEPT !.old = k])
<1>1. Load("unlink", o, i) \in Local
  BY LoadType DEF Pcs
<1>2. [Load("unlink", o, i) EXCEPT !.old = k] \in Local
  BY <1>1 DEF Local
<1>3. CallOK([Load("unlink", o, i) EXCEPT !.old = k])
  BY DEF Load, Idle, Item, CallOK
<1> QED BY <1>2, <1>3

\* The rebuild starts the remove of an installed flow, or skips the fixup.
LEMMA RebuildNextType ==
  ASSUME NEW t \in Workers, NEW i \in work[t], TypeInv, Rebuild_Next(t, i) PROVE TypeInv'
<1>1. i \in Item /\ work' \in [Workers -> SUBSET Item]
  BY TakeType DEF TypeInv, Rebuild_Next
<1>2. DataOK'
  BY <1>1 DEF TypeInv, DataOK, Rebuild_Next, env, hw, cnt
<1>3. CASE rht[i.c] # None /\ Step(t, [Load("unlink", "rebuild", i) EXCEPT !.old = rht[i.c].k])
  <2>1. rht[i.c].k \in Tuples
    BY <1>1, <1>3 DEF TypeInv, DataOK, Item, Flow
  <2> QED BY <1>1, <1>2, <1>3, <2>1, LoadOldType, StepType DEF TypeInv, Threads, Ops
<1>4. CASE UNCHANGED th
  BY <1>2, <1>4 DEF TypeInv, ThreadsOK, CallOK
<1> QED BY <1>3, <1>4 DEF Rebuild_Next

\* The second occupancy check of the rebuild keeps the state well typed.
LEMMA RecheckType == ASSUME NEW t \in Workers, TypeInv, Rebuild_Recheck(t) PROVE TypeInv'
<1> DEFINE l == [th[t] EXCEPT !.pc = "fedel"]
<1>0. t \in Threads
  BY DEF Threads
<1>1. DataOK'
  BY DEF TypeInv, DataOK, Rebuild_Recheck, env, hw, cnt
<1>2. th[t] \in Local /\ th[t].c \in Cookies /\ (KeyNeeded(th[t]) => th[t].k \in Tuples)
  BY <1>0, CallFacts DEF Rebuild_Recheck, TypeInv, CookiePcs, Pcs
<1>3. l \in Local
  BY <1>2 DEF Local, Pcs
<1>4. CallOK(l)
  BY <1>2 DEF Local, CallOK, KeyNeeded, KeyPcs, Rebuild_Recheck
<1>5. Return(t) \/ Step(t, l)
  BY DEF Rebuild_Recheck, Goto
<1> QED BY <1>0, <1>1, <1>3, <1>4, <1>5, StepType, ReturnType DEF TypeInv

\* The flush collects well-formed victims.
LEMMA FlushCollectType ==
  ASSUME NEW t \in Workers, TypeInv, Flush_Collect(t) PROVE TypeInv'
<1>1. PICK S \in Collected(Installed) : work' = [work EXCEPT ![t] = {FlowItem(c) : c \in S}]
  BY DEF Flush_Collect
<1>2. \A c \in S : FlowItem(c) \in Item
  BY <1>1, FlowItemType DEF Collected, TypeInv
<1>3. work' \in [Workers -> SUBSET Item]
  BY <1>1, <1>2 DEF TypeInv, DataOK
<1>4. DataOK'
  BY <1>3 DEF TypeInv, DataOK, Flush_Collect, hw, cnt
<1> QED BY <1>4, StartType DEF Flush_Collect, TypeInv, Threads, Ops

\* The flush starts the remove of a victim.
LEMMA FlushNextType ==
  ASSUME NEW t \in Workers, NEW i \in work[t], TypeInv, Flush_Next(t, i) PROVE TypeInv'
<1>1. i \in Item /\ work' \in [Workers -> SUBSET Item]
  BY TakeType DEF TypeInv, Flush_Next
<1>2. DataOK'
  BY <1>1 DEF TypeInv, DataOK, Flush_Next, env, hw, cnt
<1>3. i.k \in Tuples
  BY <1>1 DEF Item
<1> QED BY <1>1, <1>2, <1>3, LoadOldType, StepType DEF Flush_Next, TypeInv, Threads, Ops

\* A work item that is done is in no call.
LEMMA WorkerDoneType == ASSUME NEW t \in Workers, TypeInv, Worker_Done(t) PROVE TypeInv'
<1>1. cur' \in Macs
  BY FlowAssumption DEF TypeInv, DataOK, Worker_Done, Macs
<1>2. DataOK'
  BY <1>1 DEF TypeInv, DataOK, Worker_Done, env, hw, cnt
<1> QED BY <1>2, IdleOK, StepType DEF Worker_Done, TypeInv, Threads

-----------------------------------------------------------------------------
(* Type correctness: the environment, and the theorem.                     *)

\* The flow table and the network keep the state well typed.
LEMMA EnvironmentType == ASSUME TypeInv, Environment PROVE TypeInv'
<1>1. ASSUME UNCHANGED th PROVE ThreadsOK'
  BY <1>1 DEF TypeInv, ThreadsOK, CallOK
<1>2. ASSUME NEW c \in Cookies, NEW k \in Tuples, NewConn(c, k) PROVE TypeInv'
  <2>1. born' \in [Cookies -> 0..MaxBorn] /\ conn' \in [Cookies -> Tuples \cup {None}]
    BY <1>2, FlowAssumption DEF TypeInv, DataOK, NewConn
  <2>2. DataOK'
    BY <1>2, <2>1 DEF TypeInv, DataOK, NewConn, hw, cnt
  <2> QED BY <1>1, <1>2, <2>2 DEF TypeInv, NewConn
<1>3. ASSUME NEW c \in Cookies, Teardown(c) PROVE TypeInv'
  <2>1. DataOK'
    BY <1>3 DEF TypeInv, DataOK, Teardown, hw, cnt
  <2> QED BY <1>1, <1>3, <2>1 DEF TypeInv, Teardown
<1>4. ASSUME NEW m \in Macs, NeighUpdate(m) PROVE TypeInv'
  <2>1. DataOK'
    BY <1>4 DEF TypeInv, DataOK, NeighUpdate, hw, cnt
  <2> QED BY <1>1, <1>4, <2>1 DEF TypeInv, NeighUpdate
<1>5. ASSUME NeighLost PROVE TypeInv'
  <2>1. DataOK'
    BY <1>5 DEF TypeInv, DataOK, NeighLost, hw, cnt
  <2> QED BY <1>1, <1>5, <2>1 DEF TypeInv, NeighLost
<1>6. ASSUME RouteChange PROVE TypeInv'
  <2>1. route' \in Routes
    BY <1>6, FlowAssumption DEF TypeInv, DataOK, RouteChange, Routes
  <2>2. DataOK'
    BY <1>6, <2>1 DEF TypeInv, DataOK, RouteChange, hw, cnt
  <2> QED BY <1>1, <1>6, <2>2 DEF TypeInv, RouteChange
<1> QED BY <1>2, <1>3, <1>4, <1>5, <1>6 DEF Environment

\* Every step of insert, remove and FE install keeps the state well typed.
LEMMA CallStepType == ASSUME NEW t \in Threads, TypeInv, CallStep(t) PROVE TypeInv'
<1>1. CASE InsertStep(t)
  BY <1>1, AdmitType, HwOkType, HwFallbackType, HwRefusedType, GateType, PublishType,
     CountType DEF InsertStep
<1>2. CASE RemoveStep(t)
  BY <1>2, UnlinkType, ReleaseType DEF RemoveStep
<1>3. CASE FeStep(t)
  BY <1>3, SinkType, FeAddType, FeAddFailsType, FeCheckType, FeUndoType, FeDeleteType
     DEF FeStep
<1> QED BY <1>1, <1>2, <1>3 DEF CallStep

\* Every step of a callback keeps the state well typed.
LEMMA NftStepType == ASSUME NEW t \in Nft, TypeInv, NftStep(t) PROVE TypeInv'
<1>0. t \in Threads
  BY DEF Threads
<1>1. CASE \E c \in Cookies : Replace_Dedup(t, c) \/ Destroy_Snapshot(t, c)
  BY <1>0, <1>1, DedupType, SnapshotType
<1>2. CASE ReplaceStep(t)
  BY <1>0, <1>2, ClaimType, ClaimFailsType, ResolveType, RefusedType, ParkType, CheckType
     DEF ReplaceStep
<1>3. CASE DestroyStep(t)
  BY <1>0, <1>3, TombstoneType, DropPendingType, LookupType, ForgetType DEF DestroyStep
<1> QED BY <1>1, <1>2, <1>3 DEF NftStep

\* Every step of a work item keeps the state well typed.
LEMMA WorkerStepType == ASSUME NEW t \in Workers, TypeInv, WorkerStep(t) PROVE TypeInv'
<1>0. t \in Threads
  BY DEF Threads
<1>1. CASE Republish_Backed(t)
  BY <1>0, <1>1, BackedType
<1>2. CASE Poll_Scan(t) \/ \E i \in work[t] : Poll_Next(t, i)
  BY <1>2, PollScanType, PollNextType
<1>3. CASE Neigh_Event(t) \/ (\E p \in pending : Drain_Take(t, p)) \/ Drain_Resolve(t)
           \/ Drain_Done(t)
  BY <1>3, NeighEventType, DrainTakeType, DrainResolveType, DrainDoneType
<1>4. CASE Rebuild_Collect(t) \/ (\E i \in work[t] : Rebuild_Next(t, i)) \/ Rebuild_Recheck(t)
  BY <1>4, RebuildCollectType, RebuildNextType, RecheckType
<1>5. CASE Flush_Collect(t) \/ (\E i \in work[t] : Flush_Next(t, i)) \/ Worker_Done(t)
  BY <1>5, FlushCollectType, FlushNextType, WorkerDoneType
<1> QED BY <1>1, <1>2, <1>3, <1>4, <1>5 DEF WorkerStep

\* The module starts well typed.
LEMMA InitType == Init => TypeInv
<1> SUFFICES ASSUME Init PROVE TypeInv
  OBVIOUS
<1>1. NoEntry \in GenEntry /\ NoEntry.gen \in Gens
  BY FlowAssumption, GenLimitAssumption DEF NoEntry, GenEntry, Gens
<1>2. registry \in [Cookies -> GenEntry] /\ \A c \in Cookies : registry[c].gen \in Gens
  BY <1>1 DEF Init
<1>0. 0 \in Macs /\ 0 \in Routes /\ 0 \in 0..MaxBorn
  BY FlowAssumption DEF Macs, Routes
<1>3. /\ conn \in [Cookies -> Tuples \cup {None}] /\ dying \subseteq Cookies
      /\ born \in [Cookies -> 0..MaxBorn] /\ nbr \in [mac : Macs, valid : BOOLEAN]
      /\ ev \in Macs /\ cur \in Macs /\ route \in Routes /\ flushReq \in BOOLEAN
  BY <1>0 DEF Init
<1>4. /\ rht \in [Cookies -> Flow \cup {None}] /\ hwTab \in [HwIds -> Tuples \cup {None}]
      /\ fake \in 0..MaxFake /\ numFlows \in Int /\ numHw \in Int
      /\ fe \in [Tuples -> Record \cup {None}]
  BY FlowAssumption DEF Init
<1>5. pending \subseteq Item /\ work \in [Workers -> SUBSET Item]
  BY DEF Init
<1>6. DataOK
  BY <1>2, <1>3, <1>4, <1>5 DEF DataOK
<1>7. ThreadsOK
  BY IdleOK DEF Init, ThreadsOK
<1> QED BY <1>6, <1>7 DEF TypeInv

\* TypeInv is an inductive invariant: every step of every thread and of the
\* environment keeps it.
LEMMA TypeStep == TypeInv /\ [Next]_vars => TypeInv'
<1> SUFFICES ASSUME TypeInv, [Next]_vars PROVE TypeInv'
  OBVIOUS
<1>1. CASE Next
  BY <1>1, EnvironmentType, CallStepType, NftStepType, WorkerStepType DEF Next
<1>2. CASE UNCHANGED vars
  BY <1>2 DEF vars, TypeInv, DataOK, ThreadsOK, CallOK
<1> QED BY <1>1, <1>2

\* The state of the module stays well typed in every behaviour: the parked
\* flows carry an owner stamp, a call that works for a cookie knows it, and no
\* generation leaves its range, for every number of cookies, tuples and threads.
THEOREM TypeCorrect == Spec => []TypeOK
<1>1. TypeInv => TypeOK
  BY DEF TypeInv, DataOK, ThreadsOK, TypeOK
<1> QED BY <1>1, InitType, TypeStep, PTL DEF Spec

-----------------------------------------------------------------------------
(* Hardware cookies: HwInv adds to the two invariants what the publication *)
(* needs, that the cookie a call holds was taken for the call's own key.   *)

HoldPcs == {"gate", "publish", "release"}
LocalHolds(l) == l.hw /\ l.pc \in HoldPcs

HwOwnKey ==
  \A t \in Threads : Holds(t) /\ th[t].pc # "release" => hwTab[th[t].id] = th[t].k

HwInv == HwCookieOwned /\ HwCookieNotLeaked /\ HwOwnKey

\* Thread t does not touch the two tables and holds no cookie before or after.
FreeStep(t) ==
  /\ UNCHANGED <<rht, hwTab>>
  /\ ~Holds(t)
  /\ UNCHANGED th \/ \E l : Step(t, l) /\ ~LocalHolds(l)

\* Such a step keeps every cookie with its owner.
LEMMA FrameHw ==
  ASSUME NEW t \in Threads, TypeInv, HwInv, FreeStep(t) PROVE HwInv'
<1>1. \A c \in Cookies : Backed(c)' = Backed(c) /\ rht'[c] = rht[c]
  BY DEF FreeStep, Backed
<1>2. \A u \in Threads : Holds(u)' = Holds(u) /\ (Holds(u) => th'[u] = th[u])
  BY DEF FreeStep, Holds, LocalHolds, HoldPcs, Step, TypeInv, ThreadsOK
<1>3. hwTab' = hwTab
  BY DEF FreeStep
<1>4. HwCookieOwned'
  BY <1>1, <1>2, <1>3 DEF HwInv, HwCookieOwned
<1>5. HwCookieNotLeaked'
  BY <1>1, <1>2, <1>3 DEF HwInv, HwCookieNotLeaked
<1>6. HwOwnKey'
  BY <1>2, <1>3 DEF HwInv, HwOwnKey
<1> QED BY <1>4, <1>5, <1>6 DEF HwInv

\* A call gives its cookie back (nothing to do when it holds none).
LEMMA FreeHw ==
  ASSUME NEW t \in Threads, NEW l, TypeInv, HwInv, th[t].pc \in HoldPcs,
         Step(t, l), ~LocalHolds(l), rht' = rht, hwTab' = HwRollback(th[t])
  PROVE  HwInv'
<1>1. CASE ~th[t].hw
  <2>1. FreeStep(t)
    BY <1>1 DEF FreeStep, Holds, HwRollback
  <2> QED BY <2>1, FrameHw
<1>2. CASE th[t].hw
  <2>1. Holds(t) /\ th[t].id \in HwIds
    BY <1>2 DEF Holds, HoldPcs, HwInv, HwCookieOwned
  <2>2. hwTab' = [hwTab EXCEPT ![th[t].id] = None]
    BY <1>2 DEF HwRollback
  <2>3. \A c \in Cookies : Backed(c)' = Backed(c) /\ rht'[c] = rht[c]
    BY DEF Backed
  <2>4. ~Holds(t)'
    BY DEF Holds, LocalHolds, HoldPcs, Step, TypeInv, ThreadsOK
  <2>5. \A u \in Threads \ {t} : Holds(u)' = Holds(u) /\ th'[u] = th[u]
    BY DEF Holds, Step, TypeInv, ThreadsOK
  <2>6. \A c \in Cookies : Backed(c) => rht[c].id \in HwIds /\ hwTab'[rht[c].id] = hwTab[rht[c].id]
    BY <2>1, <2>2 DEF HwInv, HwCookieOwned, TypeInv, DataOK
  <2>7. \A u \in Threads \ {t} : Holds(u) => th[u].id \in HwIds /\ hwTab'[th[u].id] = hwTab[th[u].id]
    BY <2>1, <2>2 DEF HwInv, HwCookieOwned, TypeInv, DataOK
  <2>8. HwCookieOwned'
    BY <2>3, <2>4, <2>5, <2>6, <2>7 DEF HwInv, HwCookieOwned
  <2>9. HwCookieNotLeaked'
    <3> SUFFICES ASSUME NEW i \in HwIds, hwTab'[i] # None
                 PROVE  \/ \E c \in Cookies : Backed(c)' /\ rht'[c].id = i
                        \/ \E u \in Threads : Holds(u)' /\ th'[u].id = i
      BY DEF HwCookieNotLeaked
    <3>1. i # th[t].id /\ hwTab[i] # None
      BY <2>1, <2>2 DEF TypeInv, DataOK
    <3> QED BY <3>1, <2>3, <2>5 DEF HwInv, HwCookieNotLeaked
  <2>10. HwOwnKey'
    BY <2>4, <2>5, <2>7 DEF HwInv, HwOwnKey
  <2> QED BY <2>8, <2>9, <2>10 DEF HwInv
<1> QED BY <1>1, <1>2

\* Returning to the caller ends a call's hold.
LEMMA BackFree ==
  ASSUME NEW t \in Threads PROVE ~LocalHolds(Back(t))
BY DEF Back, LocalHolds, HoldPcs, Idle

\* The lowest free cookie has no owner, so the call becomes its only one.
LEMMA HwOkHw == ASSUME NEW t \in Threads, TypeInv, HwInv, Insert_HwOk(t) PROVE HwInv'
<1>1. PICK i \in HwIds :
        /\ hwTab[i] = None
        /\ hwTab' = [hwTab EXCEPT ![i] = th[t].k]
        /\ Step(t, [th[t] EXCEPT !.pc = "gate", !.hw = TRUE, !.id = i])
  BY DEF Insert_HwOk
<1>2. th[t] \in Local /\ th[t].k \in Tuples /\ th[t].k # None
  BY KeyFacts, FlowAssumption DEF Insert_HwOk, KeyPcs
<1>3. \A c \in Cookies : Backed(c)' = Backed(c) /\ rht'[c] = rht[c]
  BY DEF Insert_HwOk, Backed
<1>4. /\ Holds(t)' /\ th'[t].id = i /\ th'[t].k = th[t].k /\ th'[t].pc = "gate"
      /\ ~Holds(t) /\ hwTab'[i] = th[t].k
  BY <1>1, <1>2 DEF Holds, Step, TypeInv, ThreadsOK, DataOK, Local, Insert_HwOk
<1>5. \A u \in Threads \ {t} : Holds(u)' = Holds(u) /\ th'[u] = th[u]
  BY <1>1 DEF Holds, Step, TypeInv, ThreadsOK
<1>6. \A c \in Cookies : Backed(c) => /\ rht[c].id \in HwIds /\ rht[c].id # i
                                      /\ hwTab'[rht[c].id] = hwTab[rht[c].id]
  <2> SUFFICES ASSUME NEW c \in Cookies, Backed(c)
               PROVE  /\ rht[c].id \in HwIds /\ rht[c].id # i
                      /\ hwTab'[rht[c].id] = hwTab[rht[c].id]
    OBVIOUS
  <2>1. rht[c].id \in HwIds /\ hwTab[rht[c].id] = rht[c].k
    BY DEF HwInv, HwCookieOwned
  <2>2. rht[c].k # None
    BY FlowAssumption DEF Backed, TypeInv, DataOK, Flow
  <2> QED BY <2>1, <2>2, <1>1 DEF TypeInv, DataOK
<1>7. \A u \in Threads \ {t} : Holds(u) => /\ th[u].id \in HwIds /\ th[u].id # i
                                           /\ hwTab'[th[u].id] = hwTab[th[u].id]
  BY <1>1 DEF HwInv, HwCookieOwned, TypeInv, DataOK
<1>8. HwCookieOwned'
  BY <1>2, <1>3, <1>4, <1>5, <1>6, <1>7 DEF HwInv, HwCookieOwned
<1>9. HwCookieNotLeaked'
  <2> SUFFICES ASSUME NEW j \in HwIds, hwTab'[j] # None
               PROVE  \/ \E c \in Cookies : Backed(c)' /\ rht'[c].id = j
                      \/ \E u \in Threads : Holds(u)' /\ th'[u].id = j
    BY DEF HwCookieNotLeaked
  <2>1. CASE j = i
    BY <2>1, <1>4
  <2>2. CASE j # i
    <3>1. hwTab[j] # None
      BY <2>2, <1>1 DEF TypeInv, DataOK
    <3> QED BY <3>1, <1>3, <1>4, <1>5 DEF HwInv, HwCookieNotLeaked
  <2> QED BY <2>1, <2>2
<1>10. HwOwnKey'
  BY <1>4, <1>5, <1>7 DEF HwInv, HwOwnKey
<1> QED BY <1>8, <1>9, <1>10 DEF HwInv

\* The gate passes the cookie on or frees it.
LEMMA GateHw == ASSUME NEW t \in Threads, TypeInv, HwInv, Insert_Gate(t) PROVE HwInv'
<1>1. CASE hwTab' = HwRollback(th[t]) /\ Return(t)
  BY <1>1, BackFree, FreeHw DEF Insert_Gate, Return, HoldPcs
<1>2. CASE Goto(t, "publish") /\ hwTab' = hwTab
  <2>1. rht' = rht /\ hwTab' = hwTab /\ th[t].pc = "gate" /\ th[t] \in Local
    BY <1>2 DEF Insert_Gate, TypeInv, ThreadsOK
  <2>2. \A c \in Cookies : Backed(c)' = Backed(c) /\ rht'[c] = rht[c]
    BY <2>1 DEF Backed
  <2>3. \A u \in Threads : /\ Holds(u)' = Holds(u)
                           /\ th'[u].id = th[u].id /\ th'[u].k = th[u].k
                           /\ (th'[u].pc = "release") = (th[u].pc = "release")
    BY <1>2, <2>1 DEF Holds, Goto, Step, TypeInv, ThreadsOK, Local
  <2>4. HwCookieOwned'
    BY <2>1, <2>2, <2>3 DEF HwInv, HwCookieOwned
  <2>5. HwCookieNotLeaked'
    BY <2>1, <2>2, <2>3 DEF HwInv, HwCookieNotLeaked
  <2>6. HwOwnKey'
    BY <2>1, <2>3 DEF HwInv, HwOwnKey
  <2> QED BY <2>4, <2>5, <2>6 DEF HwInv
<1> QED BY <1>1, <1>2 DEF Insert_Gate

\* Publication hands the cookie from the call to the table entry.
LEMMA PublishHw == ASSUME NEW t \in Threads, TypeInv, HwInv, Insert_Publish(t) PROVE HwInv'
<1>0. th[t] \in Local /\ th[t].c \in Cookies /\ th[t].k \in Tuples /\ th[t].pc = "publish"
  BY KeyFacts DEF Insert_Publish, KeyPcs
<1>1. CASE hwTab' = HwRollback(th[t]) /\ Return(t) /\ rht' = rht
  BY <1>1, <1>0, BackFree, FreeHw DEF Return, HoldPcs
<1>2. CASE rht[th[t].c] = None /\ hwTab' = hwTab /\ Goto(t, "count")
           /\ rht' = [rht EXCEPT ![th[t].c] = [k |-> th[t].k, mac |-> th[t].mac,
                        rt |-> th[t].rt, gen |-> th[t].gen, hw |-> th[t].hw, id |-> th[t].id]]
  <2>0. PICK c \in Cookies : c = th[t].c
    BY <1>0
  <2> DEFINE f == [k |-> th[t].k, mac |-> th[t].mac, rt |-> th[t].rt, gen |-> th[t].gen,
                   hw |-> th[t].hw, id |-> th[t].id]
  <2>1. f \in Flow /\ f # None /\ f.hw = th[t].hw /\ f.id = th[t].id /\ f.k = th[t].k
    BY <1>0, NoneAssumption DEF Local, Flow
  <2>2. rht[c] = None /\ rht'[c] = f /\ \A d \in Cookies \ {c} : rht'[d] = rht[d]
    BY <1>2, <2>0 DEF TypeInv, DataOK
  <2>3. /\ (Backed(c)' <=> th[t].hw) /\ ~Backed(c)
        /\ \A d \in Cookies \ {c} : Backed(d)' <=> Backed(d)
    BY <2>1, <2>2 DEF Backed
  <2>4. /\ (Holds(t) <=> th[t].hw) /\ ~Holds(t)'
        /\ \A u \in Threads \ {t} : (Holds(u)' <=> Holds(u)) /\ th'[u] = th[u]
    BY <1>0, <1>2 DEF Holds, Goto, Step, TypeInv, ThreadsOK, Local
  <2>5. th[t].hw => th[t].id \in HwIds /\ hwTab[th[t].id] = th[t].k
    BY <1>0, <2>4 DEF HwInv, HwCookieOwned, HwOwnKey
  <2>6. HwCookieOwned'
    <3>1. \A d \in Cookies : Backed(d)' => rht'[d].id \in HwIds /\ hwTab'[rht'[d].id] = rht'[d].k
      BY <1>2, <2>1, <2>2, <2>3, <2>5 DEF HwInv, HwCookieOwned
    <3>2. \A u \in Threads : Holds(u)' => th'[u].id \in HwIds /\ hwTab'[th'[u].id] # None
      BY <1>2, <2>4 DEF HwInv, HwCookieOwned
    <3>3. \A d \in Cookies \ {c} : Backed(d)' /\ Backed(c)' => rht'[c].id # rht'[d].id
      BY <1>0, <2>1, <2>2, <2>3, <2>4 DEF HwInv, HwCookieOwned
    <3>4. \A d, e \in Cookies \ {c} : Backed(d)' /\ Backed(e)' /\ rht'[d].id = rht'[e].id => d = e
      BY <2>2, <2>3 DEF HwInv, HwCookieOwned
    <3>5. \A u, v \in Threads : Holds(u)' /\ Holds(v)' /\ th'[u].id = th'[v].id => u = v
      BY <2>4 DEF HwInv, HwCookieOwned
    <3>6. \A d \in Cookies \ {c}, u \in Threads : Backed(d)' /\ Holds(u)' => rht'[d].id # th'[u].id
      BY <2>2, <2>3, <2>4 DEF HwInv, HwCookieOwned
    <3>7. \A u \in Threads : Backed(c)' /\ Holds(u)' => rht'[c].id # th'[u].id
      BY <2>1, <2>2, <2>3, <2>4 DEF HwInv, HwCookieOwned
    <3> QED BY <3>1, <3>2, <3>3, <3>4, <3>5, <3>6, <3>7 DEF HwCookieOwned
  <2>7. HwCookieNotLeaked'
    <3> SUFFICES ASSUME NEW i \in HwIds, hwTab[i] # None
                 PROVE  \/ \E d \in Cookies : Backed(d)' /\ rht'[d].id = i
                        \/ \E u \in Threads : Holds(u)' /\ th'[u].id = i
      BY <1>2 DEF HwCookieNotLeaked
    <3>1. CASE \E d \in Cookies : Backed(d) /\ rht[d].id = i
      BY <3>1, <2>2, <2>3
    <3>2. CASE \E u \in Threads : Holds(u) /\ th[u].id = i
      <4> PICK u \in Threads : Holds(u) /\ th[u].id = i
        BY <3>2
      <4>1. CASE u = t
        BY <4>1, <1>0, <2>1, <2>2, <2>3, <2>4
      <4>2. CASE u # t
        BY <4>2, <2>4
      <4> QED BY <4>1, <4>2
    <3> QED BY <3>1, <3>2 DEF HwInv, HwCookieNotLeaked
  <2>8. HwOwnKey'
    BY <1>2, <2>4 DEF HwInv, HwOwnKey
  <2> QED BY <2>6, <2>7, <2>8 DEF HwInv
<1> QED BY <1>1, <1>2 DEF Insert_Publish

\* The unlink hands the cookie from the table entry to the removing call.
LEMMA UnlinkHw == ASSUME NEW t \in Threads, TypeInv, HwInv, Remove_Unlink(t) PROVE HwInv'
<1>0. th[t] \in Local /\ th[t].c \in Cookies /\ th[t].pc = "unlink" /\ hwTab' = hwTab
  BY CallFacts DEF Remove_Unlink, TypeInv, CookiePcs, Pcs, hw
<1>1. CASE Step(t, NotRemoved(t)) /\ rht' = rht
  <2>1. ~LocalHolds(NotRemoved(t))
    BY <1>0, BackFree DEF NotRemoved, LocalHolds, HoldPcs, Local
  <2>2. FreeStep(t)
    BY <1>0, <1>1, <2>1 DEF FreeStep, Holds
  <2> QED BY <2>2, FrameHw
<1>2. CASE /\ rht[th[t].c] # None /\ rht' = [rht EXCEPT ![th[t].c] = None]
           /\ Step(t, [th[t] EXCEPT !.pc = "release", !.hw = rht[th[t].c].hw,
                                    !.id = rht[th[t].c].id])
  <2>c. PICK c \in Cookies : c = th[t].c
    BY <1>0
  <2>0. rht[c] # None /\ rht'[c] = None /\ \A d \in Cookies \ {c} : rht'[d] = rht[d]
    BY <2>c, <1>2 DEF TypeInv, DataOK
  <2>1. /\ ~Backed(c)' /\ (Backed(c) <=> rht[c].hw)
        /\ \A d \in Cookies \ {c} : Backed(d)' <=> Backed(d)
    BY <2>0 DEF Backed
  <2>2. /\ ~Holds(t) /\ (Holds(t)' <=> rht[c].hw) /\ th'[t].id = rht[c].id
        /\ th'[t].pc = "release"
        /\ \A u \in Threads \ {t} : (Holds(u)' <=> Holds(u)) /\ th'[u] = th[u]
    BY <2>c, <1>0, <1>2 DEF Holds, Step, TypeInv, ThreadsOK, DataOK, Local, Flow
  <2>3. rht[c].hw => rht[c].id \in HwIds /\ hwTab[rht[c].id] # None
    <3>1. rht[c].k # None
      BY <2>0, FlowAssumption DEF TypeInv, DataOK, Flow
    <3> QED BY <1>0, <2>1, <3>1 DEF HwInv, HwCookieOwned
  <2>4. HwCookieOwned'
    <3>1. \A d \in Cookies : Backed(d)' => /\ d # c /\ Backed(d) /\ rht'[d] = rht[d]
      BY <2>0, <2>1
    <3>2. \A u \in Threads : Holds(u)' => th'[u].id \in HwIds /\ hwTab'[th'[u].id] # None
      BY <1>0, <2>2, <2>3 DEF HwInv, HwCookieOwned
    <3>3. \A d \in Cookies : Holds(t)' /\ Backed(d)' => rht'[d].id # th'[t].id
      BY <1>0, <3>1, <2>1, <2>2 DEF HwInv, HwCookieOwned
    <3>4. \A u \in Threads \ {t} : Holds(u)' /\ Holds(t)' => th'[u].id # th'[t].id
      BY <1>0, <2>1, <2>2 DEF HwInv, HwCookieOwned
    <3>5. \A d \in Cookies, u \in Threads \ {t} : Backed(d)' /\ Holds(u)' => rht'[d].id # th'[u].id
      BY <3>1, <2>2 DEF HwInv, HwCookieOwned
    <3>6. \A u, v \in Threads \ {t} : Holds(u)' /\ Holds(v)' /\ th'[u].id = th'[v].id => u = v
      BY <2>2 DEF HwInv, HwCookieOwned
    <3>7. \A d, e \in Cookies : Backed(d)' /\ Backed(e)' /\ rht'[d].id = rht'[e].id => d = e
      BY <3>1 DEF HwInv, HwCookieOwned
    <3>8. \A d \in Cookies : Backed(d)' => rht'[d].id \in HwIds /\ hwTab'[rht'[d].id] = rht'[d].k
      BY <1>0, <3>1 DEF HwInv, HwCookieOwned
    <3> QED BY <3>2, <3>3, <3>4, <3>5, <3>6, <3>7, <3>8 DEF HwCookieOwned
  <2>5. HwCookieNotLeaked'
    <3> SUFFICES ASSUME NEW i \in HwIds, hwTab[i] # None
                 PROVE  \/ \E d \in Cookies : Backed(d)' /\ rht'[d].id = i
                        \/ \E u \in Threads : Holds(u)' /\ th'[u].id = i
      BY <1>0 DEF HwCookieNotLeaked
    <3>1. CASE \E d \in Cookies : Backed(d) /\ rht[d].id = i
      BY <3>1, <1>0, <2>0, <2>1, <2>2
    <3>2. CASE \E u \in Threads : Holds(u) /\ th[u].id = i
      BY <3>2, <2>2
    <3> QED BY <3>1, <3>2 DEF HwInv, HwCookieNotLeaked
  <2>6. HwOwnKey'
    BY <1>0, <2>2 DEF HwInv, HwOwnKey
  <2> QED BY <2>4, <2>5, <2>6 DEF HwInv
<1> QED BY <1>1, <1>2 DEF Remove_Unlink, Absent

\* The release frees the cookie of the flow the unlink took out of the table.
LEMMA ReleaseHw == ASSUME NEW t \in Threads, TypeInv, HwInv, Remove_Release(t) PROVE HwInv'
<1>1. th[t] \in Local
  BY DEF TypeInv, ThreadsOK
<1>2. ~LocalHolds(Removed(t))
  BY <1>1, BackFree DEF Removed, LocalHolds, HoldPcs, Local
<1> QED BY <1>2, FreeHw DEF Remove_Release, HoldPcs

\* A call that holds no cookie and moves to a point where it would hold none.
LEMMA GotoFree ==
  ASSUME NEW t \in Threads, TypeInv, UNCHANGED <<rht, hwTab>>, ~Holds(t),
         NEW p \in Pcs \ HoldPcs,
         \/ Goto(t, p) \/ Return(t) \/ UNCHANGED th
         \/ Step(t, [th[t] EXCEPT !.pc = p, !.undo = TRUE])
         \/ \E x : Step(t, [th[t] EXCEPT !.pc = p, !.mac = x])
         \/ \E x : Step(t, [th[t] EXCEPT !.pc = p, !.gen = x])
         \/ \E x : Step(t, [th[t] EXCEPT !.pc = p, !.sink = x])
         \/ \E x : Step(t, [th[t] EXCEPT !.pc = p, !.old = x])
  PROVE  FreeStep(t)
<1>1. th[t] \in Local
  BY DEF TypeInv, ThreadsOK
<1>2. \A x : /\ ~LocalHolds([th[t] EXCEPT !.pc = p])
             /\ ~LocalHolds([th[t] EXCEPT !.pc = p, !.undo = TRUE])
             /\ ~LocalHolds([th[t] EXCEPT !.pc = p, !.mac = x])
             /\ ~LocalHolds([th[t] EXCEPT !.pc = p, !.gen = x])
             /\ ~LocalHolds([th[t] EXCEPT !.pc = p, !.sink = x])
             /\ ~LocalHolds([th[t] EXCEPT !.pc = p, !.old = x])
  BY <1>1 DEF LocalHolds, Local
<1> QED BY <1>2, BackFree DEF FreeStep, Goto, Return

\* A thread that starts a call, or takes the next entry of its list.
LEMMA StartFree ==
  ASSUME NEW t \in Threads, UNCHANGED <<rht, hwTab>>, ~Holds(t), NEW l, Step(t, l), ~l.hw
  PROVE  FreeStep(t)
BY DEF FreeStep, LocalHolds

\* The steps of insert that hold no hardware cookie.
LEMMA InsertFree ==
  ASSUME NEW t \in Threads, TypeInv,
         Insert_Admit(t) \/ Insert_HwRefused(t) \/ Insert_HwFallback(t) \/ Insert_Count(t)
  PROVE  FreeStep(t)
<1>0. {"hw", "check", "backed"} \subseteq Pcs \ HoldPcs
  BY DEF Pcs, HoldPcs
<1>1. CASE Insert_Admit(t)
  BY <1>0, <1>1, GotoFree DEF Insert_Admit, Holds, hw
<1>2. CASE Insert_HwRefused(t)
  BY <1>0, <1>2, GotoFree DEF Insert_HwRefused, Holds, hw
<1>3. CASE Insert_HwFallback(t)
  <2>1. ~[th[t] EXCEPT !.pc = "gate", !.hw = FALSE, !.id = fake + 1].hw
    BY DEF TypeInv, ThreadsOK, Local
  <2> QED BY <1>3, <2>1, StartFree DEF Insert_HwFallback, Holds
<1>4. CASE Insert_Count(t)
  <2>1. Goto(t, "check") \/ Goto(t, "backed")
    BY <1>4 DEF Insert_Count
  <2> QED BY <1>0, <1>4, <2>1, GotoFree DEF Insert_Count, Holds, hw
<1> QED BY <1>1, <1>2, <1>3, <1>4

\* Writing and deleting FE records touches no hardware cookie.
LEMMA FeFree == ASSUME NEW t \in Threads, TypeInv, FeStep(t) PROVE FreeStep(t)
<1>0. {"feadd", "unlink", "fecheck", "feundo", "forget", "admit"} \subseteq Pcs \ HoldPcs
  BY DEF Pcs, HoldPcs
<1>1. CASE Fe_Sink(t)
  BY <1>0, <1>1, GotoFree DEF Fe_Sink, Holds, hw
<1>2. CASE Fe_Add(t)
  BY <1>0, <1>2, GotoFree DEF Fe_Add, Holds, hw
<1>3. CASE Fe_AddFails(t)
  BY <1>0, <1>3, GotoFree DEF Fe_AddFails, Holds, hw
<1>4. CASE Fe_Check(t)
  BY <1>0, <1>4, GotoFree DEF Fe_Check, Holds, hw
<1>5. CASE Fe_Undo(t)
  BY <1>0, <1>5, GotoFree DEF Fe_Undo, Holds, hw
<1>6. CASE Fe_Delete(t)
  <2>1. Goto(t, "forget") \/ Goto(t, "admit") \/ Return(t)
    BY <1>6 DEF Fe_Delete
  <2> QED BY <1>0, <1>6, <2>1, GotoFree DEF Fe_Delete, Holds, hw
<1> QED BY <1>1, <1>2, <1>3, <1>4, <1>5, <1>6 DEF FeStep

\* The steps of REPLACE and DESTROY outside insert and remove hold no cookie.
LEMMA NftFree == ASSUME NEW t \in Threads, TypeInv, NftStep(t) PROVE FreeStep(t)
<1>0. {"resolve", "admit", "park", "sink", "unlink", "drop", "lookup"} \subseteq Pcs \ HoldPcs
  BY DEF Pcs, HoldPcs
<1>1. ASSUME NEW c \in Cookies, Replace_Dedup(t, c) PROVE FreeStep(t)
  <2>1. ~[Idle EXCEPT !.pc = "claim", !.op = "replace", !.c = c, !.k = conn[c], !.rt = route].hw
    BY DEF Idle
  <2> QED BY <1>1, <2>1, StartFree DEF Replace_Dedup, Holds, hw
<1>2. ASSUME NEW c \in Cookies, Destroy_Snapshot(t, c) PROVE FreeStep(t)
  <2>1. ~[Idle EXCEPT !.pc = "tomb", !.op = "destroy", !.c = c,
                      !.gen = GenCurrent(registry, c)].hw
    BY DEF Idle
  <2> QED BY <1>2, <2>1, StartFree DEF Destroy_Snapshot, Holds, hw
<1>3. CASE Replace_Claim(t)
  BY <1>0, <1>3, GotoFree DEF Replace_Claim, Holds, hw
<1>4. CASE Replace_ClaimFails(t) \/ Replace_Refused(t) \/ Replace_Park(t)
  BY <1>0, <1>4, GotoFree DEF Replace_ClaimFails, Replace_Refused, Replace_Park, Holds, hw
<1>5. CASE Replace_Resolve(t)
  <2>1. Goto(t, "park") \/ Step(t, [th[t] EXCEPT !.pc = "admit", !.mac = nbr.mac])
    BY <1>5 DEF Replace_Resolve
  <2> QED BY <1>0, <1>5, <2>1, GotoFree DEF Replace_Resolve, Holds, hw
<1>6. CASE Replace_Check(t)
  BY <1>0, <1>6, GotoFree DEF Replace_Check, Holds, hw
<1>7. CASE Destroy_Tombstone(t)
  BY <1>0, <1>7, GotoFree DEF Destroy_Tombstone, Holds, hw
<1>8. CASE Destroy_DropPending(t)
  BY <1>0, <1>8, GotoFree DEF Destroy_DropPending, Holds, hw
<1>9. CASE Destroy_Lookup(t)
  BY <1>0, <1>9, GotoFree DEF Destroy_Lookup, Holds, hw
<1>10. CASE Destroy_Forget(t)
  BY <1>0, <1>10, GotoFree DEF Destroy_Forget, Holds, hw
<1> QED BY <1>1, <1>2, <1>3, <1>4, <1>5, <1>6, <1>7, <1>8, <1>9, <1>10
        DEF NftStep, ReplaceStep, DestroyStep

\* A call loaded from a list or started by a worker holds no cookie.
LEMMA LoadFree ==
  ASSUME NEW p, NEW o, NEW i, NEW k
  PROVE  ~Load(p, o, i).hw /\ ~[Load(p, o, i) EXCEPT !.old = k].hw
         /\ ~[Idle EXCEPT !.pc = p, !.op = o].hw /\ ~Idle.hw
BY DEF Load, Idle

\* Nor do the steps of the work items.
LEMMA WorkerFree == ASSUME NEW t \in Workers, TypeInv, WorkerStep(t) PROVE FreeStep(t)
<1>0. t \in Threads /\ {"sink", "admit", "next", "fedel"} \subseteq Pcs \ HoldPcs
  BY DEF Threads, Pcs, HoldPcs
<1>1. CASE Republish_Backed(t)
  BY <1>0, <1>1, GotoFree DEF Republish_Backed, Holds, hw
<1>2. CASE Poll_Scan(t)
  BY <1>0, <1>2, LoadFree, StartFree DEF Poll_Scan, Holds, hw
<1>3. ASSUME NEW i \in work[t], Poll_Next(t, i) PROVE FreeStep(t)
  BY <1>0, <1>3, LoadFree, StartFree, GotoFree DEF Poll_Next, Holds, hw
<1>4. CASE Neigh_Event(t)
  BY <1>0, <1>4, LoadFree, StartFree DEF Neigh_Event, Holds, hw
<1>5. ASSUME NEW p \in pending, Drain_Take(t, p) PROVE FreeStep(t)
  BY <1>0, <1>5, LoadFree, StartFree DEF Drain_Take, Holds, hw
<1>6. CASE Drain_Resolve(t)
  <2>1. Return(t) \/ Step(t, [th[t] EXCEPT !.pc = "admit", !.mac = nbr.mac])
    BY <1>6 DEF Drain_Resolve
  <2> QED BY <1>0, <1>6, <2>1, GotoFree DEF Drain_Resolve, Holds, hw
<1>7. CASE Drain_Done(t)
  BY <1>0, <1>7, LoadFree, StartFree DEF Drain_Done, Holds, hw
<1>8. CASE Rebuild_Collect(t)
  BY <1>0, <1>8, GotoFree DEF Rebuild_Collect, Holds, hw
<1>9. ASSUME NEW i \in work[t], Rebuild_Next(t, i) PROVE FreeStep(t)
  BY <1>0, <1>9, LoadFree, StartFree, GotoFree DEF Rebuild_Next, Holds, hw
<1>10. CASE Rebuild_Recheck(t)
  BY <1>0, <1>10, GotoFree DEF Rebuild_Recheck, Holds, hw
<1>11. CASE Flush_Collect(t)
  BY <1>0, <1>11, LoadFree, StartFree DEF Flush_Collect, Holds, hw
<1>12. ASSUME NEW i \in work[t], Flush_Next(t, i) PROVE FreeStep(t)
  BY <1>0, <1>12, LoadFree, StartFree DEF Flush_Next, Holds, hw
<1>13. CASE Worker_Done(t)
  BY <1>0, <1>13, LoadFree, StartFree DEF Worker_Done, Holds, hw
<1> QED BY <1>1, <1>2, <1>3, <1>4, <1>5, <1>6, <1>7, <1>8, <1>9, <1>10, <1>11, <1>12, <1>13
        DEF WorkerStep

\* The environment touches neither table, and no call.
LEMMA EnvironmentHw ==
  ASSUME TypeInv, HwInv, Environment \/ UNCHANGED vars PROVE HwInv'
<1>1. rht' = rht /\ hwTab' = hwTab /\ th' = th
  BY DEF Environment, NewConn, Teardown, NeighUpdate, NeighLost, RouteChange, vars, hw
<1>2. HwCookieOwned'
  BY <1>1 DEF HwInv, HwCookieOwned, Backed, Holds
<1>3. HwCookieNotLeaked'
  BY <1>1 DEF HwInv, HwCookieNotLeaked, Backed, Holds
<1>4. HwOwnKey'
  BY <1>1 DEF HwInv, HwOwnKey, Holds
<1> QED BY <1>2, <1>3, <1>4 DEF HwInv

\* HwInv is inductive relative to TypeInv.
LEMMA HwStep == TypeInv /\ HwInv /\ [Next]_vars => HwInv'
<1> SUFFICES ASSUME TypeInv, HwInv, [Next]_vars PROVE HwInv'
  OBVIOUS
<1>1. ASSUME NEW t \in Threads, InsertStep(t) PROVE HwInv'
  BY <1>1, InsertFree, FrameHw, HwOkHw, GateHw, PublishHw DEF InsertStep
<1>2. ASSUME NEW t \in Threads, RemoveStep(t) PROVE HwInv'
  BY <1>2, UnlinkHw, ReleaseHw DEF RemoveStep
<1>3. ASSUME NEW t \in Threads, FeStep(t) PROVE HwInv'
  BY <1>3, FeFree, FrameHw
<1>4. ASSUME NEW t \in Nft, NftStep(t) PROVE HwInv'
  BY <1>4, NftFree, FrameHw DEF Threads
<1>5. ASSUME NEW t \in Workers, WorkerStep(t) PROVE HwInv'
  BY <1>5, WorkerFree, FrameHw DEF Threads
<1> QED BY <1>1, <1>2, <1>3, <1>4, <1>5, EnvironmentHw DEF Next, CallStep

\* No cookie is taken at load.
LEMMA InitHw == Init => HwInv
<1> SUFFICES ASSUME Init PROVE HwInv
  OBVIOUS
<1>1. \A c \in Cookies : ~Backed(c)
  BY DEF Init, Backed
<1>2. \A t \in Threads : ~Holds(t)
  BY DEF Init, Holds, Idle
<1>3. \A i \in HwIds : hwTab[i] = None
  BY DEF Init
<1> QED BY <1>1, <1>2, <1>3 DEF HwInv, HwCookieOwned, HwCookieNotLeaked, HwOwnKey

\* Every behaviour satisfies the joint inductive invariant.
LEMMA HwAlways == Spec => []HwInv
BY InitType, TypeStep, InitHw, HwStep, PTL DEF Spec

\* A hardware cookie is never shared, freed twice or freed under its owner: in
\* every interleaving it belongs to one hardware-backed flow or to one call of
\* insert or remove, whatever gate, duplicate check or rollback the call takes.
THEOREM HwCookiesOwned == Spec => []HwCookieOwned
<1>1. HwInv => HwCookieOwned
  BY DEF HwInv
<1> QED BY <1>1, HwAlways, PTL

\* Nor is one leaked: every cookie in use can be named from the flow table or
\* from a call that will give it back.
THEOREM HwCookiesNotLeaked == Spec => []HwCookieNotLeaked
<1>1. HwInv => HwCookieNotLeaked
  BY DEF HwInv
<1> QED BY <1>1, HwAlways, PTL

-----------------------------------------------------------------------------
(* The pending queue: PendInv adds that the queue is finite.               *)

PendInv == IsFiniteSet(pending) /\ PendingOnePerCookie

\* Taking entries off the queue keeps it within its bound.
LEMMA ShrinkPend ==
  ASSUME PendInv, pending' \subseteq pending PROVE PendInv'
<1>1. /\ IsFiniteSet(pending') /\ Cardinality(pending') <= Cardinality(pending)
      /\ Cardinality(pending) \in Nat /\ Cardinality(pending') \in Nat
  BY FS_Subset, FS_CardinalityType DEF PendInv
<1> QED BY <1>1, FlowAssumption DEF PendInv, PendingOnePerCookie

\* Parking a flow replaces the entry of its cookie or adds one below the cap.
LEMMA EnqueuePend ==
  ASSUME NEW i, PendInv, Enqueue(i) PROVE PendInv'
<1>1. CASE pending' = pending
  BY <1>1, ShrinkPend
<1>2. CASE pending' = Enqueued(i) /\ \E p \in pending : p.c = i.c
  <2> DEFINE S == {q \in pending : q.c # i.c}
  <2>1. PICK p \in pending : p.c = i.c
    BY <1>2
  <2>2. /\ IsFiniteSet(pending \ {p})
        /\ Cardinality(pending \ {p}) = Cardinality(pending) - 1
    BY FS_RemoveElement DEF PendInv
  <2>3. S \subseteq pending \ {p} /\ i \notin S
    BY <2>1
  <2>4. IsFiniteSet(S) /\ Cardinality(S) <= Cardinality(pending \ {p})
    BY <2>2, <2>3, FS_Subset
  <2>5. pending' = S \cup {i}
    BY <1>2 DEF Enqueued
  <2>6. IsFiniteSet(pending') /\ Cardinality(pending') = Cardinality(S) + 1
    BY <2>3, <2>4, <2>5, FS_AddElement
  <2>7. Cardinality(pending) \in Nat /\ Cardinality(S) \in Nat
    BY <2>4, FS_CardinalityType DEF PendInv
  <2>8. Cardinality(pending') <= MaxPending
    BY <2>2, <2>4, <2>6, <2>7, FlowAssumption DEF PendInv, PendingOnePerCookie
  <2>9. \A p1, q1 \in pending' : p1.c = q1.c => p1 = q1
    BY <2>5 DEF PendInv, PendingOnePerCookie
  <2> QED BY <2>6, <2>8, <2>9 DEF PendInv, PendingOnePerCookie
<1>3. CASE /\ pending' = Enqueued(i) /\ ~(\E p \in pending : p.c = i.c)
           /\ Cardinality(pending) < MaxPending
  <2>1. Cardinality(pending) \in Nat
    BY FS_CardinalityType DEF PendInv
  <2>2. pending' = pending \cup {i} /\ i \notin pending
    BY <1>3, <2>1, FlowAssumption DEF Enqueued
  <2>3. IsFiniteSet(pending') /\ Cardinality(pending') = Cardinality(pending) + 1
    BY <2>2, FS_AddElement DEF PendInv
  <2>4. Cardinality(pending') <= MaxPending
    BY <1>3, <2>1, <2>3, FlowAssumption
  <2>5. \A p1, q1 \in pending' : p1.c = q1.c => p1 = q1
    BY <1>3, <2>2 DEF PendInv, PendingOnePerCookie
  <2> QED BY <2>3, <2>4, <2>5 DEF PendInv, PendingOnePerCookie
<1>4. CASE /\ pending' = Enqueued(i) /\ ~(\E p \in pending : p.c = i.c)
           /\ ~(Cardinality(pending) < MaxPending)
  <2>1. Cardinality(pending) \in Nat
    BY FS_CardinalityType DEF PendInv
  <2>2. pending' = pending
    BY <1>4, <2>1, FlowAssumption DEF Enqueued
  <2> QED BY <2>2, ShrinkPend
<1> QED BY <1>1, <1>2, <1>3, <1>4 DEF Enqueue

\* PendInv is inductive: only a park and a re-park add to the queue.
LEMMA PendStep == PendInv /\ [Next]_vars => PendInv'
<1> SUFFICES ASSUME PendInv, [Next]_vars PROVE PendInv'
  OBVIOUS
<1>1. CASE Environment \/ UNCHANGED vars
  <2>1. pending' = pending
    BY <1>1 DEF Environment, NewConn, Teardown, NeighUpdate, NeighLost, RouteChange, vars
  <2> QED BY <2>1, ShrinkPend
<1>2. ASSUME NEW t \in Threads, InsertStep(t) \/ RemoveStep(t) PROVE PendInv'
  <2>1. pending' = pending
    BY <1>2 DEF InsertStep, RemoveStep, Insert_Admit, Insert_HwOk, Insert_HwFallback,
       Insert_HwRefused, Insert_Gate, Insert_Publish, Insert_Count, Remove_Unlink,
       Remove_Release
  <2> QED BY <2>1, ShrinkPend
<1>3. ASSUME NEW t \in Threads, FeStep(t) PROVE PendInv'
  <2>1. pending' = pending
    BY <1>3 DEF FeStep, Fe_Sink, Fe_Add, Fe_AddFails, Fe_Check, Fe_Undo, Fe_Delete
  <2> QED BY <2>1, ShrinkPend
<1>4. ASSUME NEW t \in Nft, NftStep(t) PROVE PendInv'
  <2>1. CASE Replace_Park(t)
    BY <2>1, EnqueuePend DEF Replace_Park
  <2>2. CASE ~Replace_Park(t)
    <3>1. pending' \subseteq pending
      BY <1>4, <2>2 DEF NftStep, ReplaceStep, DestroyStep, Replace_Dedup, Destroy_Snapshot,
         Replace_Claim, Replace_ClaimFails, Replace_Resolve, Replace_Refused, Replace_Check,
         Destroy_Tombstone, Destroy_DropPending, Destroy_Lookup, Destroy_Forget
    <3> QED BY <3>1, ShrinkPend
  <2> QED BY <2>1, <2>2
<1>5. ASSUME NEW t \in Workers, WorkerStep(t) PROVE PendInv'
  <2>1. CASE Drain_Resolve(t)
    <3>1. pending' = pending \/ Enqueue(ItemOf([th[t] EXCEPT !.mac = 0]))
      BY <2>1 DEF Drain_Resolve
    <3> QED BY <3>1, ShrinkPend, EnqueuePend
  <2>2. CASE ~Drain_Resolve(t)
    <3>1. pending' \subseteq pending
      BY <1>5, <2>2 DEF WorkerStep, Republish_Backed, Poll_Scan, Poll_Next, Neigh_Event,
         Drain_Take, Drain_Done, Rebuild_Collect, Rebuild_Next, Rebuild_Recheck,
         Flush_Collect, Flush_Next, Worker_Done
    <3> QED BY <3>1, ShrinkPend
  <2> QED BY <2>1, <2>2
<1> QED BY <1>1, <1>2, <1>3, <1>4, <1>5 DEF Next, CallStep

\* The pending queue holds one entry per cookie and never more than
\* ASK_FLOW_PENDING_MAX, however callbacks, poll and drain interleave.
THEOREM PendingBounded == Spec => []PendingOnePerCookie
<1>1. Init => PendInv
  BY FS_EmptySet, FlowAssumption DEF Init, PendInv, PendingOnePerCookie
<1>2. PendInv => PendingOnePerCookie
  BY DEF PendInv
<1> QED BY <1>1, <1>2, PendStep, PTL DEF Spec
=============================================================================
