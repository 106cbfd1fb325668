---------------------------- MODULE AskFlowOwner ----------------------------
(***************************************************************************)
(* The ownership protocol of AskFlow: a destroyed flow does not come back, *)
(* no FE record is left without its flow, and a live hardware-backed flow  *)
(* has its own record.  For any number of flows, threads, claims and uses  *)
(* of an address, under the conditions the code needs:                     *)
(*                                                                         *)
(*   Undisturbed   no software fallback, no flush, one next-hop address    *)
(*   SettledSpec   nf_flow_table takes up an address or a tuple again only *)
(*                 when the driver is through with it                      *)
(*                                                                         *)
(* Without them the code breaks the properties (README, known gaps).       *)
(*                                                                         *)
(* A flow's life has two parts.  Before DESTROY unlinks it, at most one    *)
(* call is past its publication and the entry of the table is that call's; *)
(* afterwards (Over) several calls may be, and each thing left behind has  *)
(* a call that is still going to remove it.                                *)
(***************************************************************************)
EXTENDS AskFlowProofs

Undisturbed == "sw" \notin HwOutcomes /\ "flush" \notin Workers /\ MaxMac <= 1

-----------------------------------------------------------------------------
(* The form of a call.                                                     *)

\* The calls that publish.
PubOps == {"replace", "poll", "drain"}

InsertPcs == {"admit", "hw", "gate", "publish", "count", "sink", "feadd", "fecheck",
              "feundo", "unlink", "release"}
ReplacePcs == InsertPcs \cup {"claim", "resolve", "park", "check"}
ReplayPcs  == InsertPcs \cup {"backed"}
DestroyPcs == {"tomb", "drop", "lookup", "unlink", "release", "fedel", "forget"}
RestPcs    == {"idle", "take", "next", "collect"}

\* Which thread runs which call, and where it can be.
Site(t, l) ==
  \/ l.op = "none" /\ l.pc = "idle"
  \/ t \in Nft /\ l.op = "replace" /\ l.pc \in ReplacePcs
  \/ t \in Nft /\ l.op = "destroy" /\ l.pc \in DestroyPcs
  \/ t = "poll" /\ l.op = "poll" /\ l.pc \in ReplayPcs \cup {"next"}
  \/ t = "neigh" /\ l.op = "drain" /\ l.pc \in ReplayPcs \cup {"take", "reresolve"}
  \/ t = "neigh" /\ l.op = "rebuild" /\ l.pc \in {"collect", "next"}

\* A call that publishes has a stamp once it claimed, an address once it
\* resolved, and a hardware cookie once it has one.
Form(t, l) ==
  /\ Site(t, l)
  /\ l.pc \in RestPcs => l.c = None
  /\ l.op = "destroy" => l.k = None
  /\ l.op \in PubOps =>
       /\ l.old = None
       /\ l.c # None /\ l.pc # "claim" => l.gen # 0
       /\ l.pc \in {"admit", "hw", "gate", "publish"} => l.mac # 0
       /\ l.pc \in {"gate", "publish"} => l.hw

\* With one address the rebuild never finds a flow to rebuild.
FormInv ==
  /\ \A t \in Threads : Form(t, th[t])
  /\ nbr.valid => nbr.mac # 0
  /\ "neigh" \in Workers /\ th["neigh"].pc # "idle" => cur # 0
  /\ \A t \in Workers : \A i \in work[t] : t = "poll" /\ i.gen # 0 /\ i.mac # 0
  /\ \A p \in pending : p.gen # 0
  /\ \A c \in Installed : rht[c].mac # 0 /\ rht[c].hw

-----------------------------------------------------------------------------
(* Who may still do what to a flow.                                        *)

\* The program points between a call's publication and the end of its undo.
Late == {"count", "check", "backed", "sink", "feadd", "fecheck", "feundo", "unlink"}

Post(t, c)  == th[t].c = c /\ th[t].op \in PubOps /\ th[t].pc \in Late
Wrote(t, c) == th[t].c = c /\ th[t].op \in PubOps /\ th[t].pc \in {"fecheck", "feundo"}

Destroyer(t, c) == th[t].c = c /\ th[t].op = "destroy"
Cutting(t, c)   == Destroyer(t, c) /\ th[t].pc = "unlink"
Cut(t, c)       == Destroyer(t, c) /\ th[t].pc \in {"release", "fedel", "forget"}

\* DESTROY has unlinked the flow, or there is none.
Over(c) == conn[c] = None \/ \E t \in Threads : Cut(t, c)

\* Something in flight, or the table, has cookie c, tuple k and stamp g.
Stamped(c, k, g) ==
  \/ rht[c] # None /\ rht[c].k = k /\ rht[c].gen = g
  \/ \E t \in Threads : /\ th[t].c = c /\ th[t].op \in PubOps
                        /\ th[t].k = k /\ th[t].gen = g
  \/ \E t \in Workers : \E i \in work[t] : i.c = c /\ i.k = k /\ i.gen = g
  \/ \E p \in pending : p.c = c /\ p.k = k /\ p.gen = g

\* One DESTROY at a time, and none while a REPLACE has not claimed yet.
CallbackInv ==
  /\ \A c \in dying : conn[c] # None
  /\ \A t \in Threads : th[t].pc = "claim" => conn[th[t].c] # None
  /\ \A t, u \in Threads, c \in Cookies : Destroyer(t, c) =>
       /\ conn[c] # None
       /\ th[u].c = c => th[u].pc # "claim"
       /\ Destroyer(u, c) => u = t

\* No stamp in flight is newer than the registry's; DESTROY works on the last.
StampInv ==
  /\ \A c \in Cookies : conn[c] = None => registry[c] = NoEntry
  /\ \A c \in Cookies, k \in Tuples, g \in Gens :
       Stamped(c, k, g) /\ conn[c] # None => g <= registry[c].gen
  /\ \A t \in Threads, c \in Cookies : Destroyer(t, c) =>
       /\ th[t].gen = registry[c].gen
       /\ th[t].pc # "tomb" => registry[c].st = "tomb"

\* A tuple belongs to one cookie, and is that of the flow there is.
KeyInv ==
  \A c \in Cookies, k \in Tuples : Carries(c, k) =>
    /\ conn[c] # None => conn[c] = k
    /\ \A d \in Cookies : Carries(d, k) => d = c

Mine(c, k)  == fe[k] # None /\ fe[k].owner = c
Exact(c, k) == fe[k] = [owner |-> c, gen |-> rht[c].gen, mac |-> rht[c].mac, sink |-> k]

\* Until DESTROY unlinks it: the entry belongs to the one call past its
\* publication, and the record is there when that call wrote it or is over.
Before(c) ==
  /\ \A t, u \in Threads : Post(t, c) /\ Post(u, c) => t = u
  /\ \A t \in Threads : Post(t, c) =>
       /\ rht[c] # None
       /\ rht[c].gen = th[t].gen /\ rht[c].id = th[t].id /\ rht[c].mac = th[t].mac
       /\ IF Wrote(t, c) THEN Exact(c, conn[c]) ELSE \A k \in Tuples : ~Mine(c, k)
       /\ th[t].pc = "feadd" => th[t].sink = conn[c]
  /\ \A k \in Tuples : Mine(c, k) => rht[c] # None /\ k = conn[c]
  /\ rht[c] # None => Exact(c, conn[c]) \/ \E t \in Threads : Post(t, c)
  /\ \A t \in Threads : Cutting(t, c) /\ th[t].old = None /\ rht[c] # None =>
       \E u \in Threads : Post(u, c)

\* Afterwards: an entry or a record that is left has a call that removes it.
After(c) ==
  /\ rht[c] # None => \E t \in Threads : Post(t, c) /\ rht[c].gen <= th[t].gen
  /\ \A k \in Tuples : Mine(c, k) =>
       \/ \E t \in Threads : Wrote(t, c) /\ th[t].k = k
       \/ \E t \in Threads : Cut(t, c) /\ th[t].pc # "forget" /\ th[t].old = k

OwnAt(c) == IF Over(c) THEN After(c) ELSE Before(c)
OwnInv == \A c \in Cookies : OwnAt(c)

\* The parts that use one another.
LifeInv == CallbackInv /\ StampInv /\ KeyInv /\ OwnInv

-----------------------------------------------------------------------------
(* FormInv is an invariant.                                                *)

\* The shared part of FormInv.
FormRest ==
  /\ nbr.valid => nbr.mac # 0
  /\ \A t \in Workers : \A i \in work[t] : t = "poll" /\ i.gen # 0 /\ i.mac # 0
  /\ \A p \in pending : p.gen # 0
  /\ \A c \in Installed : rht[c].mac # 0 /\ rht[c].hw

\* A call moves on in good form.
LEMMA StepForm ==
  ASSUME NEW t \in Threads, NEW l, TypeInv, FormInv, Step(t, l), Form(t, l), FormRest',
         cur' = cur, t = "neigh" => th[t].pc # "idle"
  PROVE  FormInv'
<1>1. \A u \in Threads : th'[u] = IF u = t THEN l ELSE th[u]
  BY DEF Step, TypeInv, ThreadsOK
<1>2. \A u \in Threads : Form(u, th'[u])
  BY <1>1 DEF FormInv
<1>3. "neigh" \in Workers /\ th'["neigh"].pc # "idle" => cur' # 0
  BY <1>1 DEF FormInv, Threads
<1> QED BY <1>2, <1>3 DEF FormInv, FormRest

\* A step that leaves queues and table alone.
LEMMA SameRest ==
  ASSUME FormInv, UNCHANGED <<nbr, work, pending, rht>> PROVE FormRest'
BY DEF FormInv, FormRest, Installed

\* The call of a thread that is not at rest publishes or destroys.
LEMMA OpFacts ==
  ASSUME NEW t \in Threads, FormInv, th[t].pc \notin RestPcs
  PROVE  /\ th[t].op \in PubOps \cup {"destroy"} /\ th[t].pc # "idle"
         /\ Form(t, th[t]) /\ Site(t, th[t])
<1>1. Form(t, th[t]) /\ Site(t, th[t])
  BY DEF FormInv, Form
<1>2. th[t].op \in PubOps \cup {"destroy"}
  BY <1>1 DEF Site, RestPcs, PubOps
<1> QED BY <1>1, <1>2 DEF RestPcs

LEMMA IdleForm == \A t : Form(t, Idle)
BY DEF Form, Site, Idle, RestPcs, PubOps

\* Returning from a call.
LEMMA BackForm ==
  ASSUME NEW t \in Threads, FormInv, th[t].pc \notin RestPcs
  PROVE  Form(t, Back(t)) /\ Back(t).c = None /\ Back(t).pc \in RestPcs
<1>1. CASE th[t].op \in {"replace", "destroy"}
  <2>1. Back(t) = Idle
    BY <1>1 DEF Back
  <2>2. Form(t, Back(t))
    BY <2>1, IdleForm
  <2> QED BY <2>1, <2>2 DEF Idle, RestPcs
<1>2. CASE th[t].op = "drain"
  <2>1. Back(t) = [Idle EXCEPT !.pc = "take", !.op = "drain"] /\ t = "neigh"
    BY <1>2, OpFacts DEF Back, Site
  <2> QED BY <2>1 DEF Idle, Form, Site, RestPcs, PubOps
<1>3. CASE th[t].op = "poll"
  <2>1. Back(t) = [Idle EXCEPT !.pc = "next", !.op = "poll"] /\ t = "poll"
    BY <1>3, OpFacts DEF Back, Site
  <2> QED BY <2>1 DEF Idle, Form, Site, RestPcs, PubOps
<1> QED BY <1>1, <1>2, <1>3, OpFacts DEF PubOps

\* A call that ends, or goes on with another local state, and changes neither
\* queues nor table.
LEMMA CallForm ==
  ASSUME NEW t \in Threads, TypeInv, FormInv, UNCHANGED <<nbr, cur, work, pending, rht>>,
         th[t].pc \notin RestPcs,
         Return(t) \/ \E l : Step(t, l) /\ Form(t, l)
  PROVE  FormInv'
<1>1. FormRest' /\ cur' = cur /\ th[t].pc # "idle"
  BY SameRest, OpFacts
<1>2. CASE Return(t)
  BY <1>1, <1>2, BackForm, StepForm DEF Return
<1>3. CASE \E l : Step(t, l) /\ Form(t, l)
  BY <1>1, <1>3, StepForm
<1> QED BY <1>2, <1>3

\* The steps of insert.
LEMMA InsertForm ==
  ASSUME NEW t \in Threads, Undisturbed, TypeInv, FormInv, InsertStep(t) PROVE FormInv'
<1> DEFINE l == th[t]
<1>0. l \in Local
  BY DEF TypeInv, ThreadsOK
<1>1. CASE Insert_Admit(t)
  <2>1. l.pc = "admit" /\ l.pc \notin RestPcs /\ UNCHANGED <<nbr, cur, work, pending, rht>>
    BY <1>1 DEF Insert_Admit, RestPcs, env
  <2>2. Return(t) \/ Step(t, [l EXCEPT !.pc = "hw"])
    BY <1>1 DEF Insert_Admit, Goto
  <2>3. Form(t, [l EXCEPT !.pc = "hw"])
    BY <1>0, <2>1, OpFacts DEF Local, Form, Site, RestPcs, InsertPcs, ReplacePcs, ReplayPcs, DestroyPcs, PubOps
  <2> QED BY <2>1, <2>2, <2>3, CallForm
<1>2. CASE Insert_HwOk(t)
  <2>1. PICK i \in HwIds : Step(t, [l EXCEPT !.pc = "gate", !.hw = TRUE, !.id = i])
    BY <1>2 DEF Insert_HwOk
  <2>2. l.pc = "hw" /\ l.pc \notin RestPcs /\ UNCHANGED <<nbr, cur, work, pending, rht>>
    BY <1>2 DEF Insert_HwOk, RestPcs, env
  <2>3. Form(t, [l EXCEPT !.pc = "gate", !.hw = TRUE, !.id = i])
    BY <1>0, <2>2, OpFacts DEF Local, Form, Site, RestPcs, InsertPcs, ReplacePcs, ReplayPcs, DestroyPcs
  <2> QED BY <2>1, <2>2, <2>3, CallForm
<1>3. CASE Insert_HwRefused(t)
  <2>1. l.pc = "hw" /\ l.pc \notin RestPcs /\ UNCHANGED <<nbr, cur, work, pending, rht>>
    BY <1>3 DEF Insert_HwRefused, RestPcs, env
  <2>2. Return(t)
    BY <1>3 DEF Insert_HwRefused, Goto
  <2> QED BY <2>1, <2>2, CallForm
<1>4. CASE Insert_Gate(t)
  <2>1. l.pc = "gate" /\ l.pc \notin RestPcs /\ UNCHANGED <<nbr, cur, work, pending, rht>>
    BY <1>4 DEF Insert_Gate, RestPcs, env
  <2>2. Return(t) \/ Step(t, [l EXCEPT !.pc = "publish"])
    BY <1>4 DEF Insert_Gate, Goto
  <2>3. Form(t, [l EXCEPT !.pc = "publish"])
    BY <1>0, <2>1, OpFacts DEF Local, Form, Site, RestPcs, InsertPcs, ReplacePcs, ReplayPcs, DestroyPcs, PubOps
  <2> QED BY <2>1, <2>2, <2>3, CallForm
<1>5. CASE Insert_Publish(t)
  <2>1. l.pc = "publish" /\ l.pc \notin RestPcs /\ UNCHANGED <<nbr, cur, work, pending>>
    BY <1>5 DEF Insert_Publish, RestPcs, env
  <2>2. CASE Return(t) /\ UNCHANGED rht
    BY <2>1, <2>2, CallForm
  <2>3. CASE /\ Step(t, [l EXCEPT !.pc = "count"])
             /\ rht' = [rht EXCEPT ![l.c] = [k |-> l.k, mac |-> l.mac, rt |-> l.rt,
                                             gen |-> l.gen, hw |-> l.hw, id |-> l.id]]
    <3>1. Form(t, [l EXCEPT !.pc = "count"]) /\ l.mac # 0 /\ l.hw
      BY <1>0, <2>1, OpFacts DEF Local, Form, Site, RestPcs, InsertPcs, ReplacePcs, ReplayPcs, DestroyPcs, PubOps
    <3>2. \A c \in Installed' : c = l.c \/ (c \in Installed /\ rht'[c] = rht[c])
      BY <2>3 DEF Installed, TypeInv, DataOK
    <3>3. \A c \in Installed' : rht'[c].mac # 0 /\ rht'[c].hw
      BY <2>3, <3>1, <3>2 DEF FormInv, Installed, TypeInv, DataOK
    <3>4. FormRest'
      BY <2>1, <3>3 DEF FormInv, FormRest
    <3> QED BY <2>1, <2>3, <3>1, <3>4, StepForm, OpFacts
  <2> QED BY <1>5, <2>2, <2>3 DEF Insert_Publish, Goto
<1>6. CASE Insert_Count(t)
  <2>1. l.pc = "count" /\ l.pc \notin RestPcs /\ UNCHANGED <<nbr, cur, work, pending, rht>>
    BY <1>6 DEF Insert_Count, RestPcs, env
  <2>2. Step(t, [l EXCEPT !.pc = IF l.op = "replace" THEN "check" ELSE "backed"])
    BY <1>6 DEF Insert_Count, Goto
  <2>3. Form(t, [l EXCEPT !.pc = IF l.op = "replace" THEN "check" ELSE "backed"])
    BY <1>0, <2>1, OpFacts DEF Local, Form, Site, RestPcs, InsertPcs, ReplacePcs, ReplayPcs, DestroyPcs, PubOps
  <2> QED BY <2>1, <2>2, <2>3, CallForm
<1> QED BY <1>1, <1>2, <1>3, <1>4, <1>5, <1>6 DEF InsertStep, Insert_HwFallback, Undisturbed

\* The steps of remove.
LEMMA RemoveForm ==
  ASSUME NEW t \in Threads, TypeInv, FormInv, RemoveStep(t) PROVE FormInv'
<1> DEFINE l == th[t]
<1>0. l \in Local
  BY DEF TypeInv, ThreadsOK
<1>1. l.pc \in {"unlink", "release"} /\ l.pc \notin RestPcs
  BY DEF RemoveStep, Remove_Unlink, Remove_Release, RestPcs
<1>2. l.op \in PubOps \cup {"destroy"}
  BY <1>1, OpFacts
<1>3. Form(t, NotRemoved(t)) /\ Form(t, Removed(t))
  <2>1. CASE l.op \in PubOps
    <3>1. NotRemoved(t) = Back(t) /\ Removed(t) = Back(t)
      BY <1>0, <2>1 DEF NotRemoved, Removed, PubOps, Local
    <3> QED BY <1>1, <3>1, BackForm
  <2>2. CASE l.op = "destroy"
    <3>1. NotRemoved(t) \in {[l EXCEPT !.pc = "forget"], Back(t)}
      BY <2>2 DEF NotRemoved
    <3>2. \E p \in {"forget", "fedel"} : Removed(t) = [l EXCEPT !.hw = FALSE, !.id = 0, !.pc = p]
      BY <1>0, <2>2 DEF Removed, Local
    <3>3. \A p \in {"forget", "fedel"} : Form(t, [l EXCEPT !.hw = FALSE, !.id = 0, !.pc = p])
      BY <1>0, <1>1, <2>2, OpFacts DEF Local, Form, Site, RestPcs, InsertPcs, ReplacePcs, ReplayPcs, DestroyPcs, PubOps
    <3>4. Form(t, [l EXCEPT !.pc = "forget"])
      BY <1>0, <1>1, <2>2, OpFacts DEF Local, Form, Site, RestPcs, InsertPcs, ReplacePcs, ReplayPcs, DestroyPcs, PubOps
    <3> QED BY <1>1, <3>1, <3>2, <3>3, <3>4, BackForm
  <2> QED BY <1>2, <2>1, <2>2
<1>4. CASE Remove_Unlink(t)
  <2> DEFINE m == [l EXCEPT !.pc = "release", !.hw = rht[l.c].hw, !.id = rht[l.c].id]
  <2>1. Form(t, m)
    BY <1>0, <1>1, OpFacts DEF Local, Form, Site, RestPcs, InsertPcs, ReplacePcs, ReplayPcs, DestroyPcs, PubOps
  <2>2. Step(t, NotRemoved(t)) \/ Step(t, m)
    BY <1>4 DEF Remove_Unlink
  <2>3. \A c \in Installed' : c \in Installed /\ rht'[c] = rht[c]
    BY <1>4 DEF Installed, TypeInv, DataOK, Remove_Unlink
  <2>4. FormRest' /\ cur' = cur
    BY <1>4, <2>3 DEF FormInv, FormRest, Remove_Unlink
  <2> QED BY <1>1, <1>3, <2>1, <2>2, <2>4, StepForm, OpFacts
<1>5. CASE Remove_Release(t)
  BY <1>1, <1>3, <1>5, CallForm DEF Remove_Release, env
<1> QED BY <1>4, <1>5 DEF RemoveStep

\* The steps on the FE record.
LEMMA FeForm ==
  ASSUME NEW t \in Threads, TypeInv, FormInv, FeStep(t) PROVE FormInv'
<1> DEFINE l == th[t]
<1>0. l \in Local
  BY DEF TypeInv, ThreadsOK
<1>1. CASE Fe_Sink(t)
  <2>1. l.pc = "sink" /\ l.pc \notin RestPcs /\ UNCHANGED <<nbr, cur, work, pending, rht>>
    BY <1>1 DEF Fe_Sink, RestPcs, env
  <2>2. Step(t, [l EXCEPT !.pc = "feadd", !.sink = hwTab[l.id]]) \/ Step(t, [l EXCEPT !.pc = "unlink", !.undo = TRUE])
    BY <1>1 DEF Fe_Sink, Goto
  <2>3. Form(t, [l EXCEPT !.pc = "feadd", !.sink = hwTab[l.id]]) /\ Form(t, [l EXCEPT !.pc = "unlink", !.undo = TRUE])
    BY <1>0, <2>1, OpFacts DEF Local, Form, Site, RestPcs, InsertPcs, ReplacePcs, ReplayPcs, DestroyPcs, PubOps
  <2> QED BY <2>1, <2>2, <2>3, CallForm
<1>2. CASE Fe_Add(t)
  <2>1. l.pc = "feadd" /\ l.pc \notin RestPcs /\ UNCHANGED <<nbr, cur, work, pending, rht>>
    BY <1>2 DEF Fe_Add, RestPcs, env
  <2>2. Step(t, [l EXCEPT !.pc = "fecheck"])
    BY <1>2 DEF Fe_Add, Goto
  <2>3. Form(t, [l EXCEPT !.pc = "fecheck"])
    BY <1>0, <2>1, OpFacts DEF Local, Form, Site, RestPcs, InsertPcs, ReplacePcs, ReplayPcs, DestroyPcs, PubOps
  <2> QED BY <2>1, <2>2, <2>3, CallForm
<1>3. CASE Fe_AddFails(t)
  <2>1. l.pc = "feadd" /\ l.pc \notin RestPcs /\ UNCHANGED <<nbr, cur, work, pending, rht>>
    BY <1>3 DEF Fe_AddFails, RestPcs, env
  <2>2. Step(t, [l EXCEPT !.pc = "unlink", !.undo = TRUE])
    BY <1>3 DEF Fe_AddFails, Goto
  <2>3. Form(t, [l EXCEPT !.pc = "unlink", !.undo = TRUE])
    BY <1>0, <2>1, OpFacts DEF Local, Form, Site, RestPcs, InsertPcs, ReplacePcs, ReplayPcs, DestroyPcs, PubOps
  <2> QED BY <2>1, <2>2, <2>3, CallForm
<1>4. CASE Fe_Check(t)
  <2>1. l.pc = "fecheck" /\ l.pc \notin RestPcs /\ UNCHANGED <<nbr, cur, work, pending, rht>>
    BY <1>4 DEF Fe_Check, RestPcs, env
  <2>2. Return(t) \/ Step(t, [l EXCEPT !.pc = "feundo"])
    BY <1>4 DEF Fe_Check, Goto
  <2>3. Form(t, [l EXCEPT !.pc = "feundo"])
    BY <1>0, <2>1, OpFacts DEF Local, Form, Site, RestPcs, InsertPcs, ReplacePcs, ReplayPcs, DestroyPcs, PubOps
  <2> QED BY <2>1, <2>2, <2>3, CallForm
<1>5. CASE Fe_Undo(t)
  <2>1. l.pc = "feundo" /\ l.pc \notin RestPcs /\ UNCHANGED <<nbr, cur, work, pending, rht>>
    BY <1>5 DEF Fe_Undo, RestPcs, env
  <2>2. Step(t, [l EXCEPT !.pc = "unlink", !.undo = TRUE])
    BY <1>5 DEF Fe_Undo, Goto
  <2>3. Form(t, [l EXCEPT !.pc = "unlink", !.undo = TRUE])
    BY <1>0, <2>1, OpFacts DEF Local, Form, Site, RestPcs, InsertPcs, ReplacePcs, ReplayPcs, DestroyPcs, PubOps
  <2> QED BY <2>1, <2>2, <2>3, CallForm
<1>6. CASE Fe_Delete(t)
  <2>1. l.pc = "fedel" /\ l.pc \notin RestPcs /\ UNCHANGED <<nbr, cur, work, pending, rht>>
    BY <1>6 DEF Fe_Delete, RestPcs, env
  <2>2. Step(t, [l EXCEPT !.pc = "forget"])
    BY <1>6, <2>1, OpFacts DEF Site, InsertPcs, ReplacePcs, ReplayPcs, PubOps, Fe_Delete, Goto
  <2>3. Form(t, [l EXCEPT !.pc = "forget"])
    BY <1>0, <2>1, OpFacts DEF Local, Form, Site, RestPcs, InsertPcs, ReplacePcs, ReplayPcs, DestroyPcs, PubOps
  <2> QED BY <2>1, <2>2, <2>3, CallForm
<1> QED BY <1>1, <1>2, <1>3, <1>4, <1>5, <1>6 DEF FeStep

\* A thread that starts a call, or takes the next entry of its list.
LEMMA StartForm ==
  ASSUME NEW t \in Threads, NEW l, TypeInv, FormInv, Step(t, l), Form(t, l),
         t # "neigh" \/ th[t].pc # "idle", UNCHANGED <<nbr, cur, work, pending, rht>>
  PROVE  FormInv'
BY SameRest, StepForm

\* What the registry hands out is a stamp.
LEMMA ClaimStamp ==
  ASSUME NEW c \in Cookies, TypeInv, registry' = GenNext(registry, c),
         registry[c].gen < MaxGen
  PROVE  /\ registry'[c] = [gen |-> registry[c].gen + 1, st |-> "live"]
         /\ registry[c].gen \in Nat /\ GenCurrent(registry', c) = registry[c].gen + 1
         /\ \A d \in Cookies : d # c => registry'[d] = registry[d]
<1>1. registry[c].gen \in Nat /\ registry \in [Cookies -> GenEntry]
  BY FlowAssumption DEF TypeInv, DataOK, Gens
<1>2. NextGen(registry[c]) = registry[c].gen + 1
  BY <1>1, FlowAssumption, GenLimitAssumption DEF NextGen
<1> QED BY <1>1, <1>2 DEF GenNext, GenCurrent

\* What parking may add.
LEMMA EnqueueAdds ==
  ASSUME NEW i, Enqueue(i) PROVE pending' \subseteq pending \cup {i}
BY DEF Enqueue, Enqueued

\* The steps of REPLACE.
LEMMA ReplaceForm ==
  ASSUME NEW t \in Nft, TypeInv, FormInv,
         ReplaceStep(t) \/ \E c \in Cookies : Replace_Dedup(t, c)
  PROVE  FormInv'
<1> DEFINE l == th[t]
<1>0. l \in Local
  BY DEF TypeInv, ThreadsOK, Threads
<1>t. t \in Threads /\ t # "neigh"
  BY FlowAssumption DEF Threads, AllWorkers
<1>1. ASSUME NEW c \in Cookies, Replace_Dedup(t, c) PROVE FormInv'
  <2> DEFINE m == [Idle EXCEPT !.pc = "claim", !.op = "replace", !.c = c, !.k = conn[c],
                               !.rt = route]
  <2>1. Form(t, m)
    BY DEF Idle, Form, Site, RestPcs, InsertPcs, ReplacePcs, PubOps
  <2>2. Step(t, m) /\ UNCHANGED <<nbr, cur, work, pending, rht>>
    BY <1>1 DEF Replace_Dedup, env
  <2> QED BY <1>t, <2>1, <2>2, StartForm
<1>2. CASE Replace_Claim(t)
  <2> DEFINE m == [l EXCEPT !.pc = "resolve", !.gen = GenCurrent(registry', l.c)]
  <2>1. l.pc = "claim" /\ l.pc \notin RestPcs /\ UNCHANGED <<nbr, cur, work, pending, rht>>
    BY <1>2 DEF Replace_Claim, RestPcs, env
  <2>2. l.c \in Cookies
    BY <1>t, <2>1, KeyFacts DEF KeyPcs
  <2>a. registry[l.c].gen < MaxGen /\ registry' = GenNext(registry, l.c)
    BY <1>2 DEF Replace_Claim
  <2>b. registry[l.c].gen \in Nat /\ GenCurrent(registry', l.c) = registry[l.c].gen + 1
    BY <2>2, <2>a, ClaimStamp
  <2>3. GenCurrent(registry', l.c) # 0
    BY <2>b
  <2>4. Form(t, m)
    BY <1>0, <1>t, <2>1, <2>3, OpFacts DEF Local, Form, Site, RestPcs, InsertPcs, ReplacePcs, ReplayPcs, DestroyPcs, PubOps
  <2>5. Step(t, m)
    BY <1>2 DEF Replace_Claim
  <2> QED BY <1>t, <2>1, <2>4, <2>5, CallForm
<1>3. CASE Replace_ClaimFails(t)
  <2>1. l.pc = "claim" /\ l.pc \notin RestPcs /\ UNCHANGED <<nbr, cur, work, pending, rht>>
    BY <1>3 DEF Replace_ClaimFails, RestPcs, env
  <2>2. Return(t)
    BY <1>3 DEF Replace_ClaimFails, Goto
  <2> QED BY <1>t, <2>1, <2>2, CallForm
<1>4. CASE Replace_Resolve(t)
  <2>1. l.pc = "resolve" /\ l.pc \notin RestPcs /\ UNCHANGED <<nbr, cur, work, pending, rht>>
    BY <1>4 DEF Replace_Resolve, RestPcs, env
  <2>2. (nbr.mac # 0 /\ Step(t, [l EXCEPT !.pc = "admit", !.mac = nbr.mac]))
        \/ Step(t, [l EXCEPT !.pc = "park"])
    BY <1>4 DEF Replace_Resolve, Goto, FormInv
  <2>3. /\ Form(t, [l EXCEPT !.pc = "park"])
        /\ nbr.mac # 0 => Form(t, [l EXCEPT !.pc = "admit", !.mac = nbr.mac])
    BY <1>0, <1>t, <2>1, OpFacts DEF Local, Form, Site, RestPcs, InsertPcs, ReplacePcs, ReplayPcs, DestroyPcs, PubOps
  <2> QED BY <1>t, <2>1, <2>2, <2>3, CallForm
<1>5. CASE Replace_Refused(t)
  <2>1. l.pc = "resolve" /\ l.pc \notin RestPcs /\ UNCHANGED <<nbr, cur, work, pending, rht>>
    BY <1>5 DEF Replace_Refused, RestPcs, env
  <2>2. Return(t)
    BY <1>5 DEF Replace_Refused, Goto
  <2> QED BY <1>t, <2>1, <2>2, CallForm
<1>6. CASE Replace_Park(t)
  <2>1. l.pc = "park" /\ l.pc \notin RestPcs /\ UNCHANGED <<nbr, cur, work, rht>> /\ Return(t)
    BY <1>6 DEF Replace_Park, RestPcs, env
  <2>2. l.gen # 0
    BY <1>0, <1>t, <2>1, OpFacts, KeyFacts, FlowAssumption
    DEF KeyPcs, Form, Site, InsertPcs, DestroyPcs, ReplayPcs, PubOps
  <2>3. pending' \subseteq pending \cup {ItemOf(l)} /\ ItemOf(l).gen # 0
    BY <1>6, <2>2, EnqueueAdds DEF Replace_Park, ItemOf
  <2>4. FormRest'
    BY <2>1, <2>3 DEF FormInv, FormRest, Installed
  <2> QED BY <1>t, <2>1, <2>4, BackForm, StepForm DEF Return
<1>7. CASE Replace_Check(t)
  <2>1. l.pc = "check" /\ l.pc \notin RestPcs /\ UNCHANGED <<nbr, cur, work, pending, rht>>
    BY <1>7 DEF Replace_Check, RestPcs, env
  <2>2. Step(t, [l EXCEPT !.pc = "sink"]) \/ Step(t, [l EXCEPT !.pc = "unlink", !.undo = TRUE])
    BY <1>7 DEF Replace_Check, Goto
  <2>3. Form(t, [l EXCEPT !.pc = "sink"]) /\ Form(t, [l EXCEPT !.pc = "unlink", !.undo = TRUE])
    BY <1>0, <1>t, <2>1, OpFacts DEF Local, Form, Site, RestPcs, InsertPcs, ReplacePcs, ReplayPcs, DestroyPcs, PubOps
  <2> QED BY <1>t, <2>1, <2>2, <2>3, CallForm
<1> QED BY <1>1, <1>2, <1>3, <1>4, <1>5, <1>6, <1>7 DEF ReplaceStep

\* The steps of DESTROY.
LEMMA DestroyForm ==
  ASSUME NEW t \in Nft, TypeInv, FormInv,
         DestroyStep(t) \/ \E c \in Cookies : Destroy_Snapshot(t, c)
  PROVE  FormInv'
<1> DEFINE l == th[t]
<1>0. l \in Local
  BY DEF TypeInv, ThreadsOK, Threads
<1>t. t \in Threads /\ t # "neigh"
  BY FlowAssumption DEF Threads, AllWorkers
<1>1. ASSUME NEW c \in Cookies, Destroy_Snapshot(t, c) PROVE FormInv'
  <2> DEFINE m == [Idle EXCEPT !.pc = "tomb", !.op = "destroy", !.c = c,
                               !.gen = GenCurrent(registry, c)]
  <2>1. Form(t, m)
    BY DEF Idle, Form, Site, RestPcs, DestroyPcs, PubOps
  <2>2. Step(t, m) /\ UNCHANGED <<nbr, cur, work, pending, rht>>
    BY <1>1 DEF Destroy_Snapshot, env
  <2> QED BY <1>t, <2>1, <2>2, StartForm
<1>2. CASE Destroy_Tombstone(t)
  <2>1. l.pc = "tomb" /\ l.pc \notin RestPcs /\ UNCHANGED <<nbr, cur, work, pending, rht>>
    BY <1>2 DEF Destroy_Tombstone, RestPcs, env
  <2>2. Step(t, [l EXCEPT !.pc = "drop"])
    BY <1>2 DEF Destroy_Tombstone, Goto
  <2>3. Form(t, [l EXCEPT !.pc = "drop"])
    BY <1>0, <1>t, <2>1, OpFacts DEF Local, Form, Site, RestPcs, InsertPcs, ReplacePcs, ReplayPcs, DestroyPcs, PubOps
  <2> QED BY <1>t, <2>1, <2>2, <2>3, CallForm
<1>3. CASE Destroy_DropPending(t)
  <2>1. l.pc = "drop" /\ l.pc \notin RestPcs /\ UNCHANGED <<nbr, cur, work, rht>>
    BY <1>3 DEF Destroy_DropPending, RestPcs, env
  <2>2. Step(t, [l EXCEPT !.pc = "lookup"]) /\ pending' \subseteq pending
    BY <1>3 DEF Destroy_DropPending, Goto
  <2>3. Form(t, [l EXCEPT !.pc = "lookup"])
    BY <1>0, <1>t, <2>1, OpFacts DEF Local, Form, Site, RestPcs, InsertPcs, ReplacePcs, ReplayPcs, DestroyPcs, PubOps
  <2>4. FormRest'
    BY <2>1, <2>2 DEF FormInv, FormRest, Installed
  <2> QED BY <1>t, <2>1, <2>2, <2>3, <2>4, StepForm
<1>4. CASE Destroy_Lookup(t)
  <2>1. l.pc = "lookup" /\ l.pc \notin RestPcs /\ UNCHANGED <<nbr, cur, work, pending, rht>>
    BY <1>4 DEF Destroy_Lookup, RestPcs, env
  <2>2. Step(t, [l EXCEPT !.pc = "unlink", !.old = IF rht[l.c] = None THEN None ELSE rht[l.c].k])
    BY <1>4 DEF Destroy_Lookup, Goto
  <2>3. Form(t, [l EXCEPT !.pc = "unlink", !.old = IF rht[l.c] = None THEN None ELSE rht[l.c].k])
    BY <1>0, <1>t, <2>1, OpFacts DEF Local, Form, Site, RestPcs, InsertPcs, ReplacePcs, ReplayPcs, DestroyPcs, PubOps
  <2> QED BY <1>t, <2>1, <2>2, <2>3, CallForm
<1>5. CASE Destroy_Forget(t)
  <2>1. l.pc = "forget" /\ l.pc \notin RestPcs /\ UNCHANGED <<nbr, cur, work, pending, rht>>
    BY <1>5 DEF Destroy_Forget, RestPcs
  <2>2. Return(t)
    BY <1>5 DEF Destroy_Forget, Goto
  <2> QED BY <1>t, <2>1, <2>2, CallForm
<1> QED BY <1>1, <1>2, <1>3, <1>4, <1>5 DEF DestroyStep

\* The steps of the workers.  The rebuild finds nothing: the one address a flow
\* can have is the one the event brings.
LEMMA WorkerForm ==
  ASSUME NEW t \in Workers, Undisturbed, TypeInv, FormInv, WorkerStep(t) PROVE FormInv'
<1> DEFINE l == th[t]
<1>0. l \in Local
  BY DEF TypeInv, ThreadsOK, Threads
<1>t. t \in Threads /\ Form(t, l) /\ t # "flush"
  BY DEF Threads, FormInv, Undisturbed
<1>1. CASE Republish_Backed(t)
  <2>1. l.pc = "backed" /\ l.pc \notin RestPcs /\ UNCHANGED <<nbr, cur, work, pending, rht>>
    BY <1>1 DEF Republish_Backed, RestPcs, env
  <2>2. Return(t) \/ Step(t, [l EXCEPT !.pc = "sink"])
    BY <1>1 DEF Republish_Backed, Goto
  <2>3. Form(t, [l EXCEPT !.pc = "sink"])
    BY <1>0, <1>t, <2>1, OpFacts DEF Local, Form, Site, RestPcs, InsertPcs, ReplacePcs, ReplayPcs, DestroyPcs, PubOps
  <2> QED BY <1>t, <2>1, <2>2, <2>3, CallForm
<1>2. CASE Poll_Scan(t)
  <2> DEFINE m == [Idle EXCEPT !.pc = "next", !.op = "poll"]
  <2>1. Form(t, m) /\ t = "poll"
    BY <1>2 DEF Poll_Scan, Idle, Form, Site, RestPcs, PubOps
  <2>2. Step(t, m) /\ UNCHANGED <<nbr, cur, rht>> /\ pending' = {} /\ nbr.valid
    BY <1>2 DEF Poll_Scan, env
  <2>3. work' = [work EXCEPT ![t] = {[q EXCEPT !.mac = nbr.mac] : q \in pending}]
    BY <1>2 DEF Poll_Scan
  <2>4. \A q \in pending : [q EXCEPT !.mac = nbr.mac].gen = q.gen /\ [q EXCEPT !.mac = nbr.mac].mac = nbr.mac
    BY DEF TypeInv, DataOK, Item
  <2>5. \A i \in work'[t] : i.gen # 0 /\ i.mac # 0
    <3>1. work'[t] = {[q EXCEPT !.mac = nbr.mac] : q \in pending}
      BY <2>3 DEF TypeInv, DataOK
    <3>2. nbr.mac # 0 /\ \A q \in pending : q.gen # 0
      BY <2>2 DEF FormInv
    <3> QED BY <2>4, <3>1, <3>2
  <2>6. \A u \in Workers : u # t => work'[u] = work[u]
    BY <2>3 DEF TypeInv, DataOK
  <2>7. \A u \in Workers : \A i \in work'[u] : u = "poll" /\ i.gen # 0 /\ i.mac # 0
    BY <2>1, <2>5, <2>6 DEF FormInv
  <2>8. FormRest'
    BY <2>2, <2>7 DEF FormInv, FormRest, Installed
  <2> QED BY <1>t, <2>1, <2>2, <2>8, StepForm
<1>3. ASSUME NEW i \in work[t], Poll_Next(t, i) PROVE FormInv'
  <2> DEFINE m == Load("admit", "poll", i)
  <2>1. t = "poll" /\ i \in Item /\ i.gen # 0 /\ i.mac # 0
    BY DEF FormInv, TypeInv, DataOK
  <2>2. Form(t, m)
    BY <2>1 DEF Load, Idle, Form, Site, RestPcs, InsertPcs, ReplayPcs, PubOps
  <2>3. /\ Step(t, m) \/ th' = th
        /\ UNCHANGED <<nbr, cur, pending, rht>>
        /\ \A u \in Workers : work'[u] \subseteq work[u]
    BY <1>3 DEF Poll_Next, env, TypeInv, DataOK
  <2>4. FormRest'
    BY <2>3 DEF FormInv, FormRest, Installed
  <2>5. CASE th' = th
    BY <2>3, <2>4, <2>5 DEF FormInv, FormRest
  <2> QED BY <1>t, <2>1, <2>2, <2>3, <2>4, <2>5, StepForm
<1>4. CASE Neigh_Event(t)
  <2> DEFINE m == [Idle EXCEPT !.pc = "take", !.op = "drain"]
  <2>1. t = "neigh" /\ Step(t, m) /\ UNCHANGED <<nbr, work, pending, rht>> /\ cur' # 0
    BY <1>4 DEF Neigh_Event
  <2>2. Form(t, m)
    BY <2>1 DEF Idle, Form, Site, RestPcs, PubOps
  <2>3. \A u \in Threads : Form(u, th'[u])
    BY <2>1, <2>2 DEF Step, FormInv, TypeInv, ThreadsOK
  <2>4. FormRest'
    BY <2>1, SameRest
  <2> QED BY <2>1, <2>3, <2>4 DEF FormInv, FormRest
<1>5. ASSUME NEW q \in pending, Drain_Take(t, q) PROVE FormInv'
  <2> DEFINE m == Load("reresolve", "drain", q)
  <2>1. l.pc = "take" /\ t = "neigh"
    BY <1>t, <1>5 DEF Drain_Take, Form, Site, InsertPcs, ReplacePcs, ReplayPcs, DestroyPcs
  <2>2. q \in Item /\ q.gen # 0
    BY DEF FormInv, TypeInv, DataOK
  <2>3. Form(t, m)
    BY <2>1, <2>2 DEF Load, Idle, Form, Site, RestPcs, InsertPcs, ReplayPcs, PubOps
  <2>4. Step(t, m) /\ UNCHANGED <<nbr, cur, work, rht>> /\ pending' \subseteq pending
    BY <1>5 DEF Drain_Take, env
  <2>5. FormRest'
    BY <2>4 DEF FormInv, FormRest, Installed
  <2> QED BY <1>t, <2>1, <2>3, <2>4, <2>5, StepForm
<1>6. CASE Drain_Resolve(t)
  <2>1. l.pc = "reresolve" /\ l.pc \notin RestPcs /\ UNCHANGED <<nbr, cur, work, rht>>
    BY <1>6 DEF Drain_Resolve, RestPcs, env
  <2>2. l.op = "drain" /\ l.c \in Cookies
    BY <1>t, <2>1, KeyFacts DEF Form, Site, InsertPcs, ReplacePcs, ReplayPcs, DestroyPcs, KeyPcs
  <2>3. l.gen # 0
    BY <1>0, <1>t, <2>1, <2>2, FlowAssumption DEF Form, PubOps
  <2>4. CASE Enqueue(ItemOf([l EXCEPT !.mac = 0])) /\ Return(t)
    <3>1. ItemOf([l EXCEPT !.mac = 0]).gen # 0
      BY <1>0, <2>3 DEF ItemOf, Local
    <3>2. pending' \subseteq pending \cup {ItemOf([l EXCEPT !.mac = 0])}
      BY <2>4, EnqueueAdds
    <3>3. FormRest'
      BY <2>1, <3>1, <3>2 DEF FormInv, FormRest, Installed
    <3> QED BY <1>t, <2>1, <2>4, <3>3, BackForm, StepForm DEF Return
  <2>5. CASE Return(t) /\ UNCHANGED pending
    BY <1>t, <2>1, <2>5, CallForm
  <2>6. CASE nbr.valid /\ Step(t, [l EXCEPT !.pc = "admit", !.mac = nbr.mac]) /\ UNCHANGED pending
    <3>1. nbr.mac # 0
      BY <2>6 DEF FormInv
    <3>2. Form(t, [l EXCEPT !.pc = "admit", !.mac = nbr.mac])
      BY <1>0, <1>t, <2>1, <2>2, <3>1 DEF Local, Form, Site, RestPcs, InsertPcs, ReplacePcs, ReplayPcs, DestroyPcs, PubOps
    <3> QED BY <1>t, <2>1, <2>6, <3>2, CallForm
  <2> QED BY <1>6, <2>4, <2>5, <2>6 DEF Drain_Resolve
<1>7. CASE Drain_Done(t)
  <2> DEFINE m == [Idle EXCEPT !.pc = "collect", !.op = "rebuild"]
  <2>1. l.pc = "take" /\ t = "neigh"
    BY <1>t, <1>7 DEF Drain_Done, Form, Site, InsertPcs, ReplacePcs, ReplayPcs, DestroyPcs
  <2>2. Form(t, m)
    BY <2>1 DEF Idle, Form, Site, RestPcs, PubOps
  <2>3. Step(t, m) /\ UNCHANGED <<nbr, cur, work, pending, rht>>
    BY <1>7 DEF Drain_Done, env
  <2> QED BY <1>t, <2>1, <2>2, <2>3, StartForm
<1>8. CASE Rebuild_Collect(t)
  <2>1. l.pc = "collect" /\ t = "neigh" /\ l.op = "rebuild"
    BY <1>t, <1>8 DEF Rebuild_Collect, Form, Site, InsertPcs, ReplacePcs, ReplayPcs, DestroyPcs
  <2>2. cur # 0 /\ cur \in Macs
    BY <2>1 DEF FormInv, TypeInv, DataOK
  <2>3. \A d \in Installed : rht[d].mac = cur
    <3>1. \A d \in Installed : rht[d].mac # 0 /\ rht[d].mac \in Macs
      BY DEF FormInv, TypeInv, DataOK, Flow, Installed
    <3> QED BY <2>2, <3>1, FlowAssumption DEF Macs, Undisturbed
  <2>4. {d \in Installed : rht[d].hw /\ rht[d].mac # cur} = {}
    BY <2>3
  <2>5. PICK S \in Collected({}) :
          work' = [work EXCEPT ![t] = {[FlowItem(c) EXCEPT !.mac = cur] : c \in S}]
    BY <1>8, <2>4 DEF Rebuild_Collect
  <2>6. S = {}
    BY <2>5 DEF Collected
  <2>7. work' = [work EXCEPT ![t] = {}]
    BY <2>5, <2>6
  <2>8. Form(t, [l EXCEPT !.pc = "next"])
    BY <1>0, <1>t, <2>1 DEF Local, Form, Site, RestPcs, InsertPcs, ReplacePcs, ReplayPcs, DestroyPcs, PubOps
  <2>9. Step(t, [l EXCEPT !.pc = "next"]) /\ UNCHANGED <<nbr, cur, pending, rht>>
    BY <1>8 DEF Rebuild_Collect, Goto, env
  <2>10. FormRest'
    BY <2>7, <2>9 DEF FormInv, FormRest, Installed, TypeInv, DataOK
  <2> QED BY <1>t, <2>1, <2>8, <2>9, <2>10, StepForm
<1>9. ASSUME NEW i \in work[t], Rebuild_Next(t, i) \/ Flush_Next(t, i) PROVE FormInv'
  <2>1. t = "poll"
    BY DEF FormInv
  <2> QED BY <1>t, <1>9, <2>1 DEF Rebuild_Next, Flush_Next, Form, Site
<1>10. CASE Rebuild_Recheck(t)
  BY <1>t, <1>10 DEF Rebuild_Recheck, Form, Site, InsertPcs, ReplacePcs, ReplayPcs, DestroyPcs
<1>11. CASE Worker_Done(t)
  <2>1. Step(t, Idle) /\ UNCHANGED <<nbr, work, pending, rht>> /\ (t # "neigh" => cur' = cur)
    BY <1>11 DEF Worker_Done, env
  <2>2. \A u \in Threads : th'[u] = IF u = t THEN Idle ELSE th[u]
    BY <2>1 DEF Step, TypeInv, ThreadsOK
  <2>3. \A u \in Threads : Form(u, th'[u])
    BY <2>2, IdleForm DEF FormInv
  <2>4. FormRest'
    BY <2>1, SameRest
  <2>5. "neigh" \in Workers /\ th'["neigh"].pc # "idle" => cur' # 0
    BY <2>1, <2>2 DEF FormInv, Idle, Threads
  <2> QED BY <2>3, <2>4, <2>5 DEF FormInv, FormRest
<1>12. CASE Flush_Collect(t)
  BY <1>t, <1>12 DEF Flush_Collect
<1> QED BY <1>1, <1>2, <1>3, <1>4, <1>5, <1>6, <1>7, <1>8, <1>9, <1>10, <1>11, <1>12
        DEF WorkerStep

\* The network: a neighbour that is confirmed has an address.
LEMMA EnvironmentForm ==
  ASSUME TypeInv, FormInv, Environment PROVE FormInv'
<1>1. UNCHANGED <<work, pending, rht, th, cur>>
  BY DEF Environment, NewConn, Teardown, NeighUpdate, NeighLost, RouteChange
<1>2. nbr' = nbr \/ nbr'.mac # 0 \/ ~nbr'.valid
  BY FlowAssumption DEF Environment, NewConn, Teardown, NeighUpdate, NeighLost, RouteChange, TypeInv, DataOK
<1> QED BY <1>1, <1>2 DEF FormInv, Installed

LEMMA FormStep ==
  ASSUME Undisturbed, TypeInv, FormInv, [Next]_vars PROVE FormInv'
<1>1. CASE UNCHANGED vars
  BY <1>1 DEF vars, FormInv, Installed
<1>2. CASE Environment
  BY <1>2, EnvironmentForm
<1>3. ASSUME NEW t \in Threads, CallStep(t) PROVE FormInv'
  BY <1>3, InsertForm, RemoveForm, FeForm DEF CallStep
<1>4. ASSUME NEW t \in Nft, NftStep(t) PROVE FormInv'
  BY <1>4, ReplaceForm, DestroyForm DEF NftStep
<1>5. ASSUME NEW t \in Workers, WorkerStep(t) PROVE FormInv'
  BY <1>5, WorkerForm
<1> QED BY <1>1, <1>2, <1>3, <1>4, <1>5 DEF Next

LEMMA InitForm == Init => FormInv
<1> SUFFICES ASSUME Init PROVE FormInv
  OBVIOUS
<1>1. \A t \in Threads : th[t] = Idle /\ Form(t, th[t])
  BY IdleForm DEF Init
<1>2. Installed = {}
  BY DEF Init, Installed
<1>3. \A t \in Workers : work[t] = {} /\ th[t].pc = "idle"
  BY <1>1 DEF Init, Threads, Idle
<1> QED BY <1>1, <1>2, <1>3 DEF Init, FormInv

-----------------------------------------------------------------------------
(* Steps that leave a part of LifeInv alone.                               *)

Others(t) == \A u \in Threads : u # t => th'[u] = th[u]

\* No stamp comes into being.
NoNewStamps ==
  \A c \in Cookies, k \in Tuples, g \in Gens : Stamped(c, k, g)' => Stamped(c, k, g)

\* No stamp brings a tuple to a cookie that does not carry it.
NoNewKeys ==
  \A c \in Cookies, k \in Tuples, g \in Gens : Stamped(c, k, g)' => Carries(c, k)

LEMMA CallbackFrame ==
  ASSUME CallbackInv, UNCHANGED <<conn, dying>>,
         \A u \in Threads, c \in Cookies : Destroyer(u, c)' => Destroyer(u, c),
         \A u \in Threads : th'[u].pc = "claim" => th'[u] = th[u]
  PROVE  CallbackInv'
BY DEF CallbackInv

LEMMA StampFrame ==
  ASSUME StampInv, UNCHANGED <<conn, registry>>, NoNewStamps,
         \A u \in Threads, c \in Cookies : Destroyer(u, c)' =>
           /\ Destroyer(u, c) /\ th'[u].gen = th[u].gen
           /\ th'[u].pc # "tomb" => th[u].pc # "tomb"
  PROVE  StampInv'
BY DEF StampInv, NoNewStamps

\* No tuple comes to a cookie that does not carry it.
LEMMA CarriesFrame ==
  ASSUME TypeInv', FormInv', NoNewKeys,
         \A c \in Cookies : conn'[c] = conn[c] \/ conn'[c] = None,
         \A u \in Threads, c \in Cookies, k \in Tuples :
           Destroyer(u, c)' /\ th'[u].old = k => Carries(c, k)
  PROVE  \A c \in Cookies, k \in Tuples : Carries(c, k)' => Carries(c, k)
<1> SUFFICES ASSUME NEW c \in Cookies, NEW k \in Tuples, Carries(c, k)' PROVE Carries(c, k)
  OBVIOUS
<1>0. None \notin Tuples /\ None \notin Cookies
  BY FlowAssumption
<1>1. \A g \in Gens : Stamped(c, k, g)' => Carries(c, k)
  BY DEF NoNewKeys
<1>2. CASE conn'[c] = k
  BY <1>0, <1>2 DEF Carries
<1>3. CASE rht'[c] # None /\ rht'[c].k = k
  <2>1. rht'[c].gen \in Gens
    BY <1>3 DEF TypeInv, DataOK, Flow
  <2> QED BY <1>1, <1>3, <2>1 DEF Stamped
<1>4. ASSUME NEW t \in Threads, th'[t].c = c, k \in {th'[t].k, th'[t].old} PROVE Carries(c, k)
  <2>1. th'[t] \in Local /\ Form(t, th'[t])
    BY DEF TypeInv, ThreadsOK, FormInv
  <2>2. th'[t].op \in PubOps \cup {"destroy"}
    BY <1>0, <1>4, <2>1 DEF Form, Site, RestPcs, PubOps
  <2>3. CASE th'[t].op \in PubOps
    <3>1. th'[t].k = k /\ th'[t].gen \in Gens
      BY <1>0, <1>4, <2>1, <2>3 DEF Form, Local
    <3> QED BY <1>1, <1>4, <2>3, <3>1 DEF Stamped
  <2>4. CASE th'[t].op = "destroy"
    BY <1>0, <1>4, <2>1, <2>4 DEF Form, Destroyer
  <2> QED BY <2>2, <2>3, <2>4
<1>5. ASSUME NEW t \in Workers, NEW i \in work'[t], i.c = c, i.k = k PROVE Carries(c, k)
  <2>1. i.gen \in Gens
    BY DEF TypeInv, DataOK, Item
  <2> QED BY <1>1, <1>5, <2>1 DEF Stamped
<1>6. ASSUME NEW q \in pending', q.c = c, q.k = k PROVE Carries(c, k)
  <2>1. q.gen \in Gens
    BY DEF TypeInv, DataOK, Item
  <2> QED BY <1>1, <1>6, <2>1 DEF Stamped
<1> QED BY <1>2, <1>3, <1>4, <1>5, <1>6 DEF Carries

LEMMA StampsKeys ==
  ASSUME NoNewStamps PROVE NoNewKeys
BY DEF NoNewStamps, NoNewKeys, Stamped, Carries

LEMMA KeyFrame ==
  ASSUME KeyInv, TypeInv', FormInv', NoNewKeys,
         \A c \in Cookies : conn'[c] = conn[c] \/ conn'[c] = None,
         \A u \in Threads, c \in Cookies, k \in Tuples :
           Destroyer(u, c)' /\ th'[u].old = k => Carries(c, k)
  PROVE  KeyInv'
<1>1. \A c \in Cookies, k \in Tuples : Carries(c, k)' => Carries(c, k)
  BY CarriesFrame
<1> QED BY <1>1 DEF KeyInv

\* Everybody is as responsible for cookie c as before.
SameDuty(c) ==
  \A u \in Threads :
    /\ Post(u, c)' <=> Post(u, c)
    /\ Wrote(u, c)' <=> Wrote(u, c)
    /\ Cutting(u, c)' <=> Cutting(u, c)
    /\ Cut(u, c)' <=> Cut(u, c)
    /\ Post(u, c) => /\ th'[u].k = th[u].k /\ th'[u].gen = th[u].gen
                     /\ th'[u].id = th[u].id /\ th'[u].mac = th[u].mac
                     /\ th'[u].pc = "feadd" /\ ~Over(c) => th'[u].sink = conn[c]
    /\ Cutting(u, c) \/ Cut(u, c) => th'[u].pc = th[u].pc /\ th'[u].old = th[u].old

LEMMA OwnFrame ==
  ASSUME NEW c \in Cookies, OwnInv, SameDuty(c), conn'[c] = conn[c], rht'[c] = rht[c],
         \A k \in Tuples : Mine(c, k)' => Mine(c, k),
         ~Over(c) /\ Exact(c, conn[c]) => Exact(c, conn[c])'
  PROVE  OwnAt(c)'
<1>1. Over(c)' <=> Over(c)
  BY DEF Over, SameDuty
<1>2. CASE Over(c)
  <2>1. After(c)
    BY <1>2 DEF OwnInv, OwnAt
  <2>2. After(c)'
    BY <2>1 DEF After, SameDuty, Wrote, Post, Late
  <2> QED BY <1>1, <1>2, <2>2 DEF OwnAt
<1>3. CASE ~Over(c)
  <2>1. Before(c)
    BY <1>3 DEF OwnInv, OwnAt
  <2>2. Before(c)'
    BY <1>3, <2>1 DEF Before, SameDuty
  <2> QED BY <1>1, <1>3, <2>2 DEF OwnAt
<1> QED BY <1>2, <1>3

\* A call works for its own cookie: nothing changes for the others.
LEMMA OwnElsewhere ==
  ASSUME NEW t \in Threads, NEW c, NEW d \in Cookies, d # c, KeyInv, OwnInv, TypeInv, Others(t),
         th[t].c \in {c, None}, th'[t].c \in {c, None},
         conn'[d] = conn[d], rht'[d] = rht[d],
         \A k \in Tuples : fe'[k] = fe[k] \/ (c \in Cookies /\ Carries(c, k)
                                            /\ (fe'[k] = None \/ fe'[k].owner = c))
  PROVE  OwnAt(d)'
<1>0. d # None /\ None \notin Tuples
  BY FlowAssumption
<1>1. SameDuty(d)
  <2>1. \A u \in Threads : u # t => th'[u] = th[u]
    BY DEF Others
  <2>2. th[t].c # d /\ th'[t].c # d
    BY <1>0
  <2>3. \A u \in Threads : Post(u, d) /\ th[u].pc = "feadd" /\ ~Over(d) => th[u].sink = conn[d]
    BY DEF OwnInv, OwnAt, Before
  <2> QED BY <2>1, <2>2, <2>3 DEF SameDuty, Post, Wrote, Cutting, Cut, Destroyer
<1>2. \A k \in Tuples : Mine(d, k)' => Mine(d, k)
  BY DEF Mine
<1>3. ASSUME ~Over(d), Exact(d, conn[d]) PROVE Exact(d, conn[d])'
  <2>1. conn[d] \in Tuples /\ Carries(d, conn[d])
    BY <1>3 DEF Over, TypeInv, DataOK, Carries
  <2>2. fe'[conn[d]] = fe[conn[d]]
    BY <2>1 DEF KeyInv
  <2> QED BY <1>3, <2>2 DEF Exact
<1> QED BY <1>1, <1>2, <1>3, OwnFrame

-----------------------------------------------------------------------------
(* Most steps are one of two kinds.                                        *)

Plain(l) == l.op # "destroy" /\ ~(l.op \in PubOps /\ l.pc \in Late)
SameCall(l, m) == m.c = l.c /\ m.k = l.k /\ m.gen = l.gen /\ m.op = l.op

\* A call before its publication or after its undo; a worker between calls.
Aside(t) ==
  /\ UNCHANGED <<conn, dying, registry, rht, fe>> /\ Others(t) /\ NoNewStamps
  /\ Plain(th[t]) /\ Plain(th'[t]) /\ th'[t].pc # "claim"

\* A call past its publication goes on with what it has.
Walk(t) ==
  /\ UNCHANGED <<conn, dying, registry, rht, fe>> /\ Others(t) /\ NoNewStamps
  /\ SameCall(th[t], th'[t]) /\ th'[t].id = th[t].id /\ th'[t].mac = th[t].mac
  /\ th[t].op \in PubOps /\ th[t].pc \in Late /\ th'[t].pc \in Late
  /\ th'[t].pc \in {"fecheck", "feundo"} <=> th[t].pc \in {"fecheck", "feundo"}
  /\ th'[t].pc = "feadd" /\ ~Over(th[t].c) => th'[t].sink = conn[th[t].c]

LEMMA AsideLife ==
  ASSUME NEW t \in Threads, TypeInv', FormInv', LifeInv, Aside(t) PROVE LifeInv'
<1>1. \A u \in Threads, c \in Cookies :
        Destroyer(u, c)' => u # t /\ th'[u] = th[u] /\ Destroyer(u, c)
  BY DEF Aside, Others, Plain, Destroyer
<1>2. CallbackInv'
  <2>1. \A u \in Threads : th'[u].pc = "claim" => th'[u] = th[u]
    BY DEF Aside, Others
  <2> QED BY <1>1, <2>1, CallbackFrame DEF Aside, LifeInv
<1>3. StampInv'
  BY <1>1, StampFrame DEF Aside, LifeInv
<1>4. KeyInv'
  <2>1. \A u \in Threads, c \in Cookies, k \in Tuples :
          Destroyer(u, c)' /\ th'[u].old = k => Carries(c, k)
    BY <1>1 DEF Carries, Destroyer
  <2> QED BY <2>1, KeyFrame, StampsKeys DEF Aside, LifeInv
<1>5. \A c \in Cookies : SameDuty(c)
  <2>1. \A c : /\ ~Post(t, c) /\ ~Wrote(t, c) /\ ~Cutting(t, c) /\ ~Cut(t, c)
               /\ ~Post(t, c)' /\ ~Wrote(t, c)' /\ ~Cutting(t, c)' /\ ~Cut(t, c)'
    BY DEF Aside, Plain, Post, Wrote, Cutting, Cut, Destroyer, Late
  <2>2. \A u \in Threads, c \in Cookies : Post(u, c) /\ th[u].pc = "feadd" /\ ~Over(c) => th[u].sink = conn[c]
    BY DEF LifeInv, OwnInv, OwnAt, Before
  <2>3. \A u \in Threads : u # t => th'[u] = th[u]
    BY DEF Aside, Others
  <2> QED BY <2>1, <2>2, <2>3 DEF SameDuty, Post, Wrote, Cutting, Cut, Destroyer
<1>6. OwnInv'
  <2>1. \A c \in Cookies : OwnAt(c)'
    BY <1>5, OwnFrame DEF Aside, LifeInv, Mine, Exact
  <2> QED BY <2>1 DEF OwnInv
<1> QED BY <1>2, <1>3, <1>4, <1>6 DEF LifeInv

LEMMA WalkLife ==
  ASSUME NEW t \in Threads, TypeInv', FormInv', LifeInv, Walk(t) PROVE LifeInv'
<1>0. th[t].op # "destroy" /\ th'[t].op # "destroy" /\ th'[t].op \in PubOps /\ th'[t].pc # "claim"
  BY DEF Walk, SameCall, PubOps, Late
<1>1. \A u \in Threads, c \in Cookies :
        Destroyer(u, c)' => u # t /\ th'[u] = th[u] /\ Destroyer(u, c)
  BY <1>0 DEF Walk, Others, Destroyer
<1>2. CallbackInv'
  <2>1. \A u \in Threads : th'[u].pc = "claim" => th'[u] = th[u]
    BY <1>0 DEF Walk, Others
  <2> QED BY <1>1, <2>1, CallbackFrame DEF Walk, LifeInv
<1>3. StampInv'
  BY <1>1, StampFrame DEF Walk, LifeInv
<1>4. KeyInv'
  <2>1. \A u \in Threads, c \in Cookies, k \in Tuples :
          Destroyer(u, c)' /\ th'[u].old = k => Carries(c, k)
    BY <1>1 DEF Carries, Destroyer
  <2> QED BY <2>1, KeyFrame, StampsKeys DEF Walk, LifeInv
<1>5. \A c \in Cookies : SameDuty(c)
  <2>1. \A c : /\ Post(t, c) <=> th[t].c = c
               /\ Post(t, c)' <=> th[t].c = c
               /\ Wrote(t, c)' <=> Wrote(t, c)
               /\ ~Cutting(t, c) /\ ~Cut(t, c) /\ ~Cutting(t, c)' /\ ~Cut(t, c)'
    BY <1>0 DEF Walk, SameCall, Post, Wrote, Cutting, Cut, Destroyer
  <2>2. \A u \in Threads, c \in Cookies : Post(u, c) /\ th[u].pc = "feadd" /\ ~Over(c) => th[u].sink = conn[c]
    BY DEF LifeInv, OwnInv, OwnAt, Before
  <2>3. \A u \in Threads : u # t => th'[u] = th[u]
    BY DEF Walk, Others
  <2> QED BY <2>1, <2>2, <2>3 DEF SameDuty, Walk, SameCall, Post, Wrote, Cutting, Cut, Destroyer
<1>6. OwnInv'
  <2>1. \A c \in Cookies : OwnAt(c)'
    BY <1>5, OwnFrame DEF Walk, LifeInv, Mine, Exact
  <2> QED BY <2>1 DEF OwnInv
<1> QED BY <1>2, <1>3, <1>4, <1>6 DEF LifeInv

\* A call that keeps what it carries, or drops it, makes no stamp.
LEMMA KeepStamps ==
  ASSUME NEW t \in Threads, UNCHANGED <<work, pending>>, Others(t),
         \A d \in Cookies : rht'[d] \in {rht[d], None},
         th'[t].c = None \/ th'[t].op \notin PubOps \/ SameCall(th[t], th'[t])
  PROVE  NoNewStamps
<1> SUFFICES ASSUME NEW c \in Cookies, NEW k \in Tuples, NEW g \in Gens, Stamped(c, k, g)'
             PROVE  Stamped(c, k, g)
  BY DEF NoNewStamps
<1>1. c # None
  BY FlowAssumption
<1>2. ASSUME NEW u \in Threads, th'[u].c = c, th'[u].op \in PubOps, th'[u].k = k, th'[u].gen = g
      PROVE  Stamped(c, k, g)
  <2>1. th[u].c = c /\ th[u].op \in PubOps /\ th[u].k = k /\ th[u].gen = g
    BY <1>1, <1>2 DEF Others, SameCall
  <2> QED BY <2>1 DEF Stamped
<1> QED BY <1>2 DEF Stamped

LEMMA StepFacts ==
  ASSUME NEW t \in Threads, NEW l, TypeInv, Step(t, l) PROVE th'[t] = l /\ Others(t)
BY DEF Step, Others, TypeInv, ThreadsOK

\* A call that is not past its publication goes on or returns.
LEMMA CallAside ==
  ASSUME NEW t \in Threads, TypeInv, FormInv, Plain(th[t]), th[t].pc \notin RestPcs,
         UNCHANGED <<conn, dying, registry, rht, fe, work, pending>>,
         \/ Return(t)
         \/ \E l : Step(t, l) /\ SameCall(th[t], l) /\ Plain(l) /\ l.pc # "claim"
  PROVE  Aside(t)
<1>1. CASE Return(t)
  <2>1. th'[t] = Back(t) /\ Others(t)
    BY <1>1, StepFacts DEF Return
  <2>2. Back(t).c = None /\ Back(t).pc \in RestPcs /\ Form(t, Back(t))
    BY BackForm
  <2>3. Plain(Back(t)) /\ Back(t).pc # "claim"
    BY <2>2 DEF Plain, Form, Site, RestPcs, DestroyPcs, Late
  <2> QED BY <2>1, <2>2, <2>3, KeepStamps DEF Aside
<1>2. ASSUME NEW l, Step(t, l), SameCall(th[t], l), Plain(l), l.pc # "claim" PROVE Aside(t)
  <2>1. th'[t] = l /\ Others(t)
    BY <1>2, StepFacts
  <2> QED BY <1>2, <2>1, KeepStamps DEF Aside
<1> QED BY <1>1, <1>2

-----------------------------------------------------------------------------
(* The steps of insert.                                                    *)

Inv == TypeInv /\ FormInv /\ HwInv /\ LifeInv

\* What a call that publishes carries.
LEMMA PubFacts ==
  ASSUME NEW t \in Threads, TypeInv, FormInv, th[t].pc \in KeyPcs
  PROVE  /\ th[t] \in Local /\ th[t].c \in Cookies /\ th[t].k \in Tuples
         /\ th[t].op \in PubOps /\ th[t].op # "destroy" /\ th[t].pc \notin RestPcs
         /\ th[t].pc # "claim" => th[t].gen # 0
         /\ th[t].gen \in Gens /\ th[t].old = None
<1>1. th[t] \in Local /\ th[t].c \in Cookies /\ th[t].k \in Tuples
  BY KeyFacts
<1>2. Form(t, th[t]) /\ th[t].pc \notin RestPcs /\ th[t].c # None
  BY <1>1, FlowAssumption DEF FormInv, KeyPcs, RestPcs
<1>3. th[t].op \in PubOps
  BY <1>2 DEF Form, Site, KeyPcs, PubOps, RestPcs, DestroyPcs
<1> QED BY <1>1, <1>2, <1>3 DEF Form, PubOps, Local

\* The tuple of a call is that of the flow there is.
LEMMA OwnKey ==
  ASSUME NEW t \in Threads, Inv, th[t].pc \in KeyPcs
  PROVE  /\ Carries(th[t].c, th[t].k)
         /\ conn[th[t].c] # None => conn[th[t].c] = th[t].k
<1>1. Carries(th[t].c, th[t].k)
  BY DEF Carries
<1>2. th[t].c \in Cookies /\ th[t].k \in Tuples
  BY PubFacts DEF Inv
<1> QED BY <1>1, <1>2 DEF Inv, LifeInv, KeyInv

\* Before the publication: nothing of the flow changes.
LEMMA InsertAside ==
  ASSUME NEW t \in Threads, Inv,
         \/ Insert_Admit(t) \/ Insert_HwOk(t) \/ Insert_HwRefused(t) \/ Insert_Gate(t)
         \/ Insert_Publish(t) /\ rht[th[t].c] # None
  PROVE  Aside(t)
<1> DEFINE l == th[t]
<1>1. l.pc \in {"admit", "hw", "gate", "publish"} /\ l.pc \in KeyPcs
  BY DEF Insert_Admit, Insert_HwOk, Insert_HwRefused, Insert_Gate, Insert_Publish, KeyPcs
<1>2. l \in Local /\ l.op # "destroy" /\ l.pc \notin RestPcs
  BY <1>1, PubFacts DEF Inv
<1>3. Plain(l)
  BY <1>1, <1>2 DEF Plain, Late
<1>4. UNCHANGED <<conn, dying, registry, rht, fe, work, pending>>
  BY DEF Insert_Admit, Insert_HwOk, Insert_HwRefused, Insert_Gate, Insert_Publish, env
<1>5. ASSUME NEW p \in {"hw", "publish"}, Step(t, [l EXCEPT !.pc = p]) PROVE Aside(t)
  <2>1. SameCall(l, [l EXCEPT !.pc = p]) /\ Plain([l EXCEPT !.pc = p]) /\ p # "claim"
    BY <1>2 DEF SameCall, Plain, Late, Local
  <2> QED BY <1>2, <1>3, <1>4, <1>5, <2>1, CallAside DEF Inv, Local
<1>6. ASSUME NEW i, Step(t, [l EXCEPT !.pc = "gate", !.hw = TRUE, !.id = i]) PROVE Aside(t)
  <2> DEFINE m == [l EXCEPT !.pc = "gate", !.hw = TRUE, !.id = i]
  <2>1. SameCall(l, m) /\ Plain(m) /\ m.pc # "claim"
    BY <1>2 DEF SameCall, Plain, Late, Local
  <2> QED BY <1>2, <1>3, <1>4, <1>6, <2>1, CallAside DEF Inv
<1>7. CASE Return(t)
  BY <1>2, <1>3, <1>4, <1>7, CallAside DEF Inv
<1>8. \/ Return(t) \/ Step(t, [l EXCEPT !.pc = "hw"]) \/ Step(t, [l EXCEPT !.pc = "publish"])
      \/ \E i : Step(t, [l EXCEPT !.pc = "gate", !.hw = TRUE, !.id = i])
  BY DEF Insert_Admit, Insert_HwOk, Insert_HwRefused, Insert_Gate, Insert_Publish, Goto
<1> QED BY <1>5, <1>6, <1>7, <1>8

-----------------------------------------------------------------------------
(* The steps of a call past its publication.                               *)

\* What concerns a cookie but one call is as before.
LEMMA SameOthers ==
  ASSUME NEW t \in Threads, NEW c, Others(t)
  PROVE  \A u \in Threads : u # t =>
           /\ th'[u] = th[u]
           /\ Post(u, c)' <=> Post(u, c)
           /\ Wrote(u, c)' <=> Wrote(u, c)
           /\ Cutting(u, c)' <=> Cutting(u, c)
           /\ Cut(u, c)' <=> Cut(u, c)
BY DEF Others, Post, Wrote, Cutting, Cut, Destroyer

\* A call that publishes disturbs at most what LifeInv says of its own cookie.
LEMMA PubLife ==
  ASSUME NEW t \in Threads, NEW c \in Cookies, Inv, TypeInv', FormInv', Others(t), NoNewStamps,
         UNCHANGED <<conn, dying, registry>>,
         th[t].c = c, th[t].op # "destroy",
         th'[t].c \in {c, None}, th'[t].op # "destroy", th'[t].pc # "claim",
         \A d \in Cookies : d # c => rht'[d] = rht[d],
         \A k \in Tuples : fe'[k] = fe[k] \/ (Carries(c, k) /\ (fe'[k] = None \/ fe'[k].owner = c)),
         OwnAt(c)'
  PROVE  LifeInv'
<1>1. \A u \in Threads, d \in Cookies :
        Destroyer(u, d)' => u # t /\ th'[u] = th[u] /\ Destroyer(u, d)
  BY DEF Others, Destroyer
<1>2. CallbackInv'
  <2>1. \A u \in Threads : th'[u].pc = "claim" => th'[u] = th[u]
    BY DEF Others
  <2> QED BY <1>1, <2>1, CallbackFrame DEF Inv, LifeInv
<1>3. StampInv'
  BY <1>1, StampFrame DEF Inv, LifeInv
<1>4. KeyInv'
  <2>1. \A u \in Threads, d \in Cookies, k \in Tuples :
          Destroyer(u, d)' /\ th'[u].old = k => Carries(d, k)
    BY <1>1 DEF Carries, Destroyer
  <2> QED BY <2>1, KeyFrame, StampsKeys DEF Inv, LifeInv
<1>5. \A d \in Cookies : d # c => OwnAt(d)'
  BY OwnElsewhere DEF Inv, LifeInv
<1>6. OwnInv'
  BY <1>5 DEF OwnInv
<1> QED BY <1>2, <1>3, <1>4, <1>6 DEF LifeInv

\* DESTROY has unlinked the flow or not, whatever another call does.
LEMMA SameOver ==
  ASSUME NEW t \in Threads, NEW c, Others(t), conn'[c] = conn[c], Cut(t, c)' <=> Cut(t, c)
  PROVE  Over(c)' <=> Over(c)
BY SameOthers DEF Over

\* What a step leaves behind still has a call that removes it.
LEMMA AfterStep ==
  ASSUME NEW t \in Threads, NEW c \in Cookies, Others(t), After(c),
         rht'[c] # None =>
           \/ Post(t, c)' /\ rht'[c].gen <= th'[t].gen
           \/ rht'[c] = rht[c] /\ ~(Post(t, c) /\ rht[c].gen <= th[t].gen),
         \A k \in Tuples : Mine(c, k)' =>
           \/ Wrote(t, c)' /\ th'[t].k = k
           \/ Cut(t, c)' /\ th'[t].pc # "forget" /\ th'[t].old = k
           \/ /\ Mine(c, k) /\ ~(Wrote(t, c) /\ th[t].k = k)
              /\ ~(Cut(t, c) /\ th[t].pc # "forget" /\ th[t].old = k)
  PROVE  After(c)'
<1>1. ASSUME rht'[c] # None PROVE \E u \in Threads : Post(u, c)' /\ rht'[c].gen <= th'[u].gen
  <2>1. CASE Post(t, c)' /\ rht'[c].gen <= th'[t].gen
    BY <2>1
  <2>2. CASE rht'[c] = rht[c] /\ ~(Post(t, c) /\ rht[c].gen <= th[t].gen)
    <3>1. PICK u \in Threads : Post(u, c) /\ rht[c].gen <= th[u].gen
      BY <1>1, <2>2 DEF After
    <3>2. u # t
      BY <2>2, <3>1
    <3>3. Post(u, c)' /\ th'[u] = th[u]
      BY <3>1, <3>2, SameOthers
    <3> QED BY <2>2, <3>1, <3>3
  <2> QED BY <1>1, <2>1, <2>2
<1>2. ASSUME NEW k \in Tuples, Mine(c, k)'
      PROVE  \/ \E u \in Threads : Wrote(u, c)' /\ th'[u].k = k
             \/ \E u \in Threads : Cut(u, c)' /\ th'[u].pc # "forget" /\ th'[u].old = k
  <2>1. CASE \/ Wrote(t, c)' /\ th'[t].k = k
             \/ Cut(t, c)' /\ th'[t].pc # "forget" /\ th'[t].old = k
    BY <2>1
  <2>2. CASE /\ Mine(c, k) /\ ~(Wrote(t, c) /\ th[t].k = k)
             /\ ~(Cut(t, c) /\ th[t].pc # "forget" /\ th[t].old = k)
    <3>1. ASSUME NEW u \in Threads, Wrote(u, c), th[u].k = k
          PROVE  Wrote(u, c)' /\ th'[u].k = k
      <4>1. u # t
        BY <2>2, <3>1
      <4> QED BY <3>1, <4>1, SameOthers
    <3>2. ASSUME NEW u \in Threads, Cut(u, c), th[u].pc # "forget", th[u].old = k
          PROVE  Cut(u, c)' /\ th'[u].pc # "forget" /\ th'[u].old = k
      <4>1. u # t
        BY <2>2, <3>2
      <4> QED BY <3>2, <4>1, SameOthers
    <3>3. \/ \E u \in Threads : Wrote(u, c) /\ th[u].k = k
          \/ \E u \in Threads : Cut(u, c) /\ th[u].pc # "forget" /\ th[u].old = k
      BY <2>2 DEF After
    <3> QED BY <3>1, <3>2, <3>3
  <2> QED BY <1>2, <2>1, <2>2
<1> QED BY <1>1, <1>2 DEF After

\* The publication: before DESTROY's unlink nobody else was past his own.
LEMMA PublishLife ==
  ASSUME NEW t \in Threads, Inv, TypeInv', FormInv', Insert_Publish(t), rht[th[t].c] = None
  PROVE  LifeInv'
<1> DEFINE l == th[t]
<1>0. PICK c \in Cookies : c = l.c
  BY PubFacts DEF Inv, Insert_Publish, KeyPcs
<1>1. /\ l \in Local /\ l.k \in Tuples /\ l.op \in PubOps
      /\ l.op # "destroy" /\ l.pc = "publish" /\ l.gen \in Gens
  BY PubFacts DEF Inv, Insert_Publish, KeyPcs
<1>2. /\ th'[t] = [l EXCEPT !.pc = "count"] /\ Others(t)
      /\ UNCHANGED <<conn, dying, registry, fe, work, pending>>
  BY <1>0, StepFacts DEF Insert_Publish, Goto, Inv, env
<1>3. /\ th'[t].c = c /\ th'[t].op = l.op /\ th'[t].k = l.k /\ th'[t].gen = l.gen
      /\ th'[t].id = l.id /\ th'[t].mac = l.mac /\ th'[t].pc = "count"
  BY <1>0, <1>1, <1>2 DEF Local
<1>4. rht' = [rht EXCEPT ![c] = [k |-> l.k, mac |-> l.mac, rt |-> l.rt, gen |-> l.gen,
                                 hw |-> l.hw, id |-> l.id]]
  BY <1>0 DEF Insert_Publish
<1>5. /\ rht'[c] # None /\ rht'[c].k = l.k /\ rht'[c].gen = l.gen
      /\ rht'[c].id = l.id /\ rht'[c].mac = l.mac
      /\ \A d \in Cookies : d # c => rht'[d] = rht[d]
  <2>1. rht'[c] = [k |-> l.k, mac |-> l.mac, rt |-> l.rt, gen |-> l.gen, hw |-> l.hw, id |-> l.id]
    BY <1>4 DEF Inv, TypeInv, DataOK
  <2>2. rht'[c] \in Flow
    BY <1>1, <2>1 DEF Flow, Local
  <2>3. rht'[c] # None
    BY <2>2, NoneAssumption
  <2> QED BY <1>4, <2>1, <2>3 DEF Inv, TypeInv, DataOK
<1>6. NoNewStamps
  <2> SUFFICES ASSUME NEW d \in Cookies, NEW k \in Tuples, NEW g \in Gens, Stamped(d, k, g)'
               PROVE  Stamped(d, k, g)
    BY DEF NoNewStamps
  <2>1. CASE rht'[d] # None /\ rht'[d].k = k /\ rht'[d].gen = g
    BY <1>0, <1>1, <1>5, <2>1 DEF Stamped
  <2>2. ASSUME NEW u \in Threads, th'[u].c = d, th'[u].op \in PubOps, th'[u].k = k, th'[u].gen = g
        PROVE  Stamped(d, k, g)
    <3>1. th[u].c = d /\ th[u].op \in PubOps /\ th[u].k = k /\ th[u].gen = g
      BY <1>0, <1>2, <1>3, <2>2 DEF Others
    <3> QED BY <3>1 DEF Stamped
  <2> QED BY <1>2, <2>1, <2>2 DEF Stamped
<1>7. OwnAt(c)'
  <2>1. Post(t, c)' /\ ~Wrote(t, c)' /\ ~Post(t, c) /\ ~Wrote(t, c) /\ ~Cut(t, c) /\ ~Cut(t, c)'
    BY <1>1, <1>3 DEF Post, Wrote, Cut, Destroyer, Late
  <2>2. Over(c)' <=> Over(c)
    BY <1>2, <2>1, SameOver
  <2>3. \A k \in Tuples : Mine(c, k)' <=> Mine(c, k)
    BY <1>2 DEF Mine
  <2>4. CASE Over(c)
    <3>1. After(c)
      BY <2>4 DEF Inv, LifeInv, OwnInv, OwnAt
    <3>2. rht'[c].gen <= th'[t].gen
      BY <1>1, <1>3, <1>5, FlowAssumption DEF Gens
    <3>3. After(c)'
      BY <1>2, <2>1, <2>3, <3>1, <3>2, AfterStep
    <3> QED BY <2>2, <2>4, <3>3 DEF OwnAt
  <2>5. CASE ~Over(c)
    <3>1. Before(c)
      BY <2>5 DEF Inv, LifeInv, OwnInv, OwnAt
    <3>2. rht[c] = None
      BY <1>0
    <3>3. \A k \in Tuples : ~Mine(c, k)'
      BY <2>3, <3>1, <3>2 DEF Before
    <3>4. \A u \in Threads : Post(u, c)' => u = t
      BY <1>2, <3>1, <3>2, SameOthers DEF Before
    <3>5. Before(c)'
      BY <1>3, <1>5, <2>1, <3>3, <3>4 DEF Before
    <3> QED BY <2>2, <2>5, <3>5 DEF OwnAt
  <2> QED BY <2>4, <2>5
<1> QED BY <1>0, <1>1, <1>2, <1>3, <1>5, <1>6, <1>7, PubLife

\* A call past its publication goes on with local state m.
LEMMA GoWalk ==
  ASSUME NEW t \in Threads, NEW m, Inv, th[t].pc \in Late \ {"unlink"}, Step(t, m),
         UNCHANGED <<conn, dying, registry, rht, fe, work, pending>>,
         SameCall(th[t], m), m.id = th[t].id, m.mac = th[t].mac, m.pc \in Late,
         m.pc \in {"fecheck", "feundo"} <=> th[t].pc \in {"fecheck", "feundo"},
         m.pc = "feadd" /\ ~Over(th[t].c) => m.sink = conn[th[t].c]
  PROVE  Walk(t)
<1>1. th'[t] = m /\ Others(t)
  BY StepFacts DEF Inv
<1>2. th[t].op \in PubOps
  BY PubFacts DEF Inv, Late, KeyPcs
<1>3. NoNewStamps
  BY <1>1, KeepStamps
<1> QED BY <1>1, <1>2, <1>3 DEF Walk

\* What a call past its publication finds before DESTROY unlinks the flow.
LEMMA PostFacts ==
  ASSUME NEW t \in Threads, NEW c \in Cookies, Inv, Post(t, c), ~Over(c)
  PROVE  /\ Before(c) /\ rht[c] # None
         /\ rht[c].gen = th[t].gen /\ rht[c].id = th[t].id /\ rht[c].mac = th[t].mac
         /\ \A u \in Threads : Post(u, c) => u = t
         /\ rht[c].id \in HwIds /\ hwTab[rht[c].id] = conn[c] /\ conn[c] \in Tuples
<1>1. Before(c)
  BY DEF Inv, LifeInv, OwnInv, OwnAt
<1>2. /\ rht[c] # None
      /\ rht[c].gen = th[t].gen /\ rht[c].id = th[t].id /\ rht[c].mac = th[t].mac
      /\ \A u \in Threads : Post(u, c) => u = t
  BY <1>1 DEF Before
<1>3. Backed(c) /\ rht[c].k \in Tuples
  BY <1>2 DEF Inv, FormInv, Installed, Backed, TypeInv, DataOK, Flow
<1>4. rht[c].id \in HwIds /\ hwTab[rht[c].id] = rht[c].k
  BY <1>3 DEF Inv, HwInv, HwCookieOwned
<1>5. conn[c] # None
  BY DEF Over
<1>6. conn[c] = rht[c].k
  BY <1>2, <1>3, <1>5 DEF Inv, LifeInv, KeyInv, Carries
<1> QED BY <1>1, <1>2, <1>3, <1>4, <1>6

\* The steps between the publication and the end of the call that touch nothing.
LEMMA PostWalk ==
  ASSUME NEW t \in Threads, Inv,
         \/ Insert_Count(t) \/ Replace_Check(t) \/ Fe_Sink(t) \/ Fe_AddFails(t)
         \/ Republish_Backed(t) /\ rht[th[t].c] # None
         \/ Fe_Check(t) /\ ~IsCurrent(th[t].c, th[t].gen)
  PROVE  Walk(t)
<1> DEFINE l == th[t]
<1>1. l.pc \in Late \ {"unlink"} /\ l.pc \in KeyPcs
  BY DEF Insert_Count, Replace_Check, Fe_Sink, Fe_AddFails, Republish_Backed, Fe_Check, Late, KeyPcs
<1>2. l \in Local /\ l.c \in Cookies /\ l.op \in PubOps
  BY <1>1, PubFacts DEF Inv
<1>3. UNCHANGED <<conn, dying, registry, rht, fe, work, pending>>
  BY DEF Insert_Count, Replace_Check, Fe_Sink, Fe_AddFails, Republish_Backed, Fe_Check, env
<1>4. ASSUME NEW p \in {"check", "backed", "sink"}, Step(t, [l EXCEPT !.pc = p]),
             l.pc \notin {"fecheck", "feundo"}
      PROVE  Walk(t)
  <2> DEFINE m == [l EXCEPT !.pc = p]
  <2>1. SameCall(l, m) /\ m.id = l.id /\ m.mac = l.mac /\ m.pc = p
    BY <1>2 DEF SameCall, Local
  <2>2. m.pc \in Late /\ m.pc \notin {"fecheck", "feundo", "feadd"}
    BY <2>1 DEF Late
  <2> HIDE DEF m
  <2>3. Step(t, m)
    BY <1>4 DEF m
  <2> QED BY <1>1, <1>3, <1>4, <2>1, <2>2, <2>3, GoWalk
<1>5. ASSUME Step(t, [l EXCEPT !.pc = "unlink", !.undo = TRUE]), l.pc \notin {"fecheck", "feundo"}
      PROVE  Walk(t)
  <2> DEFINE m == [l EXCEPT !.pc = "unlink", !.undo = TRUE]
  <2>1. SameCall(l, m) /\ m.id = l.id /\ m.mac = l.mac /\ m.pc = "unlink"
    BY <1>2 DEF SameCall, Local
  <2> QED BY <1>1, <1>3, <1>5, <2>1, GoWalk DEF Late
<1>6. CASE Insert_Count(t)
  <2>1. PICK p \in {"check", "backed"} : Step(t, [l EXCEPT !.pc = p])
    BY <1>6 DEF Insert_Count, Goto
  <2> QED BY <1>4, <1>6, <2>1 DEF Insert_Count
<1>7. CASE Replace_Check(t)
  BY <1>4, <1>5, <1>7 DEF Replace_Check, Goto
<1>8. CASE Republish_Backed(t) /\ rht[l.c] # None
  <2>1. rht[l.c].hw
    BY <1>2, <1>8 DEF Inv, FormInv, Installed
  <2>2. Step(t, [l EXCEPT !.pc = "sink"]) /\ l.pc = "backed"
    BY <1>8, <2>1 DEF Republish_Backed, Goto
  <2> QED BY <1>4, <2>2
<1>9. CASE Fe_AddFails(t)
  BY <1>5, <1>9 DEF Fe_AddFails
<1>10. CASE Fe_Check(t) /\ ~IsCurrent(l.c, l.gen)
  <2> DEFINE m == [l EXCEPT !.pc = "feundo"]
  <2>1. SameCall(l, m) /\ m.id = l.id /\ m.mac = l.mac /\ m.pc = "feundo" /\ l.pc = "fecheck"
    BY <1>2, <1>10 DEF SameCall, Local, Fe_Check
  <2>2. Step(t, m)
    BY <1>10 DEF Fe_Check, Goto
  <2> QED BY <1>1, <1>3, <2>1, <2>2, GoWalk DEF Late
<1>11. CASE Fe_Sink(t)
  <2>1. l.pc = "sink" /\ Post(t, l.c)
    BY <1>2, <1>11 DEF Fe_Sink, Post, Late
  <2>2. CASE l.id \in HwIds /\ hwTab[l.id] # None
    <3> DEFINE m == [l EXCEPT !.pc = "feadd", !.sink = hwTab[l.id]]
    <3>1. Step(t, m)
      BY <1>11, <2>2 DEF Fe_Sink
    <3>2. /\ SameCall(l, m) /\ m.id = l.id /\ m.mac = l.mac /\ m.pc = "feadd"
          /\ m.sink = hwTab[l.id]
      BY <1>2 DEF SameCall, Local
    <3>3. ~Over(l.c) => hwTab[l.id] = conn[l.c]
      BY <1>2, <2>1, PostFacts
    <3> QED BY <1>1, <1>3, <2>1, <3>1, <3>2, <3>3, GoWalk DEF Late
  <2>3. CASE ~(l.id \in HwIds /\ hwTab[l.id] # None)
    BY <1>5, <1>11, <2>1, <2>3 DEF Fe_Sink
  <2> QED BY <2>2, <2>3
<1> QED BY <1>6, <1>7, <1>8, <1>9, <1>10, <1>11

\* A call that is over has nothing to do with any cookie.
LEMMA ReturnFacts ==
  ASSUME NEW t \in Threads, Inv, th[t].pc \notin RestPcs, Return(t)
  PROVE  /\ th'[t].c = None /\ Others(t) /\ th'[t].op # "destroy" /\ th'[t].pc # "claim"
         /\ \A c \in Cookies : ~Post(t, c)' /\ ~Wrote(t, c)' /\ ~Cutting(t, c)' /\ ~Cut(t, c)'
<1>1. th'[t] = Back(t) /\ Others(t)
  BY StepFacts DEF Inv, Return
<1>2. Form(t, Back(t)) /\ Back(t).c = None /\ Back(t).pc \in RestPcs
  BY BackForm DEF Inv
<1>3. Back(t).op # "destroy" /\ Back(t).pc # "claim"
  BY <1>2 DEF Form, Site, RestPcs, DestroyPcs
<1> QED BY <1>1, <1>2, <1>3, FlowAssumption DEF Post, Wrote, Cutting, Cut, Destroyer

\* A replay finds its flow gone: DESTROY has removed it, and with it the record.
LEMMA BackedLife ==
  ASSUME NEW t \in Threads, Inv, TypeInv', FormInv', Republish_Backed(t), rht[th[t].c] = None
  PROVE  LifeInv'
<1> DEFINE l == th[t]
<1>0. PICK c \in Cookies : c = l.c
  BY PubFacts DEF Inv, Republish_Backed, KeyPcs
<1>1. l.pc = "backed" /\ l.pc \notin RestPcs /\ l.op \in PubOps /\ l.op # "destroy"
  BY PubFacts DEF Inv, Republish_Backed, KeyPcs
<1>2. Return(t) /\ UNCHANGED <<conn, dying, registry, rht, fe, work, pending>>
  BY DEF Republish_Backed, env
<1>3. th'[t].c = None /\ Others(t) /\ th'[t].op # "destroy" /\ th'[t].pc # "claim" /\ ~Cut(t, c)'
  BY <1>1, <1>2, ReturnFacts
<1>4. Post(t, c) /\ ~Wrote(t, c) /\ ~Cut(t, c)
  BY <1>0, <1>1 DEF Post, Wrote, Cut, Destroyer, Late
<1>5. Over(c)
  BY <1>0, <1>4, PostFacts
<1>6. After(c)'
  <2>1. After(c)
    BY <1>5 DEF Inv, LifeInv, OwnInv, OwnAt
  <2>2. rht'[c] = None /\ \A k \in Tuples : Mine(c, k)' => Mine(c, k)
    BY <1>0, <1>2 DEF Mine
  <2> QED BY <1>3, <1>4, <2>1, <2>2, AfterStep
<1>7. OwnAt(c)'
  BY <1>2, <1>3, <1>4, <1>5, <1>6, SameOver DEF OwnAt
<1>8. NoNewStamps
  BY <1>2, <1>3, KeepStamps
<1> QED BY <1>0, <1>1, <1>2, <1>3, <1>7, <1>8, PubLife

\* A call that is the owner when its record is written is done: no DESTROY has
\* even started.
LEMMA CheckLife ==
  ASSUME NEW t \in Threads, Inv, TypeInv', FormInv', Fe_Check(t), IsCurrent(th[t].c, th[t].gen)
  PROVE  LifeInv'
<1> DEFINE l == th[t]
<1>0. PICK c \in Cookies : c = l.c
  BY PubFacts DEF Inv, Fe_Check, KeyPcs
<1>1. l.pc = "fecheck" /\ l.pc \notin RestPcs /\ l.op \in PubOps /\ l.op # "destroy"
  BY PubFacts DEF Inv, Fe_Check, KeyPcs
<1>2. Return(t) /\ UNCHANGED <<conn, dying, registry, rht, fe, work, pending>>
  BY DEF Fe_Check, env
<1>3. /\ th'[t].c = None /\ Others(t) /\ th'[t].op # "destroy" /\ th'[t].pc # "claim"
      /\ ~Post(t, c)' /\ ~Wrote(t, c)' /\ ~Cutting(t, c)' /\ ~Cut(t, c)'
  BY <1>1, <1>2, ReturnFacts
<1>4. Post(t, c) /\ Wrote(t, c) /\ ~Cut(t, c)
  BY <1>0, <1>1 DEF Post, Wrote, Cut, Destroyer, Late
<1>5. registry[c].st = "live"
  BY <1>0 DEF IsCurrent, GenIsCurrent
<1>6. conn[c] # None /\ \A u \in Threads : ~Cut(u, c) /\ ~Cutting(u, c)
  BY <1>5 DEF Inv, LifeInv, StampInv, NoEntry, Cut, Cutting
<1>7. ~Over(c) /\ ~Over(c)'
  BY <1>2, <1>3, <1>4, <1>6, SameOver DEF Over
<1>8. Before(c) /\ Exact(c, conn[c]) /\ \A u \in Threads : Post(u, c) => u = t
  BY <1>4, <1>7, PostFacts DEF Before
<1>9. Before(c)'
  <2>1. \A u \in Threads : ~Post(u, c)' /\ ~Cutting(u, c)'
    BY <1>3, <1>6, <1>8, SameOthers
  <2>2. Exact(c, conn[c])' /\ \A k \in Tuples : Mine(c, k)' => Mine(c, k)
    BY <1>2, <1>8 DEF Exact, Mine
  <2> QED BY <1>2, <1>8, <2>1, <2>2 DEF Before
<1>10. NoNewStamps
  BY <1>2, <1>3, KeepStamps
<1> QED BY <1>0, <1>1, <1>2, <1>3, <1>7, <1>9, <1>10, PubLife DEF OwnAt

\* The record is written: the writer answers for it until its check.
LEMMA AddLife ==
  ASSUME NEW t \in Threads, Inv, TypeInv', FormInv', Fe_Add(t) PROVE LifeInv'
<1> DEFINE l == th[t]
<1>0. PICK c \in Cookies : c = l.c
  BY PubFacts DEF Inv, Fe_Add, KeyPcs
<1>1. /\ l \in Local /\ l.k \in Tuples /\ l.pc = "feadd" /\ l.op \in PubOps /\ l.op # "destroy"
      /\ l.gen \in Gens
  BY PubFacts DEF Inv, Fe_Add, KeyPcs
<1>2. /\ th'[t] = [l EXCEPT !.pc = "fecheck"] /\ Others(t)
      /\ UNCHANGED <<conn, dying, registry, rht, work, pending>>
  BY StepFacts DEF Fe_Add, Goto, Inv, env
<1>3. /\ th'[t].c = c /\ th'[t].op = l.op /\ th'[t].k = l.k /\ th'[t].gen = l.gen
      /\ th'[t].id = l.id /\ th'[t].mac = l.mac /\ th'[t].pc = "fecheck"
  BY <1>0, <1>1, <1>2 DEF Local
<1> DEFINE r == [owner |-> l.c, gen |-> l.gen, mac |-> l.mac, sink |-> l.sink]
<1>4. fe'[l.k] = r /\ \A k \in Tuples : k # l.k => fe'[k] = fe[k]
  BY <1>1 DEF Fe_Add, Inv, TypeInv, DataOK
<1>5. Carries(c, l.k) /\ (conn[c] # None => conn[c] = l.k)
  BY <1>0, <1>1, OwnKey DEF KeyPcs
<1>6. /\ Post(t, c) /\ Post(t, c)' /\ ~Wrote(t, c) /\ Wrote(t, c)'
      /\ ~Cut(t, c) /\ ~Cut(t, c)' /\ ~Cutting(t, c) /\ ~Cutting(t, c)'
  BY <1>0, <1>1, <1>3 DEF Post, Wrote, Cut, Cutting, Destroyer, Late
<1>7. Over(c)' <=> Over(c)
  BY <1>2, <1>6, SameOver
<1>8. ASSUME Over(c) PROVE OwnAt(c)'
  <2>1. After(c)
    BY <1>8 DEF Inv, LifeInv, OwnInv, OwnAt
  <2>2. \A k \in Tuples : Mine(c, k)' => k = l.k \/ Mine(c, k)
    BY <1>4 DEF Mine
  <2>3. After(c)'
    BY <1>2, <1>3, <1>6, <2>1, <2>2, AfterStep
  <2> QED BY <1>7, <1>8, <2>3 DEF OwnAt
<1>9. ASSUME ~Over(c) PROVE OwnAt(c)'
  <2>1. /\ Before(c) /\ rht[c] # None /\ rht[c].gen = l.gen /\ rht[c].id = l.id
        /\ rht[c].mac = l.mac /\ conn[c] \in Tuples
        /\ \A u \in Threads : Post(u, c) => u = t
    BY <1>6, <1>9, PostFacts
  <2>2. conn[c] = l.k /\ l.sink = conn[c] /\ \A k \in Tuples : ~Mine(c, k)
    BY <1>1, <1>5, <1>6, <1>9, <2>1 DEF Before, Over
  <2>3. Exact(c, conn[c])'
    BY <1>0, <1>2, <1>4, <2>1, <2>2 DEF Exact
  <2>4. \A k \in Tuples : Mine(c, k)' => k = conn[c]
    BY <1>4, <2>2 DEF Mine
  <2>5. \A u \in Threads : Post(u, c)' => u = t
    BY <1>2, <2>1, SameOthers
  <2>6. Before(c)'
    BY <1>2, <1>3, <1>6, <2>1, <2>3, <2>4, <2>5 DEF Before
  <2> QED BY <1>7, <1>9, <2>6 DEF OwnAt
<1>10. NoNewStamps
  BY <1>0, <1>2, <1>3, KeepStamps DEF SameCall
<1>11. \A k \in Tuples : fe'[k] = fe[k] \/ (Carries(c, k) /\ (fe'[k] = None \/ fe'[k].owner = c))
  BY <1>0, <1>4, <1>5
<1> QED BY <1>0, <1>1, <1>2, <1>3, <1>8, <1>9, <1>10, <1>11, PubLife

\* A call that is not the owner any more deletes what it wrote.
LEMMA UndoLife ==
  ASSUME NEW t \in Threads, Inv, TypeInv', FormInv', Fe_Undo(t) PROVE LifeInv'
<1> DEFINE l == th[t]
<1>0. PICK c \in Cookies : c = l.c
  BY PubFacts DEF Inv, Fe_Undo, KeyPcs
<1>1. /\ l \in Local /\ l.k \in Tuples /\ l.pc = "feundo" /\ l.op \in PubOps /\ l.op # "destroy"
      /\ l.gen \in Gens
  BY PubFacts DEF Inv, Fe_Undo, KeyPcs
<1>2. /\ th'[t] = [l EXCEPT !.pc = "unlink", !.undo = TRUE] /\ Others(t)
      /\ UNCHANGED <<conn, dying, registry, rht, work, pending>>
  BY StepFacts DEF Fe_Undo, Inv, env
<1>3. /\ th'[t].c = c /\ th'[t].op = l.op /\ th'[t].k = l.k /\ th'[t].gen = l.gen
      /\ th'[t].id = l.id /\ th'[t].mac = l.mac /\ th'[t].pc = "unlink"
  BY <1>0, <1>1, <1>2 DEF Local
<1>4. fe'[l.k] = None /\ \A k \in Tuples : k # l.k => fe'[k] = fe[k]
  BY <1>1 DEF Fe_Undo, FeWithout, Inv, TypeInv, DataOK
<1>5. Carries(c, l.k) /\ (conn[c] # None => conn[c] = l.k)
  BY <1>0, <1>1, OwnKey DEF KeyPcs
<1>6. /\ Post(t, c) /\ Post(t, c)' /\ Wrote(t, c) /\ ~Wrote(t, c)'
      /\ ~Cut(t, c) /\ ~Cut(t, c)' /\ ~Cutting(t, c) /\ ~Cutting(t, c)'
  BY <1>0, <1>1, <1>3 DEF Post, Wrote, Cut, Cutting, Destroyer, Late
<1>7. Over(c)' <=> Over(c)
  BY <1>2, <1>6, SameOver
<1>t. \A k \in Tuples : Mine(c, k)' => k # l.k /\ Mine(c, k)
  BY <1>4 DEF Mine
<1>8. ASSUME Over(c) PROVE OwnAt(c)'
  <2>1. After(c)
    BY <1>8 DEF Inv, LifeInv, OwnInv, OwnAt
  <2>2. After(c)'
    BY <1>2, <1>3, <1>6, <1>t, <2>1, AfterStep
  <2> QED BY <1>7, <1>8, <2>2 DEF OwnAt
<1>9. ASSUME ~Over(c) PROVE OwnAt(c)'
  <2>1. /\ Before(c) /\ rht[c] # None /\ rht[c].gen = l.gen /\ rht[c].id = l.id
        /\ rht[c].mac = l.mac /\ \A u \in Threads : Post(u, c) => u = t
    BY <1>6, <1>9, PostFacts
  <2>2. conn[c] = l.k
    BY <1>5, <1>9 DEF Over
  <2>3. \A k \in Tuples : ~Mine(c, k)'
    BY <1>t, <2>1, <2>2 DEF Before
  <2>4. \A u \in Threads : Post(u, c)' => u = t
    BY <1>2, <2>1, SameOthers
  <2>5. Before(c)'
    BY <1>2, <1>3, <1>6, <2>1, <2>3, <2>4 DEF Before
  <2> QED BY <1>7, <1>9, <2>5 DEF OwnAt
<1>10. NoNewStamps
  BY <1>0, <1>2, <1>3, KeepStamps DEF SameCall
<1>11. \A k \in Tuples : fe'[k] = fe[k] \/ (Carries(c, k) /\ (fe'[k] = None \/ fe'[k].owner = c))
  BY <1>4, <1>5
<1> QED BY <1>0, <1>1, <1>2, <1>3, <1>8, <1>9, <1>10, <1>11, PubLife

\* A call that undoes its publication takes its own flow off the table, or finds
\* that DESTROY did, or that the flow there is not its own.
LEMMA UnlinkLife ==
  ASSUME NEW t \in Threads, Inv, TypeInv', FormInv', Remove_Unlink(t), th[t].op # "destroy"
  PROVE  LifeInv'
<1> DEFINE l == th[t]
<1>0. PICK c \in Cookies : c = l.c
  BY CallFacts DEF Inv, TypeInv, Remove_Unlink, CookiePcs, Pcs
<1>1. l \in Local /\ l.pc = "unlink" /\ l.pc \notin RestPcs /\ l.op \in PubOps /\ l.gen # 0
  <2>1. l \in Local /\ l.pc = "unlink" /\ l.pc \notin RestPcs
    BY CallFacts DEF Inv, TypeInv, Remove_Unlink, RestPcs
  <2>2. l.op \in PubOps /\ Form(t, l)
    BY <2>1, OpFacts DEF Inv
  <2>3. c # None
    BY FlowAssumption
  <2> QED BY <1>0, <2>1, <2>2, <2>3 DEF Form
<1>2. UNCHANGED <<conn, dying, registry, fe, work, pending>>
  BY DEF Remove_Unlink
<1>3. Post(t, c) /\ ~Wrote(t, c) /\ ~Cut(t, c)
  BY <1>0, <1>1 DEF Post, Wrote, Cut, Destroyer, Late
<1>4. \A k \in Tuples : Mine(c, k)' => Mine(c, k)
  BY <1>2 DEF Mine
<1>5. CASE Absent(l) \/ Stale(l)
  <2>1. UNCHANGED rht /\ Step(t, NotRemoved(t))
    BY <1>5 DEF Remove_Unlink
  <2>2. NotRemoved(t) = Back(t)
    BY <1>1 DEF NotRemoved, PubOps, Local
  <2>3. /\ th'[t].c = None /\ Others(t) /\ th'[t].op # "destroy" /\ th'[t].pc # "claim"
        /\ ~Cut(t, c)'
    BY <1>1, <2>1, <2>2, ReturnFacts DEF Return
  <2>4. rht[c] = None \/ (rht[c] # None /\ rht[c].gen > l.gen)
    BY <1>0, <1>5 DEF Absent, Stale
  <2>5. l.gen \in Int /\ (rht[c] # None => rht[c].gen \in Int)
    BY <1>1, FlowAssumption DEF Local, Gens, Inv, TypeInv, DataOK, Flow
  <2>6. Over(c)
    BY <1>3, <2>4, <2>5, PostFacts
  <2>7. After(c)
    BY <2>6 DEF Inv, LifeInv, OwnInv, OwnAt
  <2>8. After(c)'
    BY <1>3, <1>4, <2>1, <2>3, <2>4, <2>5, <2>7, AfterStep
  <2>9. OwnAt(c)'
    BY <1>2, <1>3, <2>3, <2>6, <2>8, SameOver DEF OwnAt
  <2>10. NoNewStamps
    BY <1>2, <2>1, <2>3, KeepStamps
  <2> QED BY <1>0, <1>2, <2>1, <2>3, <2>9, <2>10, PubLife
<1>6. CASE ~(Absent(l) \/ Stale(l))
  <2> DEFINE m == [l EXCEPT !.pc = "release", !.hw = rht[l.c].hw, !.id = rht[l.c].id]
  <2>1. rht' = [rht EXCEPT ![c] = None] /\ Step(t, m)
    BY <1>0, <1>6 DEF Remove_Unlink
  <2>2. /\ th'[t].c = c /\ th'[t].op = l.op /\ th'[t].k = l.k /\ th'[t].gen = l.gen
        /\ th'[t].pc = "release" /\ Others(t)
    <3>1. th'[t] = m /\ Others(t)
      BY <2>1, StepFacts DEF Inv
    <3> QED BY <1>0, <1>1, <3>1 DEF Local
  <2>3. rht'[c] = None /\ \A d \in Cookies : d # c => rht'[d] = rht[d]
    BY <2>1 DEF Inv, TypeInv, DataOK
  <2>4. ~Post(t, c)' /\ ~Wrote(t, c)' /\ ~Cut(t, c)'
    BY <1>1, <2>2 DEF Post, Wrote, Cut, Destroyer, Late, PubOps
  <2>5. Over(c)' <=> Over(c)
    BY <1>2, <1>3, <2>2, <2>4, SameOver
  <2>6. ASSUME Over(c) PROVE OwnAt(c)'
    <3>1. After(c)
      BY <2>6 DEF Inv, LifeInv, OwnInv, OwnAt
    <3>2. After(c)'
      BY <1>3, <1>4, <2>2, <2>3, <3>1, AfterStep
    <3> QED BY <2>5, <2>6, <3>2 DEF OwnAt
  <2>7. ASSUME ~Over(c) PROVE OwnAt(c)'
    <3>1. Before(c) /\ \A u \in Threads : Post(u, c) => u = t
      BY <1>3, <2>7, PostFacts
    <3>2. \A k \in Tuples : ~Mine(c, k)'
      BY <1>3, <1>4, <3>1 DEF Before
    <3>3. \A u \in Threads : ~Post(u, c)'
      BY <2>2, <2>4, <3>1, SameOthers
    <3>4. Before(c)'
      BY <2>3, <3>2, <3>3 DEF Before
    <3> QED BY <2>5, <2>7, <3>4 DEF OwnAt
  <2>8. OwnAt(c)'
    BY <2>6, <2>7
  <2>9. NoNewStamps
    <3>1. \A d \in Cookies : rht'[d] \in {rht[d], None}
      BY <2>3
    <3> QED BY <1>0, <1>2, <2>2, <3>1, KeepStamps DEF SameCall
  <2> QED BY <1>0, <1>2, <2>2, <2>3, <2>8, <2>9, PubLife
<1> QED BY <1>5, <1>6

\* The release after the undo is not about the flow any more.
LEMMA ReleaseAside ==
  ASSUME NEW t \in Threads, Inv, Remove_Release(t), th[t].op # "destroy" PROVE Aside(t)
<1> DEFINE l == th[t]
<1>1. l \in Local /\ l.pc = "release" /\ l.pc \notin RestPcs
  BY CallFacts DEF Inv, TypeInv, Remove_Release, RestPcs
<1>2. l.op \in PubOps
  BY <1>1, OpFacts DEF Inv
<1>3. Removed(t) = Back(t)
  BY <1>1, <1>2 DEF Removed, PubOps, Local
<1>4. Return(t) /\ UNCHANGED <<conn, dying, registry, rht, fe, work, pending>>
  BY <1>3 DEF Remove_Release, Return, env
<1>5. Plain(l)
  BY <1>1 DEF Plain, Late
<1> QED BY <1>1, <1>4, <1>5, CallAside DEF Inv

-----------------------------------------------------------------------------
(* The steps of DESTROY.                                                   *)

\* What a DESTROY knows of its cookie.
LEMMA DestroyFacts ==
  ASSUME NEW t \in Threads, Inv, th[t].op = "destroy"
  PROVE  /\ th[t] \in Local /\ th[t].c \in Cookies /\ th[t].pc \in DestroyPcs /\ t \in Nft
         /\ Destroyer(t, th[t].c) /\ th[t].pc \notin RestPcs /\ conn[th[t].c] # None
         /\ \A u \in Threads : Destroyer(u, th[t].c) => u = t
         /\ th[t].old \in Tuples => Carries(th[t].c, th[t].old) /\ conn[th[t].c] = th[t].old
<1>1. th[t].pc \in DestroyPcs /\ t \in Nft
  BY DEF Inv, FormInv, Form, Site
<1>2. th[t] \in Local /\ th[t].c \in Cookies /\ th[t].pc \notin RestPcs
  BY <1>1, CallFacts DEF Inv, TypeInv, DestroyPcs, CookiePcs, Pcs, RestPcs
<1>3. Destroyer(t, th[t].c)
  BY DEF Destroyer
<1>4. conn[th[t].c] # None /\ \A u \in Threads : Destroyer(u, th[t].c) => u = t
  BY <1>2, <1>3 DEF Inv, LifeInv, CallbackInv
<1>5. th[t].old \in Tuples => Carries(th[t].c, th[t].old)
  BY DEF Carries
<1>6. th[t].old \in Tuples => conn[th[t].c] = th[t].old
  BY <1>2, <1>4, <1>5 DEF Inv, LifeInv, KeyInv
<1> QED BY <1>1, <1>2, <1>3, <1>4, <1>5, <1>6

\* A DESTROY that goes on disturbs at most what OwnInv says of its own cookie.
LEMMA DestroyLife ==
  ASSUME NEW t \in Threads, NEW c \in Cookies, Inv, TypeInv', FormInv', Others(t), NoNewStamps,
         UNCHANGED <<conn, dying, registry>>, Destroyer(t, c), Destroyer(t, c)',
         th[t].pc # "tomb", th'[t].gen = th[t].gen, th'[t].pc # "claim",
         \A k \in Tuples : th'[t].old = k => Carries(c, k),
         \A d \in Cookies : d # c => rht'[d] = rht[d],
         \A k \in Tuples : fe'[k] = fe[k] \/ (Carries(c, k) /\ (fe'[k] = None \/ fe'[k].owner = c)),
         OwnAt(c)'
  PROVE  LifeInv'
<1>1. \A u \in Threads, d \in Cookies : Destroyer(u, d)' =>
        /\ Destroyer(u, d) /\ th'[u].gen = th[u].gen
        /\ u # t => th'[u] = th[u]
        /\ u = t => d = c
  BY DEF Others, Destroyer
<1>2. CallbackInv'
  <2>1. \A u \in Threads : th'[u].pc = "claim" => th'[u] = th[u]
    BY DEF Others
  <2> QED BY <1>1, <2>1, CallbackFrame DEF Inv, LifeInv
<1>3. StampInv'
  BY <1>1, StampFrame DEF Inv, LifeInv
<1>4. KeyInv'
  <2>1. \A u \in Threads, d \in Cookies, k \in Tuples :
          Destroyer(u, d)' /\ th'[u].old = k => Carries(d, k)
    BY <1>1 DEF Carries, Destroyer
  <2> QED BY <2>1, KeyFrame, StampsKeys DEF Inv, LifeInv
<1>5. \A d \in Cookies : d # c => OwnAt(d)'
  BY OwnElsewhere DEF Inv, LifeInv, Destroyer
<1>6. OwnInv'
  BY <1>5 DEF OwnInv
<1> QED BY <1>2, <1>3, <1>4, <1>6 DEF LifeInv

\* A DESTROY that has not unlinked the flow is the only one, so nothing is over.
LEMMA NotOver ==
  ASSUME NEW t \in Threads, NEW c \in Cookies, Inv, Destroyer(t, c),
         th[t].pc \notin {"release", "fedel", "forget"}
  PROVE  ~Over(c) /\ Before(c) /\ \A u \in Threads : ~Cut(u, c)
<1>1. conn[c] # None /\ \A u \in Threads : Destroyer(u, c) => u = t
  BY DEF Inv, LifeInv, CallbackInv
<1>2. \A u \in Threads : ~Cut(u, c)
  BY <1>1 DEF Cut
<1>3. ~Over(c)
  BY <1>1, <1>2 DEF Over
<1> QED BY <1>2, <1>3 DEF Inv, LifeInv, OwnInv, OwnAt

\* Dropping the parked entries touches nothing else.
LEMMA DropLife ==
  ASSUME NEW t \in Threads, Inv, TypeInv', FormInv', Destroy_DropPending(t) PROVE LifeInv'
<1> DEFINE l == th[t]
<1>1. l.pc = "drop" /\ l.op = "destroy"
  BY DEF Destroy_DropPending, Inv, TypeInv, ThreadsOK, CallOK
<1>0. PICK c \in Cookies : c = l.c
  BY <1>1, DestroyFacts
<1>2. /\ th'[t] = [l EXCEPT !.pc = "lookup"] /\ Others(t)
      /\ UNCHANGED <<conn, dying, registry, rht, fe, work>> /\ pending' \subseteq pending
  BY StepFacts DEF Destroy_DropPending, Goto, Inv, env
<1>3. /\ th'[t].c = c /\ th'[t].op = "destroy" /\ th'[t].gen = l.gen /\ th'[t].old = l.old
      /\ th'[t].pc = "lookup"
  BY <1>0, <1>1, <1>2, DestroyFacts DEF Local
<1>4. Destroyer(t, c) /\ Destroyer(t, c)' /\ \A k \in Tuples : th'[t].old = k => Carries(c, k)
  BY <1>0, <1>1, <1>3, DestroyFacts DEF Destroyer
<1>5. NoNewStamps
  BY <1>2, <1>3 DEF NoNewStamps, Stamped, Others, PubOps
<1>6. SameDuty(c)
  <2>1. /\ ~Post(t, c) /\ ~Wrote(t, c) /\ ~Cutting(t, c) /\ ~Cut(t, c)
        /\ ~Post(t, c)' /\ ~Wrote(t, c)' /\ ~Cutting(t, c)' /\ ~Cut(t, c)'
    BY <1>1, <1>3 DEF Post, Wrote, Cutting, Cut, PubOps
  <2>2. \A u \in Threads : Post(u, c) /\ th[u].pc = "feadd" /\ ~Over(c) => th[u].sink = conn[c]
    BY DEF Inv, LifeInv, OwnInv, OwnAt, Before
  <2> QED BY <1>2, <2>1, <2>2, SameOthers DEF SameDuty
<1>7. OwnAt(c)'
  BY <1>2, <1>6, OwnFrame DEF Inv, LifeInv, Mine, Exact
<1> QED BY <1>1, <1>2, <1>3, <1>4, <1>5, <1>7, DestroyLife

\* DESTROY keeps the key of the flow it is going to unlink, if there is one.
LEMMA LookupLife ==
  ASSUME NEW t \in Threads, Inv, TypeInv', FormInv', Destroy_Lookup(t) PROVE LifeInv'
<1> DEFINE l == th[t]
           o == IF rht[l.c] = None THEN None ELSE rht[l.c].k
<1>1. l.pc = "lookup" /\ l.op = "destroy"
  BY DEF Destroy_Lookup, Inv, TypeInv, ThreadsOK, CallOK
<1>0. PICK c \in Cookies : c = l.c
  BY <1>1, DestroyFacts
<1>2. /\ th'[t] = [l EXCEPT !.pc = "unlink", !.old = o] /\ Others(t)
      /\ UNCHANGED <<conn, dying, registry, rht, fe, work, pending>>
  BY StepFacts DEF Destroy_Lookup, Inv, env
<1>3. /\ th'[t].c = c /\ th'[t].op = "destroy" /\ th'[t].gen = l.gen /\ th'[t].old = o
      /\ th'[t].pc = "unlink"
  BY <1>0, <1>1, <1>2, DestroyFacts DEF Local
<1>4. Destroyer(t, c) /\ Destroyer(t, c)'
  BY <1>0, <1>1, <1>3 DEF Destroyer
<1>5. NoNewStamps
  BY <1>2, <1>3, KeepStamps DEF PubOps
<1>6. rht[c] # None => o = rht[c].k /\ o \in Tuples /\ o # None
  BY <1>0, FlowAssumption DEF Inv, TypeInv, DataOK, Flow
<1>7. \A k \in Tuples : th'[t].old = k => Carries(c, k)
  BY <1>0, <1>3, <1>6, FlowAssumption DEF Carries
<1>8. Before(c) /\ ~Over(c) /\ ~Over(c)'
  BY <1>1, <1>2, <1>3, <1>4, NotOver, SameOver DEF Cut
<1>9. Before(c)'
  <2>1. ~Post(t, c) /\ ~Wrote(t, c) /\ ~Post(t, c)' /\ ~Wrote(t, c)'
    BY <1>1, <1>3 DEF Post, Wrote, PubOps
  <2>2. \A u \in Threads : /\ Post(u, c)' <=> Post(u, c)
                           /\ Wrote(u, c)' <=> Wrote(u, c)
                           /\ Post(u, c) => th'[u] = th[u]
                           /\ u # t => (Cutting(u, c)' <=> Cutting(u, c)) /\ th'[u] = th[u]
    BY <1>2, <2>1, SameOthers
  <2>3. \A k \in Tuples : Mine(c, k)' <=> Mine(c, k)
    BY <1>2 DEF Mine
  <2>4. Exact(c, conn[c])' <=> Exact(c, conn[c])
    BY <1>2 DEF Exact
  <2>5. \A u \in Threads : Cutting(u, c)' /\ th'[u].old = None /\ rht'[c] # None =>
          \E v \in Threads : Post(v, c)'
    BY <1>2, <1>3, <1>6, <1>8, <2>2 DEF Before
  <2> QED BY <1>2, <1>8, <2>2, <2>3, <2>4, <2>5 DEF Before
<1> QED BY <1>1, <1>2, <1>3, <1>4, <1>5, <1>7, <1>8, <1>9, DestroyLife DEF OwnAt

\* The unlink.  The flow is never newer than the DESTROY; what is left of it, a
\* record, is deleted by the DESTROY itself or by the call that wrote it.
LEMMA CutLife ==
  ASSUME NEW t \in Threads, Inv, TypeInv', FormInv', Remove_Unlink(t), th[t].op = "destroy"
  PROVE  LifeInv'
<1> DEFINE l == th[t]
<1>0. PICK c \in Cookies : c = l.c
  BY DestroyFacts
<1>1. l \in Local /\ l.pc = "unlink" /\ Destroyer(t, c)
  BY <1>0, DestroyFacts DEF Remove_Unlink
<1>2. ~Over(c) /\ Before(c)
  BY <1>1, NotOver
<1>3. conn[c] # None /\ l.gen = registry[c].gen /\ l.gen \in Int
  BY <1>0, <1>1, DestroyFacts, FlowAssumption DEF Inv, LifeInv, StampInv, Local, Gens
<1>4. ~Stale(l)
  <2>1. SUFFICES ASSUME rht[c] # None PROVE ~(rht[c].gen > l.gen)
    BY <1>0 DEF Stale
  <2>2. rht[c].k \in Tuples /\ rht[c].gen \in Gens /\ rht[c].gen \in Int
    BY <2>1, FlowAssumption DEF Inv, TypeInv, DataOK, Flow, Gens
  <2>3. Stamped(c, rht[c].k, rht[c].gen)
    BY <2>1 DEF Stamped
  <2>4. rht[c].gen <= registry[c].gen
    BY <1>3, <2>2, <2>3 DEF Inv, LifeInv, StampInv
  <2> QED BY <1>3, <2>2, <2>4
<1>5. UNCHANGED <<conn, dying, registry, fe, work, pending>>
  BY <1>4 DEF Remove_Unlink
<1>6. \A k \in Tuples : Mine(c, k)' => Mine(c, k)
  BY <1>5 DEF Mine
<1>7. CASE Absent(l)
  <2>1. UNCHANGED rht /\ Step(t, [l EXCEPT !.pc = "forget"]) /\ rht[c] = None
    BY <1>0, <1>7 DEF Remove_Unlink, NotRemoved, Absent
  <2>2. th'[t] = [l EXCEPT !.pc = "forget"] /\ Others(t)
    BY <2>1, StepFacts DEF Inv
  <2>3. /\ th'[t].c = c /\ th'[t].op = "destroy" /\ th'[t].gen = l.gen /\ th'[t].old = l.old
        /\ th'[t].pc = "forget"
    BY <1>0, <1>1, <2>2 DEF Local
  <2>4. Destroyer(t, c)' /\ Cut(t, c)' /\ \A k \in Tuples : th'[t].old = k => Carries(c, k)
    BY <1>0, <2>3, DestroyFacts DEF Destroyer, Cut
  <2>5. After(c)'
    BY <1>2, <1>6, <2>1 DEF Before, After
  <2>6. OwnAt(c)'
    BY <2>4, <2>5 DEF OwnAt, Over
  <2>7. NoNewStamps
    BY <1>5, <2>1, <2>2, <2>3, KeepStamps DEF PubOps
  <2> QED BY <1>1, <1>5, <2>1, <2>2, <2>3, <2>4, <2>6, <2>7, DestroyLife
<1>8. CASE ~Absent(l)
  <2> DEFINE m == [l EXCEPT !.pc = "release", !.hw = rht[l.c].hw, !.id = rht[l.c].id]
  <2>1. rht' = [rht EXCEPT ![c] = None] /\ Step(t, m)
    BY <1>0, <1>4, <1>8 DEF Remove_Unlink
  <2>2. th'[t] = m /\ Others(t)
    BY <2>1, StepFacts DEF Inv
  <2>3. /\ th'[t].c = c /\ th'[t].op = "destroy" /\ th'[t].gen = l.gen /\ th'[t].old = l.old
        /\ th'[t].pc = "release"
    BY <1>0, <1>1, <2>2 DEF Local
  <2>4. rht'[c] = None /\ \A d \in Cookies : d # c => rht'[d] = rht[d]
    BY <2>1 DEF Inv, TypeInv, DataOK
  <2>5. Destroyer(t, c)' /\ Cut(t, c)' /\ \A k \in Tuples : th'[t].old = k => Carries(c, k)
    BY <1>0, <2>3, DestroyFacts DEF Destroyer, Cut
  <2>6. ASSUME NEW k \in Tuples, Mine(c, k)'
        PROVE  \/ \E u \in Threads : Wrote(u, c)' /\ th'[u].k = k
               \/ \E u \in Threads : Cut(u, c)' /\ th'[u].pc # "forget" /\ th'[u].old = k
    <3>1. Mine(c, k) /\ k = conn[c] /\ rht[c] # None
      BY <1>2, <1>6, <2>6 DEF Before
    <3>2. CASE l.old # None
      <4>1. l.old = k
        BY <1>0, <1>1, <3>1, <3>2, DestroyFacts DEF Local
      <4> QED BY <2>3, <2>5, <4>1
    <3>3. CASE l.old = None
      <4>1. Cutting(t, c)
        BY <1>1 DEF Cutting
      <4>2. PICK u \in Threads : Post(u, c)
        BY <1>2, <3>1, <3>3, <4>1 DEF Before
      <4>3. Wrote(u, c)
        BY <1>2, <3>1, <4>2 DEF Before
      <4>4. th[u].k = k
        <5>1. th[u].pc \in KeyPcs /\ th[u].c = c
          BY <4>3 DEF Wrote, KeyPcs
        <5> QED BY <1>3, <3>1, <5>1, OwnKey
      <4>5. u # t
        BY <4>2 DEF Post, PubOps
      <4> QED BY <2>2, <4>3, <4>4, <4>5, SameOthers
    <3> QED BY <3>2, <3>3
  <2>7. After(c)'
    BY <2>4, <2>6 DEF After
  <2>8. OwnAt(c)'
    BY <2>5, <2>7 DEF OwnAt, Over
  <2>9. NoNewStamps
    <3>1. \A d \in Cookies : rht'[d] \in {rht[d], None}
      BY <2>4
    <3> QED BY <1>5, <2>2, <2>3, <3>1, KeepStamps DEF PubOps
  <2> QED BY <1>1, <1>5, <2>2, <2>3, <2>4, <2>5, <2>8, <2>9, DestroyLife
<1> QED BY <1>7, <1>8

\* After its unlink DESTROY goes on to delete the record it has a key for.
LEMMA ReleaseLife ==
  ASSUME NEW t \in Threads, Inv, TypeInv', FormInv', Remove_Release(t), th[t].op = "destroy"
  PROVE  LifeInv'
<1> DEFINE l == th[t]
           p == IF l.old # None THEN "fedel" ELSE "forget"
<1>0. PICK c \in Cookies : c = l.c
  BY DestroyFacts
<1>1. l \in Local /\ l.pc = "release" /\ Destroyer(t, c)
  BY <1>0, DestroyFacts DEF Remove_Release
<1>2. Removed(t) = [l EXCEPT !.hw = FALSE, !.id = 0, !.pc = p]
  BY <1>1 DEF Removed, Local
<1>3. th'[t] = Removed(t) /\ Others(t) /\ UNCHANGED <<conn, dying, registry, rht, fe, work, pending>>
  BY StepFacts DEF Remove_Release, Inv, env
<1>4. /\ th'[t].c = c /\ th'[t].op = "destroy" /\ th'[t].gen = l.gen /\ th'[t].old = l.old
      /\ th'[t].pc = p
  BY <1>0, <1>1, <1>2, <1>3 DEF Local
<1>5. Destroyer(t, c)' /\ \A k \in Tuples : th'[t].old = k => Carries(c, k)
  BY <1>0, <1>4, DestroyFacts DEF Destroyer
<1>6. Cut(t, c) /\ Cut(t, c)'
  BY <1>1, <1>4, <1>5 DEF Cut
<1>7. After(c)
  BY <1>6 DEF Inv, LifeInv, OwnInv, OwnAt, Over
<1>8. After(c)'
  <2>1. ~Post(t, c) /\ ~Wrote(t, c)
    BY DEF Post, Wrote, PubOps
  <2>2. \A k \in Tuples : Mine(c, k)' => Mine(c, k)
    BY <1>3 DEF Mine
  <2>3. \A k \in Tuples : l.old = k => th'[t].pc # "forget"
    BY <1>4, FlowAssumption
  <2> QED BY <1>3, <1>4, <1>6, <1>7, <2>1, <2>2, <2>3, AfterStep
<1>9. OwnAt(c)'
  BY <1>6, <1>8 DEF OwnAt, Over
<1>10. NoNewStamps
  BY <1>3, <1>4, KeepStamps DEF PubOps
<1> QED BY <1>1, <1>3, <1>4, <1>5, <1>9, <1>10, DestroyLife

\* The delete of the record; only DESTROY comes here.
LEMMA DeleteLife ==
  ASSUME NEW t \in Threads, Inv, TypeInv', FormInv', Fe_Delete(t) PROVE LifeInv'
<1> DEFINE l == th[t]
<1>1. l.pc = "fedel" /\ l.op = "destroy"
  BY DEF Fe_Delete, Inv, FormInv, Form, Site, InsertPcs, ReplacePcs, ReplayPcs
<1>0. PICK c \in Cookies : c = l.c
  BY <1>1, DestroyFacts
<1>2. l \in Local /\ Destroyer(t, c)
  BY <1>0, <1>1, DestroyFacts
<1>3. /\ th'[t] = [l EXCEPT !.pc = "forget"] /\ Others(t)
      /\ UNCHANGED <<conn, dying, registry, rht, work, pending>>
  BY <1>1, StepFacts DEF Fe_Delete, Goto, Inv, env
<1>4. /\ th'[t].c = c /\ th'[t].op = "destroy" /\ th'[t].gen = l.gen /\ th'[t].old = l.old
      /\ th'[t].pc = "forget"
  BY <1>0, <1>1, <1>2, <1>3 DEF Local
<1>5. Destroyer(t, c)' /\ \A k \in Tuples : l.old = k => Carries(c, k)
  BY <1>0, <1>1, <1>4, DestroyFacts DEF Destroyer
<1>6. \A k \in Tuples : IF k = l.old THEN fe'[k] = None ELSE fe'[k] = fe[k]
  BY DEF Fe_Delete, FeWithout, Inv, TypeInv, DataOK
<1>7. Cut(t, c) /\ Cut(t, c)'
  BY <1>1, <1>2, <1>4, <1>5 DEF Cut
<1>8. After(c)
  BY <1>7 DEF Inv, LifeInv, OwnInv, OwnAt, Over
<1>9. After(c)'
  <2>1. ~Post(t, c) /\ ~Wrote(t, c)
    BY <1>1 DEF Post, Wrote, PubOps
  <2>2. \A k \in Tuples : Mine(c, k)' => Mine(c, k) /\ k # l.old
    BY <1>6 DEF Mine
  <2> QED BY <1>3, <1>8, <2>1, <2>2, AfterStep
<1>10. OwnAt(c)'
  BY <1>7, <1>9 DEF OwnAt, Over
<1>11. NoNewStamps
  BY <1>3, <1>4, KeepStamps DEF PubOps
<1>12. \A k \in Tuples : fe'[k] = fe[k] \/ (Carries(c, k) /\ (fe'[k] = None \/ fe'[k].owner = c))
  BY <1>5, <1>6
<1> QED BY <1>1, <1>2, <1>3, <1>4, <1>5, <1>10, <1>11, <1>12, DestroyLife

\* Steps that leave the table, the records and everybody's duties alone.
LEMMA SameOwn ==
  ASSUME NEW t \in Threads, Inv, Others(t), UNCHANGED <<conn, rht, fe>>,
         \A c \in Cookies :
           /\ ~Post(t, c) /\ ~Wrote(t, c) /\ ~Cutting(t, c) /\ ~Cut(t, c)
           /\ ~Post(t, c)' /\ ~Wrote(t, c)' /\ ~Cutting(t, c)' /\ ~Cut(t, c)'
  PROVE  OwnInv'
<1>1. \A c \in Cookies : SameDuty(c)
  <2> SUFFICES ASSUME NEW c \in Cookies PROVE SameDuty(c)
    OBVIOUS
  <2>1. \A u \in Threads : Post(u, c) /\ th[u].pc = "feadd" /\ ~Over(c) => th[u].sink = conn[c]
    BY DEF Inv, LifeInv, OwnInv, OwnAt, Before
  <2> QED BY <2>1, SameOthers DEF SameDuty
<1>2. \A c \in Cookies : OwnAt(c)'
  BY <1>1, OwnFrame DEF Inv, LifeInv, Mine, Exact
<1> QED BY <1>2 DEF OwnInv

\* The tombstone: from now on nobody is the owner.
LEMMA TombstoneLife ==
  ASSUME NEW t \in Threads, Inv, TypeInv', FormInv', Destroy_Tombstone(t) PROVE LifeInv'
<1> DEFINE l == th[t]
<1>1. l.pc = "tomb" /\ l.op = "destroy"
  BY DEF Destroy_Tombstone, Inv, TypeInv, ThreadsOK, CallOK
<1>0. PICK c \in Cookies : c = l.c
  BY <1>1, DestroyFacts
<1>2. l \in Local /\ Destroyer(t, c) /\ conn[c] # None
  BY <1>0, <1>1, DestroyFacts
<1>3. /\ th'[t] = [l EXCEPT !.pc = "drop"] /\ Others(t)
      /\ UNCHANGED <<conn, dying, rht, fe, work, pending>>
  BY StepFacts DEF Destroy_Tombstone, Goto, Inv, env
<1>4. /\ th'[t].c = c /\ th'[t].op = "destroy" /\ th'[t].gen = l.gen /\ th'[t].old = l.old
      /\ th'[t].pc = "drop"
  BY <1>0, <1>1, <1>2, <1>3 DEF Local
<1>5. /\ registry'[c].gen = registry[c].gen /\ registry'[c].st = "tomb"
      /\ \A d \in Cookies : d # c => registry'[d] = registry[d]
  BY <1>0 DEF Destroy_Tombstone, GenTombstone, Inv, TypeInv, DataOK
<1>6. \A u \in Threads, d \in Cookies : Destroyer(u, d)' =>
        /\ Destroyer(u, d) /\ th'[u].gen = th[u].gen
        /\ u = t => d = c
        /\ th'[u].old = th[u].old
        /\ u # t => th'[u] = th[u]
  <2> SUFFICES ASSUME NEW u \in Threads, NEW d \in Cookies, Destroyer(u, d)'
               PROVE  /\ Destroyer(u, d) /\ th'[u].gen = th[u].gen
                      /\ u = t => d = c
                      /\ th'[u].old = th[u].old
                      /\ u # t => th'[u] = th[u]
    OBVIOUS
  <2>1. CASE u = t
    BY <1>0, <1>1, <1>4, <2>1 DEF Destroyer
  <2>2. CASE u # t
    BY <1>3, <2>2 DEF Others, Destroyer
  <2> QED BY <2>1, <2>2
<1>7. CallbackInv'
  <2>1. \A u \in Threads : th'[u].pc = "claim" => th'[u] = th[u]
    BY <1>3, <1>4 DEF Others
  <2> QED BY <1>3, <1>6, <2>1, CallbackFrame DEF Inv, LifeInv
<1>8. NoNewStamps
  BY <1>3, <1>4, KeepStamps DEF PubOps
<1>9. StampInv'
  <2>1. \A d \in Cookies : registry'[d].gen = registry[d].gen
    BY <1>5
  <2>2. \A d \in Cookies : conn'[d] = None => registry'[d] = NoEntry
    BY <1>2, <1>3, <1>5 DEF Inv, LifeInv, StampInv
  <2>3. \A d \in Cookies, k \in Tuples, g \in Gens :
          Stamped(d, k, g)' /\ conn'[d] # None => g <= registry'[d].gen
    BY <1>3, <1>8, <2>1 DEF NoNewStamps, Inv, LifeInv, StampInv
  <2>4. \A u \in Threads, d \in Cookies : Destroyer(u, d)' =>
          th'[u].gen = registry'[d].gen /\ (th'[u].pc # "tomb" => registry'[d].st = "tomb")
    BY <1>5, <1>6, <2>1 DEF Inv, LifeInv, StampInv
  <2> QED BY <2>2, <2>3, <2>4 DEF StampInv
<1>10. KeyInv'
  <2>1. \A u \in Threads, d \in Cookies, k \in Tuples :
          Destroyer(u, d)' /\ th'[u].old = k => Carries(d, k)
    BY <1>6 DEF Carries, Destroyer
  <2> QED BY <1>3, <1>8, <2>1, KeyFrame, StampsKeys DEF Inv, LifeInv
<1>11. OwnInv'
  <2>1. \A d \in Cookies :
           /\ ~Post(t, d) /\ ~Wrote(t, d) /\ ~Cutting(t, d) /\ ~Cut(t, d)
           /\ ~Post(t, d)' /\ ~Wrote(t, d)' /\ ~Cutting(t, d)' /\ ~Cut(t, d)'
    BY <1>1, <1>4 DEF Post, Wrote, Cutting, Cut, PubOps
  <2> QED BY <1>3, <2>1, SameOwn
<1> QED BY <1>7, <1>9, <1>10, <1>11 DEF LifeInv

\* The end of DESTROY: nf_flow_table frees the address, and what is still in
\* flight for it removes what it left.
LEMMA ForgetLife ==
  ASSUME NEW t \in Threads, Inv, TypeInv', FormInv', Destroy_Forget(t) PROVE LifeInv'
<1> DEFINE l == th[t]
<1>1. l.pc = "forget" /\ l.op = "destroy"
  BY DEF Destroy_Forget, Inv, TypeInv, ThreadsOK, CallOK
<1>0. PICK c \in Cookies : c = l.c
  BY <1>1, DestroyFacts
<1>2. /\ l \in Local /\ Destroyer(t, c) /\ conn[c] # None /\ l.pc \notin RestPcs
      /\ \A u \in Threads : Destroyer(u, c) => u = t
  BY <1>0, <1>1, DestroyFacts
<1>3. /\ Return(t) /\ UNCHANGED <<rht, fe, work, pending>>
      /\ conn' = [conn EXCEPT ![c] = None] /\ dying' = dying \ {c}
      /\ registry' = [registry EXCEPT ![c] = NoEntry]
  BY <1>0 DEF Destroy_Forget, Reap, GenRelease
<1>4. /\ th'[t].c = None /\ Others(t) /\ th'[t].op # "destroy" /\ th'[t].pc # "claim"
      /\ ~Post(t, c)' /\ ~Wrote(t, c)' /\ ~Cutting(t, c)' /\ ~Cut(t, c)'
  BY <1>2, <1>3, ReturnFacts
<1>5. /\ conn'[c] = None /\ registry'[c] = NoEntry
      /\ \A d \in Cookies : d # c => conn'[d] = conn[d] /\ registry'[d] = registry[d]
  BY <1>3 DEF Inv, TypeInv, DataOK
<1>6. \A u \in Threads, d \in Cookies :
        Destroyer(u, d)' => u # t /\ d # c /\ th'[u] = th[u] /\ Destroyer(u, d)
  BY <1>2, <1>4 DEF Others, Destroyer
<1>7. CallbackInv'
  <2>1. \A d \in dying' : conn'[d] # None
    BY <1>3, <1>5 DEF Inv, LifeInv, CallbackInv, TypeInv, DataOK
  <2>2. \A u \in Threads : th'[u].pc = "claim" => conn'[th'[u].c] # None
    <3> SUFFICES ASSUME NEW u \in Threads, th'[u].pc = "claim" PROVE conn'[th'[u].c] # None
      OBVIOUS
    <3>1. u # t /\ th'[u] = th[u]
      BY <1>4 DEF Others
    <3>2. th[u].c \in Cookies /\ conn[th[u].c] # None /\ th[u].c # c
      BY <1>2, <3>1, KeyFacts DEF Inv, LifeInv, CallbackInv, KeyPcs
    <3> QED BY <1>5, <3>1, <3>2
  <2>3. \A u, v \in Threads, d \in Cookies : Destroyer(u, d)' =>
          /\ conn'[d] # None
          /\ th'[v].c = d => th'[v].pc # "claim"
          /\ Destroyer(v, d)' => v = u
    <3> SUFFICES ASSUME NEW u \in Threads, NEW v \in Threads, NEW d \in Cookies, Destroyer(u, d)'
                 PROVE  /\ conn'[d] # None
                        /\ th'[v].c = d => th'[v].pc # "claim"
                        /\ Destroyer(v, d)' => v = u
      OBVIOUS
    <3>1. d # c /\ Destroyer(u, d)
      BY <1>6
    <3>2. conn'[d] # None
      BY <1>5, <3>1 DEF Inv, LifeInv, CallbackInv
    <3>3. th'[v].c = d => th'[v].pc # "claim"
      BY <1>4, <3>1 DEF Inv, LifeInv, CallbackInv, Others
    <3>4. Destroyer(v, d)' => v = u
      BY <1>6, <3>1 DEF Inv, LifeInv, CallbackInv
    <3> QED BY <3>2, <3>3, <3>4
  <2> QED BY <2>1, <2>2, <2>3 DEF CallbackInv
<1>8. NoNewStamps
  BY <1>3, <1>4, KeepStamps
<1>9. StampInv'
  <2>1. \A d \in Cookies : conn'[d] = None => registry'[d] = NoEntry
    BY <1>5 DEF Inv, LifeInv, StampInv
  <2>2. \A d \in Cookies, k \in Tuples, g \in Gens :
          Stamped(d, k, g)' /\ conn'[d] # None => g <= registry'[d].gen
    BY <1>5, <1>8 DEF NoNewStamps, Inv, LifeInv, StampInv
  <2>3. \A u \in Threads, d \in Cookies : Destroyer(u, d)' =>
          th'[u].gen = registry'[d].gen /\ (th'[u].pc # "tomb" => registry'[d].st = "tomb")
    BY <1>5, <1>6 DEF Inv, LifeInv, StampInv
  <2> QED BY <2>1, <2>2, <2>3 DEF StampInv
<1>10. KeyInv'
  <2>1. \A u \in Threads, d \in Cookies, k \in Tuples :
          Destroyer(u, d)' /\ th'[u].old = k => Carries(d, k)
    BY <1>6 DEF Carries, Destroyer
  <2>2. \A d \in Cookies : conn'[d] = conn[d] \/ conn'[d] = None
    BY <1>5
  <2> QED BY <1>8, <2>1, <2>2, KeyFrame, StampsKeys DEF Inv, LifeInv
<1>11. OwnAt(c)'
  <2>1. Cut(t, c) /\ ~Post(t, c) /\ ~Wrote(t, c)
    BY <1>1, <1>2 DEF Cut, Post, Wrote, PubOps
  <2>2. After(c)
    BY <2>1 DEF Inv, LifeInv, OwnInv, OwnAt, Over
  <2>3. \A k \in Tuples : Mine(c, k)' => Mine(c, k)
    BY <1>3 DEF Mine
  <2>4. After(c)'
    BY <1>1, <1>3, <1>4, <2>1, <2>2, <2>3, AfterStep
  <2> QED BY <1>5, <2>4 DEF OwnAt, Over
<1>12. \A d \in Cookies : d # c => OwnAt(d)'
  BY <1>0, <1>3, <1>4, <1>5, OwnElsewhere DEF Inv, LifeInv
<1>13. OwnInv'
  BY <1>11, <1>12 DEF OwnInv
<1> QED BY <1>7, <1>9, <1>10, <1>13 DEF LifeInv

-----------------------------------------------------------------------------
(* The start of a callback and the claim of REPLACE.                       *)

\* A thread that is idle has nothing to do with any cookie.
LEMMA IdleFacts ==
  ASSUME NEW t \in Threads, Inv, th[t].pc = "idle"
  PROVE  /\ th[t].c = None /\ th[t].op = "none"
         /\ \A c : ~Post(t, c) /\ ~Wrote(t, c) /\ ~Cutting(t, c) /\ ~Cut(t, c) /\ ~Destroyer(t, c)
<1>1. Form(t, th[t])
  BY DEF Inv, FormInv
<1>2. th[t].c = None /\ th[t].op = "none"
  BY <1>1 DEF Form, Site, RestPcs, InsertPcs, ReplacePcs, ReplayPcs, DestroyPcs
<1> QED BY <1>2 DEF Post, Wrote, Cutting, Cut, Destroyer, PubOps

\* A call of a callback is an nft thread's.
LEMMA NftCalls ==
  ASSUME NEW u \in Threads, NEW c, Inv,
         Destroyer(u, c) \/ (th[u].c = c /\ th[u].pc = "claim")
  PROVE  u \in InCallback(c)
<1>1. Form(u, th[u]) /\ th[u].c = c
  BY DEF Inv, FormInv, Destroyer
<1>2. u \in Nft
  BY <1>1 DEF Form, Site, Destroyer, InsertPcs, ReplacePcs, ReplayPcs, DestroyPcs
<1> QED BY <1>1, <1>2 DEF InCallback

\* DESTROY starts alone among the DESTROYs, and after the claim of a REPLACE.
LEMMA SnapshotLife ==
  ASSUME NEW t \in Nft, NEW c \in Cookies, Inv, TypeInv', FormInv', Destroy_Snapshot(t, c)
  PROVE  LifeInv'
<1>0. t \in Threads /\ None \notin Tuples /\ None \notin Cookies
  BY FlowAssumption DEF Threads
<1>1. th[t].c = None /\ \A d : ~Post(t, d) /\ ~Wrote(t, d) /\ ~Cutting(t, d) /\ ~Cut(t, d) /\ ~Destroyer(t, d)
  BY <1>0, IdleFacts DEF Destroy_Snapshot
<1> DEFINE m == [Idle EXCEPT !.pc = "tomb", !.op = "destroy", !.c = c,
                             !.gen = GenCurrent(registry, c)]
<1>2. th'[t] = m /\ Others(t) /\ UNCHANGED <<conn, dying, registry, rht, fe, work, pending>>
  BY <1>0, StepFacts DEF Destroy_Snapshot, Inv, env
<1>3. /\ th'[t].c = c /\ th'[t].op = "destroy" /\ th'[t].gen = registry[c].gen
      /\ th'[t].old = None /\ th'[t].pc = "tomb"
  BY <1>2 DEF Idle, GenCurrent
<1>4. conn[c] # None
  BY DEF Destroy_Snapshot, Inv, LifeInv, CallbackInv
<1>5. \A u \in Threads : ~Destroyer(u, c) /\ (th[u].c = c => th[u].pc # "claim")
  <2> SUFFICES ASSUME NEW u \in Threads, Destroyer(u, c) \/ (th[u].c = c /\ th[u].pc = "claim")
               PROVE  FALSE
    OBVIOUS
  <2>1. u \in InCallback(c)
    BY NftCalls
  <2>2. th[u].op = "replace" /\ th[u].pc # "claim"
    BY <2>1 DEF Destroy_Snapshot
  <2> QED BY <2>2 DEF Destroyer
<1>6. \A u \in Threads, d \in Cookies :
        Destroyer(u, d)' => (u = t /\ d = c) \/ (u # t /\ d # c /\ th'[u] = th[u] /\ Destroyer(u, d))
  BY <1>2, <1>3, <1>5 DEF Others, Destroyer
<1>7. CallbackInv'
  <2>1. \A u \in Threads : th'[u].pc = "claim" => u # t /\ th'[u] = th[u]
    BY <1>2, <1>3 DEF Others
  <2>2. \A u, v \in Threads, d \in Cookies : Destroyer(u, d)' =>
          /\ conn'[d] # None
          /\ th'[v].c = d => th'[v].pc # "claim"
          /\ Destroyer(v, d)' => v = u
    <3> SUFFICES ASSUME NEW u \in Threads, NEW v \in Threads, NEW d \in Cookies, Destroyer(u, d)'
                 PROVE  /\ conn'[d] # None
                        /\ th'[v].c = d => th'[v].pc # "claim"
                        /\ Destroyer(v, d)' => v = u
      OBVIOUS
    <3>1. conn'[d] # None
      BY <1>2, <1>4, <1>6 DEF Inv, LifeInv, CallbackInv
    <3>2. th'[v].c = d => th'[v].pc # "claim"
      BY <1>5, <1>6, <2>1 DEF Inv, LifeInv, CallbackInv
    <3>3. Destroyer(v, d)' => v = u
      BY <1>6 DEF Inv, LifeInv, CallbackInv
    <3> QED BY <3>1, <3>2, <3>3
  <2> QED BY <1>2, <2>1, <2>2 DEF Inv, LifeInv, CallbackInv
<1>8. NoNewStamps
  BY <1>0, <1>2, <1>3, KeepStamps DEF PubOps
<1>9. StampInv'
  <2>1. \A d \in Cookies, k \in Tuples, g \in Gens :
          Stamped(d, k, g)' /\ conn'[d] # None => g <= registry'[d].gen
    BY <1>2, <1>8 DEF NoNewStamps, Inv, LifeInv, StampInv
  <2>2. \A u \in Threads, d \in Cookies : Destroyer(u, d)' =>
          th'[u].gen = registry'[d].gen /\ (th'[u].pc # "tomb" => registry'[d].st = "tomb")
    <3> SUFFICES ASSUME NEW u \in Threads, NEW d \in Cookies, Destroyer(u, d)'
                 PROVE  th'[u].gen = registry'[d].gen /\ (th'[u].pc # "tomb" => registry'[d].st = "tomb")
      OBVIOUS
    <3>1. CASE u = t /\ d = c
      BY <1>2, <1>3, <3>1
    <3>2. CASE th'[u] = th[u] /\ Destroyer(u, d)
      BY <1>2, <3>2 DEF Inv, LifeInv, StampInv
    <3> QED BY <1>6, <3>1, <3>2
  <2> QED BY <1>2, <2>1, <2>2 DEF Inv, LifeInv, StampInv
<1>10. KeyInv'
  <2>1. \A u \in Threads, d \in Cookies, k \in Tuples :
          Destroyer(u, d)' /\ th'[u].old = k => Carries(d, k)
    BY <1>0, <1>3, <1>6 DEF Carries, Destroyer
  <2> QED BY <1>2, <1>8, <2>1, KeyFrame, StampsKeys DEF Inv, LifeInv
<1>11. OwnInv'
  <2>1. \A d \in Cookies : ~Post(t, d)' /\ ~Wrote(t, d)' /\ ~Cutting(t, d)' /\ ~Cut(t, d)'
    BY <1>3 DEF Post, Wrote, Cutting, Cut, PubOps
  <2> QED BY <1>0, <1>1, <1>2, <2>1, SameOwn
<1> QED BY <1>7, <1>9, <1>10, <1>11 DEF LifeInv

\* REPLACE starts with the tuple of the flow there is.
LEMMA DedupLife ==
  ASSUME NEW t \in Nft, NEW c \in Cookies, Inv, TypeInv', FormInv', Replace_Dedup(t, c)
  PROVE  LifeInv'
<1>0. t \in Threads /\ None \notin Tuples /\ None \notin Cookies
  BY FlowAssumption DEF Threads
<1>1. th[t].c = None /\ \A d : ~Post(t, d) /\ ~Wrote(t, d) /\ ~Cutting(t, d) /\ ~Cut(t, d) /\ ~Destroyer(t, d)
  BY <1>0, IdleFacts DEF Replace_Dedup
<1> DEFINE m == [Idle EXCEPT !.pc = "claim", !.op = "replace", !.c = c, !.k = conn[c], !.rt = route]
<1>2. th'[t] = m /\ Others(t) /\ UNCHANGED <<conn, dying, registry, rht, fe, work, pending>>
  BY <1>0, StepFacts DEF Replace_Dedup, Inv, env
<1>3. /\ th'[t].c = c /\ th'[t].op = "replace" /\ th'[t].gen = 0 /\ th'[t].k = conn[c]
      /\ th'[t].pc = "claim"
  BY <1>2 DEF Idle
<1>4. conn[c] # None /\ conn[c] \in Tuples
  BY DEF Replace_Dedup, Inv, TypeInv, DataOK
<1>5. \A u \in Threads : ~Destroyer(u, c)
  BY NftCalls DEF Replace_Dedup
<1>6. \A u \in Threads, d \in Cookies :
        Destroyer(u, d)' => u # t /\ d # c /\ th'[u] = th[u] /\ Destroyer(u, d)
  BY <1>2, <1>3, <1>5 DEF Others, Destroyer
<1>7. CallbackInv'
  <2>1. \A u \in Threads : u = t \/ th'[u] = th[u]
    BY <1>2 DEF Others
  <2>2. \A u \in Threads : th'[u].pc = "claim" => conn'[th'[u].c] # None
    BY <1>2, <1>3, <1>4, <2>1 DEF Inv, LifeInv, CallbackInv
  <2>3. \A u, v \in Threads, d \in Cookies : Destroyer(u, d)' =>
          /\ conn'[d] # None
          /\ th'[v].c = d => th'[v].pc # "claim"
          /\ Destroyer(v, d)' => v = u
    <3> SUFFICES ASSUME NEW u \in Threads, NEW v \in Threads, NEW d \in Cookies, Destroyer(u, d)'
                 PROVE  /\ conn'[d] # None
                        /\ th'[v].c = d => th'[v].pc # "claim"
                        /\ Destroyer(v, d)' => v = u
      OBVIOUS
    <3>1. d # c /\ Destroyer(u, d)
      BY <1>6
    <3>2. conn'[d] # None
      BY <1>2, <3>1 DEF Inv, LifeInv, CallbackInv
    <3>3. th'[v].c = d => th'[v].pc # "claim"
      BY <1>3, <2>1, <3>1 DEF Inv, LifeInv, CallbackInv
    <3>4. Destroyer(v, d)' => v = u
      BY <1>6, <3>1 DEF Inv, LifeInv, CallbackInv
    <3> QED BY <3>2, <3>3, <3>4
  <2> QED BY <1>2, <2>2, <2>3 DEF Inv, LifeInv, CallbackInv
<1>8. \A d \in Cookies, k \in Tuples, g \in Gens :
        Stamped(d, k, g)' => Stamped(d, k, g) \/ (d = c /\ k = conn[c] /\ g = 0)
  <2> SUFFICES ASSUME NEW d \in Cookies, NEW k \in Tuples, NEW g \in Gens, Stamped(d, k, g)'
               PROVE  Stamped(d, k, g) \/ (d = c /\ k = conn[c] /\ g = 0)
    OBVIOUS
  <2>1. ASSUME NEW u \in Threads, th'[u].c = d, th'[u].op \in PubOps, th'[u].k = k, th'[u].gen = g
        PROVE  Stamped(d, k, g) \/ (d = c /\ k = conn[c] /\ g = 0)
    <3>1. CASE u = t
      BY <1>3, <2>1, <3>1
    <3>2. CASE u # t
      <4>1. th'[u] = th[u]
        BY <1>2, <3>2 DEF Others
      <4> QED BY <2>1, <4>1 DEF Stamped
    <3> QED BY <3>1, <3>2
  <2> QED BY <1>2, <2>1 DEF Stamped
<1>9. StampInv'
  <2>1. \A d \in Cookies, k \in Tuples, g \in Gens :
          Stamped(d, k, g)' /\ conn'[d] # None => g <= registry'[d].gen
    <3>1. registry[c].gen \in Nat
      BY FlowAssumption DEF Inv, TypeInv, DataOK, Gens
    <3> QED BY <1>2, <1>8, <3>1 DEF Inv, LifeInv, StampInv
  <2>2. \A u \in Threads, d \in Cookies : Destroyer(u, d)' =>
          th'[u].gen = registry'[d].gen /\ (th'[u].pc # "tomb" => registry'[d].st = "tomb")
    BY <1>2, <1>6 DEF Inv, LifeInv, StampInv
  <2> QED BY <1>2, <2>1, <2>2 DEF Inv, LifeInv, StampInv
<1>10. KeyInv'
  <2>1. \A u \in Threads, d \in Cookies, k \in Tuples :
          Destroyer(u, d)' /\ th'[u].old = k => Carries(d, k)
    BY <1>6 DEF Carries, Destroyer
  <2>2. NoNewKeys
    BY <1>8 DEF NoNewKeys, Stamped, Carries
  <2> QED BY <1>2, <2>1, <2>2, KeyFrame DEF Inv, LifeInv
<1>11. OwnInv'
  <2>1. \A d \in Cookies : ~Post(t, d)' /\ ~Wrote(t, d)' /\ ~Cutting(t, d)' /\ ~Cut(t, d)'
    BY <1>3 DEF Post, Wrote, Cutting, Cut, Destroyer, Late
  <2> QED BY <1>0, <1>1, <1>2, <2>1, SameOwn
<1> QED BY <1>7, <1>9, <1>10, <1>11 DEF LifeInv

\* The claim: the new stamp is newer than every other of the cookie.
LEMMA ClaimLife ==
  ASSUME NEW t \in Threads, Inv, TypeInv', FormInv', Replace_Claim(t) PROVE LifeInv'
<1> DEFINE l == th[t]
<1>0. PICK c \in Cookies : c = l.c
  BY PubFacts DEF Inv, Replace_Claim, KeyPcs
<1>1. /\ l \in Local /\ l.k \in Tuples /\ l.pc = "claim" /\ l.op \in PubOps /\ l.op # "destroy"
      /\ l.pc \notin RestPcs
  BY PubFacts DEF Inv, Replace_Claim, KeyPcs
<1>2. registry[c].gen \in Nat /\ registry[c].gen < MaxGen
  BY <1>0, FlowAssumption DEF Replace_Claim, Inv, TypeInv, DataOK, Gens
<1>3. /\ registry'[c].gen = registry[c].gen + 1
      /\ \A d \in Cookies : d # c => registry'[d] = registry[d]
  <2>1. NextGen(registry[c]) = registry[c].gen + 1
    BY <1>2, FlowAssumption, GenLimitAssumption DEF NextGen
  <2> QED BY <1>0, <2>1 DEF Replace_Claim, GenNext, Inv, TypeInv, DataOK
<1>4. /\ th'[t] = [l EXCEPT !.pc = "resolve", !.gen = registry'[c].gen] /\ Others(t)
      /\ UNCHANGED <<conn, dying, rht, fe, work, pending>>
  BY <1>0, StepFacts DEF Replace_Claim, GenCurrent, Inv, env
<1>5. /\ th'[t].c = c /\ th'[t].op = l.op /\ th'[t].k = l.k /\ th'[t].gen = registry'[c].gen
      /\ th'[t].pc = "resolve"
  BY <1>0, <1>1, <1>4 DEF Local
<1>6. conn[c] # None /\ \A u \in Threads : ~Destroyer(u, c)
  BY <1>0, <1>1 DEF Inv, LifeInv, CallbackInv
<1>7. \A u \in Threads, d \in Cookies :
        Destroyer(u, d)' => u # t /\ d # c /\ th'[u] = th[u] /\ Destroyer(u, d)
  BY <1>1, <1>4, <1>5, <1>6 DEF Others, Destroyer
<1>8. CallbackInv'
  <2>1. \A u \in Threads : th'[u].pc = "claim" => th'[u] = th[u]
    BY <1>4, <1>5 DEF Others
  <2> QED BY <1>4, <1>7, <2>1, CallbackFrame DEF Inv, LifeInv
<1>9. \A d \in Cookies, k \in Tuples, g \in Gens :
        Stamped(d, k, g)' => Stamped(d, k, g) \/ (d = c /\ k = l.k /\ g = registry'[c].gen)
  <2> SUFFICES ASSUME NEW d \in Cookies, NEW k \in Tuples, NEW g \in Gens, Stamped(d, k, g)'
               PROVE  Stamped(d, k, g) \/ (d = c /\ k = l.k /\ g = registry'[c].gen)
    OBVIOUS
  <2>1. ASSUME NEW u \in Threads, th'[u].c = d, th'[u].op \in PubOps, th'[u].k = k, th'[u].gen = g
        PROVE  Stamped(d, k, g) \/ (d = c /\ k = l.k /\ g = registry'[c].gen)
    <3>1. CASE u = t
      BY <1>5, <2>1, <3>1
    <3>2. CASE u # t
      <4>1. th'[u] = th[u]
        BY <1>4, <3>2 DEF Others
      <4> QED BY <2>1, <4>1 DEF Stamped
    <3> QED BY <3>1, <3>2
  <2> QED BY <1>4, <2>1 DEF Stamped
<1>10. StampInv'
  <2>1. \A d \in Cookies : conn'[d] = None => registry'[d] = NoEntry
    BY <1>3, <1>4, <1>6 DEF Inv, LifeInv, StampInv
  <2>2. ASSUME NEW d \in Cookies, NEW k \in Tuples, NEW g \in Gens, Stamped(d, k, g)', conn'[d] # None
        PROVE  g <= registry'[d].gen
    <3>1. g \in Nat
      BY FlowAssumption DEF Gens
    <3>2. CASE Stamped(d, k, g)
      <4>1. g <= registry[d].gen
        BY <1>4, <2>2, <3>2 DEF Inv, LifeInv, StampInv
      <4> QED BY <1>2, <1>3, <3>1, <4>1
    <3>3. CASE d = c /\ g = registry'[c].gen
      BY <3>1, <3>3
    <3> QED BY <1>9, <2>2, <3>2, <3>3
  <2>3. \A u \in Threads, d \in Cookies : Destroyer(u, d)' =>
          th'[u].gen = registry'[d].gen /\ (th'[u].pc # "tomb" => registry'[d].st = "tomb")
    BY <1>3, <1>7 DEF Inv, LifeInv, StampInv
  <2> QED BY <2>1, <2>2, <2>3 DEF StampInv
<1>11. KeyInv'
  <2>1. \A u \in Threads, d \in Cookies, k \in Tuples :
          Destroyer(u, d)' /\ th'[u].old = k => Carries(d, k)
    BY <1>7 DEF Carries, Destroyer
  <2>2. Carries(c, l.k)
    BY <1>0 DEF Carries
  <2>3. NoNewKeys
    BY <1>9, <2>2 DEF NoNewKeys, Stamped, Carries
  <2> QED BY <1>4, <2>1, <2>3, KeyFrame DEF Inv, LifeInv
<1>12. OwnInv'
  <2>1. \A d \in Cookies :
           /\ ~Post(t, d) /\ ~Wrote(t, d) /\ ~Cutting(t, d) /\ ~Cut(t, d)
           /\ ~Post(t, d)' /\ ~Wrote(t, d)' /\ ~Cutting(t, d)' /\ ~Cut(t, d)'
    BY <1>1, <1>5 DEF Post, Wrote, Cutting, Cut, Destroyer, Late
  <2> QED BY <1>4, <2>1, SameOwn
<1> QED BY <1>8, <1>10, <1>11, <1>12 DEF LifeInv

-----------------------------------------------------------------------------
(* The rest of REPLACE, and the workers.                                   *)

\* Stamps that move between the queues and the calls.
LEMMA MoveStamps ==
  ASSUME NEW t \in Threads, UNCHANGED rht, Others(t),
         \/ th'[t].c = None
         \/ Stamped(th'[t].c, th'[t].k, th'[t].gen),
         \A w \in Workers : \A i \in work'[w] : Stamped(i.c, i.k, i.gen),
         \A p \in pending' : Stamped(p.c, p.k, p.gen)
  PROVE  NoNewStamps
<1> SUFFICES ASSUME NEW c \in Cookies, NEW k \in Tuples, NEW g \in Gens, Stamped(c, k, g)'
             PROVE  Stamped(c, k, g)
  BY DEF NoNewStamps
<1>1. c # None
  BY FlowAssumption
<1>2. CASE rht'[c] # None /\ rht'[c].k = k /\ rht'[c].gen = g
  BY <1>2 DEF Stamped
<1>3. ASSUME NEW u \in Threads, th'[u].c = c, th'[u].op \in PubOps, th'[u].k = k, th'[u].gen = g
      PROVE  Stamped(c, k, g)
  <2>1. CASE u = t
    BY <1>1, <1>3, <2>1
  <2>2. CASE u # t
    <3>1. th'[u] = th[u]
      BY <2>2 DEF Others
    <3> QED BY <1>3, <3>1 DEF Stamped
  <2> QED BY <2>1, <2>2
<1>4. ASSUME NEW w \in Workers, NEW i \in work'[w], i.c = c, i.k = k, i.gen = g PROVE Stamped(c, k, g)
  BY <1>4
<1>5. ASSUME NEW p \in pending', p.c = c, p.k = k, p.gen = g PROVE Stamped(c, k, g)
  BY <1>5
<1> QED BY <1>2, <1>3, <1>4, <1>5 DEF Stamped

\* What is queued is stamped.
LEMMA QueuedStamps ==
  /\ \A w \in Workers : \A i \in work[w] : Stamped(i.c, i.k, i.gen)
  /\ \A p \in pending : Stamped(p.c, p.k, p.gen)
BY DEF Stamped

\* A call parks its flow with its own stamp.
LEMMA ParkAside ==
  ASSUME NEW t \in Threads, NEW i, Inv, th[t].pc \in {"park", "reresolve"}, Enqueue(i), Return(t),
         i.c = th[t].c, i.k = th[t].k, i.gen = th[t].gen,
         UNCHANGED <<conn, dying, registry, rht, fe, work>>
  PROVE  Aside(t)
<1>1. th[t].op \in PubOps /\ th[t].op # "destroy" /\ th[t].pc \notin RestPcs
  BY PubFacts DEF Inv, KeyPcs
<1>2. th'[t].c = None /\ Others(t) /\ th'[t].pc # "claim"
  BY <1>1, ReturnFacts
<1>3. Plain(th[t]) /\ Plain(th'[t])
  <2>1. th'[t] = Back(t) /\ Form(t, Back(t)) /\ Back(t).pc \in RestPcs
    BY <1>1, BackForm, StepFacts DEF Return, Inv
  <2> QED BY <1>1, <2>1 DEF Plain, Late, Form, Site, RestPcs, DestroyPcs
<1>4. pending' \subseteq pending \cup {i}
  BY EnqueueAdds
<1>5. Stamped(i.c, i.k, i.gen)
  BY <1>1 DEF Stamped
<1>6. NoNewStamps
  BY <1>2, <1>4, <1>5, QueuedStamps, MoveStamps
<1> QED BY <1>2, <1>3, <1>6 DEF Aside

\* REPLACE between its claim and its insert, and its ends.
LEMMA ReplaceAside ==
  ASSUME NEW t \in Threads, Inv,
         Replace_ClaimFails(t) \/ Replace_Resolve(t) \/ Replace_Refused(t) \/ Replace_Park(t)
  PROVE  Aside(t)
<1> DEFINE l == th[t]
<1>1. l.pc \in {"claim", "resolve", "park"} /\ l.pc \in KeyPcs
  BY DEF Replace_ClaimFails, Replace_Resolve, Replace_Refused, Replace_Park, KeyPcs
<1>2. l \in Local /\ l.op # "destroy" /\ l.pc \notin RestPcs
  BY <1>1, PubFacts DEF Inv
<1>3. Plain(l)
  BY <1>1, <1>2 DEF Plain, Late
<1>4. CASE Replace_ClaimFails(t) \/ Replace_Refused(t)
  BY <1>2, <1>3, <1>4, CallAside DEF Inv, Replace_ClaimFails, Replace_Refused, env
<1>5. CASE Replace_Resolve(t)
  <2>1. UNCHANGED <<conn, dying, registry, rht, fe, work, pending>>
    BY <1>5 DEF Replace_Resolve, env
  <2>2. CASE Step(t, [l EXCEPT !.pc = "admit", !.mac = nbr.mac])
    <3> DEFINE m == [l EXCEPT !.pc = "admit", !.mac = nbr.mac]
    <3>1. SameCall(l, m) /\ Plain(m) /\ m.pc # "claim"
      BY <1>2 DEF SameCall, Plain, Late, Local
    <3> QED BY <1>2, <1>3, <2>1, <2>2, <3>1, CallAside DEF Inv
  <2>3. CASE Step(t, [l EXCEPT !.pc = "park"])
    <3> DEFINE m == [l EXCEPT !.pc = "park"]
    <3>1. SameCall(l, m) /\ Plain(m) /\ m.pc # "claim"
      BY <1>2 DEF SameCall, Plain, Late, Local
    <3> QED BY <1>2, <1>3, <2>1, <2>3, <3>1, CallAside DEF Inv
  <2> QED BY <1>5, <2>2, <2>3 DEF Replace_Resolve, Goto
<1>6. CASE Replace_Park(t)
  <2>1. /\ Enqueue(ItemOf(l)) /\ Return(t) /\ l.pc \in {"park", "reresolve"}
        /\ UNCHANGED <<conn, dying, registry, rht, fe, work>>
    BY <1>6 DEF Replace_Park, env
  <2>2. ItemOf(l).c = l.c /\ ItemOf(l).k = l.k /\ ItemOf(l).gen = l.gen
    BY DEF ItemOf
  <2> QED BY <2>1, <2>2, ParkAside
<1> QED BY <1>4, <1>5, <1>6

\* A worker between two of its calls.
LEMMA RestPlain ==
  ASSUME NEW t \in Threads, Inv, th[t].pc \in RestPcs PROVE Plain(th[t]) /\ th[t].c = None
BY DEF Inv, FormInv, Form, Site, Plain, RestPcs, Late, DestroyPcs

\* A worker that moves on without a cookie.
LEMMA RestAside ==
  ASSUME NEW t \in Threads, NEW m, Inv, th[t].pc \in RestPcs, Step(t, m),
         m.c = None, m.op # "destroy", m.pc \in RestPcs,
         UNCHANGED <<conn, dying, registry, rht, fe>>,
         \A w \in Workers : \A i \in work'[w] : Stamped(i.c, i.k, i.gen),
         \A p \in pending' : Stamped(p.c, p.k, p.gen)
  PROVE  Aside(t)
<1>1. th'[t] = m /\ Others(t)
  BY StepFacts DEF Inv
<1>2. Plain(th[t]) /\ Plain(m) /\ m.pc # "claim"
  BY RestPlain DEF Plain, RestPcs, Late
<1>3. NoNewStamps
  BY <1>1, MoveStamps
<1> QED BY <1>1, <1>2, <1>3 DEF Aside

\* A worker takes an entry of a queue.
LEMMA LoadAside ==
  ASSUME NEW t \in Threads, NEW i, NEW p \in {"admit", "reresolve"}, NEW o \in PubOps, Inv,
         th[t].pc \in RestPcs, Step(t, Load(p, o, i)), Stamped(i.c, i.k, i.gen),
         UNCHANGED <<conn, dying, registry, rht, fe>>,
         \A w \in Workers : \A j \in work'[w] : Stamped(j.c, j.k, j.gen),
         \A q \in pending' : Stamped(q.c, q.k, q.gen)
  PROVE  Aside(t)
<1> DEFINE m == Load(p, o, i)
<1>1. th'[t] = m /\ Others(t)
  BY StepFacts DEF Inv
<1>2. m.c = i.c /\ m.k = i.k /\ m.gen = i.gen /\ m.pc = p /\ m.op = o
  BY DEF Load, Idle
<1>3. Plain(th[t]) /\ Plain(m) /\ m.pc # "claim"
  BY <1>2, RestPlain DEF Plain, Late, PubOps
<1>4. NoNewStamps
  BY <1>1, <1>2, MoveStamps
<1> QED BY <1>1, <1>3, <1>4 DEF Aside

\* Every step of a worker outside the calls it makes, but for the lookup of a
\* replay.
LEMMA WorkerAside ==
  ASSUME NEW t \in Workers, Inv, FormInv', WorkerStep(t), ~Republish_Backed(t)
  PROVE  Aside(t)
<1> DEFINE l == th[t]
<1>0. t \in Threads /\ l \in Local /\ Form(t, l)
  BY DEF Threads, Inv, TypeInv, ThreadsOK, FormInv
<1>q. /\ \A w \in Workers : \A i \in work[w] : Stamped(i.c, i.k, i.gen)
      /\ \A p \in pending : Stamped(p.c, p.k, p.gen)
  BY QueuedStamps
<1>1. CASE Poll_Scan(t)
  <2> DEFINE m == [Idle EXCEPT !.pc = "next", !.op = "poll"]
  <2>1. /\ l.pc \in RestPcs /\ Step(t, m) /\ UNCHANGED <<conn, dying, registry, rht, fe>>
        /\ pending' = {} /\ work' = [work EXCEPT ![t] = {[p EXCEPT !.mac = nbr.mac] : p \in pending}]
    BY <1>1 DEF Poll_Scan, RestPcs, env
  <2>2. m.c = None /\ m.op # "destroy" /\ m.pc \in RestPcs
    BY DEF Idle, RestPcs
  <2>3. \A w \in Workers : \A i \in work'[w] : Stamped(i.c, i.k, i.gen)
    <3> SUFFICES ASSUME NEW w \in Workers, NEW i \in work'[w] PROVE Stamped(i.c, i.k, i.gen)
      OBVIOUS
    <3>1. CASE w # t
      BY <1>q, <2>1, <3>1 DEF Inv, TypeInv, DataOK
    <3>2. CASE w = t
      <4>1. PICK p \in pending : i = [p EXCEPT !.mac = nbr.mac]
        BY <2>1, <3>2 DEF Inv, TypeInv, DataOK
      <4>2. i.c = p.c /\ i.k = p.k /\ i.gen = p.gen
        BY <4>1 DEF Inv, TypeInv, DataOK, Item
      <4> QED BY <1>q, <4>2
    <3> QED BY <3>1, <3>2
  <2> QED BY <1>0, <2>1, <2>2, <2>3, RestAside
<1>2. ASSUME NEW i \in work[t], Poll_Next(t, i) PROVE Aside(t)
  <2>1. /\ l.pc \in RestPcs /\ UNCHANGED <<conn, dying, registry, rht, fe, pending>>
        /\ work' = [work EXCEPT ![t] = @ \ {i}]
    BY <1>2 DEF Poll_Next, RestPcs, env
  <2>2. \A w \in Workers : \A j \in work'[w] : Stamped(j.c, j.k, j.gen)
    BY <1>q, <2>1 DEF Inv, TypeInv, DataOK
  <2>3. CASE Step(t, Load("admit", "poll", i))
    BY <1>0, <1>q, <2>1, <2>2, <2>3, LoadAside DEF PubOps
  <2>4. CASE UNCHANGED th
    <3>1. Plain(l) /\ l.c = None /\ l.pc # "claim"
      BY <1>0, <2>1, RestPlain DEF RestPcs
    <3>2. Others(t) /\ th'[t] = l
      BY <2>4 DEF Others
    <3>3. NoNewStamps
      BY <1>0, <1>q, <2>1, <2>2, <3>1, <3>2, MoveStamps
    <3> QED BY <2>1, <3>1, <3>2, <3>3 DEF Aside
  <2> QED BY <1>2, <2>3, <2>4 DEF Poll_Next
<1>3. CASE Neigh_Event(t)
  <2> DEFINE m == [Idle EXCEPT !.pc = "take", !.op = "drain"]
  <2>1. l.pc \in RestPcs /\ Step(t, m) /\ UNCHANGED <<conn, dying, registry, rht, fe, work, pending>>
    BY <1>3 DEF Neigh_Event, RestPcs
  <2>2. m.c = None /\ m.op # "destroy" /\ m.pc \in RestPcs
    BY DEF Idle, RestPcs
  <2> QED BY <1>0, <1>q, <2>1, <2>2, RestAside
<1>4. ASSUME NEW p \in pending, Drain_Take(t, p) PROVE Aside(t)
  <2>1. /\ l.pc \in RestPcs /\ UNCHANGED <<conn, dying, registry, rht, fe, work>>
        /\ pending' \subseteq pending /\ Step(t, Load("reresolve", "drain", p))
    BY <1>4 DEF Drain_Take, RestPcs, env
  <2>2. \A q \in pending' : Stamped(q.c, q.k, q.gen)
    BY <1>q, <2>1
  <2> QED BY <1>0, <1>q, <2>1, <2>2, LoadAside DEF PubOps
<1>5. CASE Drain_Resolve(t)
  <2>1. l.pc = "reresolve" /\ UNCHANGED <<conn, dying, registry, rht, fe, work>>
    BY <1>5 DEF Drain_Resolve, env
  <2>2. l.op # "destroy" /\ l.pc \notin RestPcs
    BY <1>0, <2>1, PubFacts DEF Inv, KeyPcs
  <2>3. Plain(l)
    BY <2>1, <2>2 DEF Plain, Late
  <2>4. CASE Enqueue(ItemOf([l EXCEPT !.mac = 0])) /\ Return(t)
    <3> DEFINE i == ItemOf([l EXCEPT !.mac = 0])
    <3>1. i.c = l.c /\ i.k = l.k /\ i.gen = l.gen
      BY <1>0 DEF ItemOf, Local
    <3> QED BY <1>0, <2>1, <2>4, <3>1, ParkAside
  <2>5. CASE Return(t) /\ UNCHANGED pending
    BY <1>0, <2>1, <2>2, <2>3, <2>5, CallAside DEF Inv
  <2>6. CASE Step(t, [l EXCEPT !.pc = "admit", !.mac = nbr.mac]) /\ UNCHANGED pending
    <3> DEFINE m == [l EXCEPT !.pc = "admit", !.mac = nbr.mac]
    <3>1. SameCall(l, m) /\ Plain(m) /\ m.pc # "claim"
      BY <1>0, <2>2 DEF SameCall, Plain, Late, Local
    <3> QED BY <1>0, <2>1, <2>2, <2>3, <2>6, <3>1, CallAside DEF Inv
  <2> QED BY <1>5, <2>4, <2>5, <2>6 DEF Drain_Resolve
<1>6. CASE Drain_Done(t)
  <2> DEFINE m == [Idle EXCEPT !.pc = "collect", !.op = "rebuild"]
  <2>1. l.pc \in RestPcs /\ Step(t, m) /\ UNCHANGED <<conn, dying, registry, rht, fe, work, pending>>
    BY <1>6 DEF Drain_Done, RestPcs, env
  <2>2. m.c = None /\ m.op # "destroy" /\ m.pc \in RestPcs
    BY DEF Idle, RestPcs
  <2> QED BY <1>0, <1>q, <2>1, <2>2, RestAside
<1>7. CASE Rebuild_Collect(t)
  <2> DEFINE m == [l EXCEPT !.pc = "next"]
  <2>1. /\ l.pc = "collect" /\ l.pc \in RestPcs /\ Step(t, m)
        /\ UNCHANGED <<conn, dying, registry, rht, fe, pending>>
    BY <1>7 DEF Rebuild_Collect, Goto, RestPcs, env
  <2>2. t = "neigh" /\ l.c = None /\ l.op = "rebuild"
    BY <1>0, <2>1 DEF Form, Site, InsertPcs, ReplacePcs, ReplayPcs, DestroyPcs
  <2>3. m.c = None /\ m.op # "destroy" /\ m.pc \in RestPcs
    BY <1>0, <2>2 DEF Local, RestPcs
  <2>4. \A w \in Workers : w # t => work'[w] = work[w]
    BY <1>7 DEF Rebuild_Collect, Inv, TypeInv, DataOK
  <2>5. \A w \in Workers : \A i \in work'[w] : w # t
    BY <2>2 DEF FormInv
  <2> QED BY <1>0, <1>q, <2>1, <2>3, <2>4, <2>5, RestAside
<1>8. ASSUME NEW i \in work[t], Rebuild_Next(t, i) \/ Flush_Next(t, i) PROVE FALSE
  <2>1. t = "poll"
    BY DEF Inv, FormInv
  <2> QED BY <1>0, <1>8, <2>1 DEF Rebuild_Next, Flush_Next, Form, Site
<1>9. ~Rebuild_Recheck(t)
  BY <1>0 DEF Rebuild_Recheck, Form, Site, InsertPcs, ReplacePcs, ReplayPcs, DestroyPcs
<1>10. ~Flush_Collect(t)
  <2> SUFFICES ASSUME Flush_Collect(t) PROVE FALSE
    OBVIOUS
  <2> DEFINE m == [Idle EXCEPT !.pc = "next", !.op = "flush"]
  <2>1. th'[t] = m
    BY <1>0, StepFacts DEF Flush_Collect, Inv
  <2>2. Form(t, m)
    BY <1>0, <2>1 DEF FormInv
  <2>3. m.op = "flush"
    BY DEF Idle
  <2> QED BY <2>2, <2>3 DEF Form, Site
<1>11. CASE Worker_Done(t)
  <2>1. l.pc \in RestPcs /\ Step(t, Idle) /\ UNCHANGED <<conn, dying, registry, rht, fe, work, pending>>
    BY <1>11 DEF Worker_Done, RestPcs, env
  <2>2. Idle.c = None /\ Idle.op # "destroy" /\ Idle.pc \in RestPcs
    BY DEF Idle, RestPcs
  <2> QED BY <1>0, <1>q, <2>1, <2>2, RestAside
<1> QED BY <1>1, <1>2, <1>3, <1>4, <1>5, <1>6, <1>7, <1>8, <1>9, <1>10, <1>11 DEF WorkerStep

-----------------------------------------------------------------------------
(* The environment, and the whole.                                         *)

\* A flow at a free address starts from nothing.
LEMMA NewConnLife ==
  ASSUME NEW c \in Cookies, NEW k \in Tuples, Inv, NewConn(c, k), Settled PROVE LifeInv'
<1>0. None \notin Tuples /\ None \notin Cookies
  BY FlowAssumption
<1>1. /\ UNCHANGED <<dying, registry, rht, fe, pending, th, work>>
      /\ conn[c] = None /\ conn'[c] = k /\ \A d \in Cookies : d # c => conn'[d] = conn[d]
  BY DEF NewConn, Inv, TypeInv, DataOK
<1>2. Quiet(c) /\ \A d \in Cookies \ {c} : ~Carries(d, k)
  BY <1>0, <1>1 DEF Settled
<1>3. \A u \in Threads : th[u].c # c
  BY <1>2 DEF Quiet
<1>4. \A u \in Threads : ~Post(u, c) /\ ~Wrote(u, c) /\ ~Cutting(u, c) /\ ~Cut(u, c) /\ ~Destroyer(u, c)
  BY <1>3 DEF Post, Wrote, Cutting, Cut, Destroyer
<1>5. After(c)
  BY <1>1 DEF Inv, LifeInv, OwnInv, OwnAt, Over
<1>6. rht[c] = None /\ \A x \in Tuples : ~Mine(c, x)
  BY <1>4, <1>5 DEF After
<1>7. \A x \in Tuples, g \in Gens : ~Stamped(c, x, g)
  BY <1>2, <1>3, <1>6 DEF Stamped, Quiet
<1>8. CallbackInv'
  <2>1. \A u \in Threads : th'[u] = th[u]
    BY <1>1
  <2>2. \A d \in dying' : conn'[d] # None
    BY <1>0, <1>1 DEF Inv, LifeInv, CallbackInv, TypeInv, DataOK
  <2>3. \A u \in Threads : th'[u].pc = "claim" => conn'[th'[u].c] # None
    <3> SUFFICES ASSUME NEW u \in Threads, th[u].pc = "claim" PROVE conn'[th[u].c] # None
      BY <2>1
    <3>1. th[u].c \in Cookies /\ conn[th[u].c] # None
      BY KeyFacts DEF Inv, LifeInv, CallbackInv, KeyPcs
    <3> QED BY <1>1, <3>1
  <2>4. \A u, v \in Threads, d \in Cookies : Destroyer(u, d)' =>
          /\ conn'[d] # None
          /\ th'[v].c = d => th'[v].pc # "claim"
          /\ Destroyer(v, d)' => v = u
    <3> SUFFICES ASSUME NEW u \in Threads, NEW v \in Threads, NEW d \in Cookies, Destroyer(u, d)'
                 PROVE  /\ conn'[d] # None
                        /\ th'[v].c = d => th'[v].pc # "claim"
                        /\ Destroyer(v, d)' => v = u
      OBVIOUS
    <3>1. Destroyer(u, d) /\ d # c
      BY <1>1, <1>4 DEF Destroyer
    <3> QED BY <1>1, <3>1 DEF Inv, LifeInv, CallbackInv, Destroyer
  <2> QED BY <2>2, <2>3, <2>4 DEF CallbackInv
<1>9. \A d \in Cookies, x \in Tuples, g \in Gens : Stamped(d, x, g)' => Stamped(d, x, g) /\ d # c
  BY <1>1, <1>7 DEF Stamped
<1>10. StampInv'
  <2>1. \A d \in Cookies : conn'[d] = None => registry'[d] = NoEntry
    BY <1>0, <1>1 DEF Inv, LifeInv, StampInv
  <2>2. \A d \in Cookies, x \in Tuples, g \in Gens :
          Stamped(d, x, g)' /\ conn'[d] # None => g <= registry'[d].gen
    BY <1>1, <1>9 DEF Inv, LifeInv, StampInv
  <2>3. \A u \in Threads, d \in Cookies : Destroyer(u, d)' =>
          th'[u].gen = registry'[d].gen /\ (th'[u].pc # "tomb" => registry'[d].st = "tomb")
    BY <1>1 DEF Inv, LifeInv, StampInv, Destroyer
  <2> QED BY <2>1, <2>2, <2>3 DEF StampInv
<1>11. KeyInv'
  <2>1. \A x \in Tuples : Carries(c, x)' => x = k
    BY <1>1, <1>2, <1>3, <1>6 DEF Carries, Quiet
  <2>2. \A d \in Cookies, x \in Tuples : d # c => (Carries(d, x)' <=> Carries(d, x))
    BY <1>1 DEF Carries
  <2>3. ASSUME NEW d \in Cookies, NEW x \in Tuples, Carries(d, x)'
        PROVE  /\ conn'[d] # None => conn'[d] = x
               /\ \A e \in Cookies : Carries(e, x)' => e = d
    <3>1. CASE d = c
      BY <1>1, <1>2, <2>1, <2>2, <2>3, <3>1
    <3>2. CASE d # c
      <4>1. Carries(d, x) /\ x # k
        BY <1>2, <2>2, <2>3, <3>2
      <4> QED BY <1>1, <2>1, <2>2, <3>2, <4>1 DEF Inv, LifeInv, KeyInv
    <3> QED BY <3>1, <3>2
  <2> QED BY <2>3 DEF KeyInv
<1>12. OwnAt(c)'
  <2>1. \A u \in Threads : ~Post(u, c)' /\ ~Cutting(u, c)' /\ ~Cut(u, c)'
    BY <1>1, <1>4 DEF Post, Cutting, Cut, Destroyer
  <2>2. ~Over(c)'
    BY <1>0, <1>1, <2>1 DEF Over
  <2>3. Before(c)'
    BY <1>1, <1>6, <2>1 DEF Before, Mine
  <2> QED BY <2>2, <2>3 DEF OwnAt
<1>13. ASSUME NEW d \in Cookies, d # c PROVE OwnAt(d)'
  <2>1. \A u \in Threads : Post(u, d) /\ th[u].pc = "feadd" /\ ~Over(d) => th[u].sink = conn[d]
    BY DEF Inv, LifeInv, OwnInv, OwnAt, Before
  <2>2. SameDuty(d)
    BY <1>1, <2>1 DEF SameDuty, Post, Wrote, Cutting, Cut, Destroyer
  <2> QED BY <1>1, <1>13, <2>2, OwnFrame DEF Inv, LifeInv, Mine, Exact
<1>14. OwnInv'
  BY <1>12, <1>13 DEF OwnInv
<1> QED BY <1>8, <1>10, <1>11, <1>14 DEF LifeInv

\* LifeInv does not depend on the rest of the state.
LEMMA LifeFrame ==
  ASSUME LifeInv, UNCHANGED <<conn, registry, rht, fe, pending, th, work>>,
         \A c \in dying' : conn[c] # None
  PROVE  LifeInv'
<1>1. CallbackInv'
  BY DEF LifeInv, CallbackInv, Destroyer
<1>2. StampInv'
  BY DEF LifeInv, StampInv, Destroyer, Stamped
<1>3. KeyInv'
  BY DEF LifeInv, KeyInv, Carries
<1>4. OwnInv'
  BY DEF LifeInv, OwnInv, OwnAt, Over, After, Before, Mine, Exact, Post, Wrote, Cutting, Cut, Destroyer
<1> QED BY <1>1, <1>2, <1>3, <1>4 DEF LifeInv

LEMMA EnvironmentLife ==
  ASSUME Inv, Environment, Settled PROVE LifeInv'
<1>1. ASSUME NEW c \in Cookies, NEW k \in Tuples, NewConn(c, k) PROVE LifeInv'
  BY <1>1, NewConnLife
<1>2. ASSUME NEW c \in Cookies, Teardown(c) PROVE LifeInv'
  BY <1>2, LifeFrame DEF Teardown, Inv, LifeInv, CallbackInv
<1>3. CASE (\E m \in Macs : NeighUpdate(m)) \/ NeighLost \/ RouteChange
  <2>1. UNCHANGED <<conn, dying, registry, rht, fe, pending, th, work>>
    BY <1>3 DEF NeighUpdate, NeighLost, RouteChange
  <2> QED BY <2>1, LifeFrame DEF Inv, LifeInv, CallbackInv
<1> QED BY <1>1, <1>2, <1>3 DEF Environment

\* Insert, remove and the FE record, whoever calls them.
LEMMA CallLife ==
  ASSUME NEW t \in Threads, Undisturbed, Inv, TypeInv', FormInv', CallStep(t) PROVE LifeInv'
<1>1. CASE InsertStep(t)
  <2>1. ~Insert_HwFallback(t)
    BY DEF Undisturbed, Insert_HwFallback
  <2>2. \/ Aside(t) \/ Walk(t)
        \/ Insert_Publish(t) /\ rht[th[t].c] = None
    BY <1>1, <2>1, InsertAside, PostWalk DEF InsertStep
  <2> QED BY <2>2, AsideLife, WalkLife, PublishLife DEF Inv
<1>2. CASE RemoveStep(t)
  BY <1>2, UnlinkLife, ReleaseAside, AsideLife, CutLife, ReleaseLife DEF RemoveStep, Inv
<1>3. CASE FeStep(t)
  BY <1>3, PostWalk, WalkLife, CheckLife, AddLife, UndoLife, DeleteLife DEF FeStep, Inv
<1> QED BY <1>1, <1>2, <1>3 DEF CallStep

LEMMA NftLife ==
  ASSUME NEW t \in Nft, Inv, TypeInv', FormInv', NftStep(t) PROVE LifeInv'
<1>0. t \in Threads
  BY DEF Threads
<1>1. CASE (\E c \in Cookies : Replace_Dedup(t, c)) \/ (\E c \in Cookies : Destroy_Snapshot(t, c))
  BY <1>1, DedupLife, SnapshotLife
<1>2. CASE ReplaceStep(t)
  BY <1>0, <1>2, ClaimLife, ReplaceAside, AsideLife, PostWalk, WalkLife DEF ReplaceStep, Inv
<1>3. CASE DestroyStep(t)
  BY <1>0, <1>3, TombstoneLife, DropLife, LookupLife, ForgetLife DEF DestroyStep
<1> QED BY <1>1, <1>2, <1>3 DEF NftStep

LEMMA WorkerLife ==
  ASSUME NEW t \in Workers, Inv, TypeInv', FormInv', WorkerStep(t) PROVE LifeInv'
<1>0. t \in Threads
  BY DEF Threads
<1>1. CASE Republish_Backed(t)
  BY <1>0, <1>1, PostWalk, WalkLife, BackedLife DEF Inv
<1>2. CASE ~Republish_Backed(t)
  BY <1>0, <1>2, WorkerAside, AsideLife DEF Inv
<1> QED BY <1>1, <1>2

LEMMA LifeStep ==
  ASSUME Undisturbed, Inv, TypeInv', FormInv', [Next /\ Settled]_vars PROVE LifeInv'
<1>1. CASE UNCHANGED vars
  <2>1. UNCHANGED <<conn, dying, registry, rht, fe, pending, th, work>>
    BY <1>1 DEF vars
  <2> QED BY <2>1, LifeFrame DEF Inv, LifeInv, CallbackInv
<1>2. CASE Environment /\ Settled
  BY <1>2, EnvironmentLife
<1> QED BY <1>1, <1>2, CallLife, NftLife, WorkerLife DEF Next

LEMMA InitLife == Init => LifeInv
<1> SUFFICES ASSUME Init PROVE LifeInv
  OBVIOUS
<1>0. None \notin Tuples /\ None \notin Cookies
  BY FlowAssumption
<1>1. \A t \in Threads : th[t] = Idle /\ th[t].c = None /\ th[t].op = "none" /\ th[t].pc = "idle"
  BY DEF Init, Idle
<1>2. /\ \A c \in Cookies : conn[c] = None /\ rht[c] = None /\ registry[c] = NoEntry
      /\ dying = {} /\ pending = {}
      /\ \A k \in Tuples : fe[k] = None
      /\ \A t \in Workers : work[t] = {}
  BY DEF Init
<1>3. CallbackInv
  BY <1>1, <1>2 DEF CallbackInv, Destroyer
<1>4. StampInv
  BY <1>1, <1>2 DEF StampInv, Destroyer
<1>5. \A c \in Cookies, k \in Tuples : ~Carries(c, k)
  BY <1>0, <1>1, <1>2 DEF Carries
<1>6. KeyInv
  BY <1>5 DEF KeyInv
<1>7. OwnInv
  BY <1>2 DEF OwnInv, OwnAt, Over, After, Mine
<1> QED BY <1>3, <1>4, <1>6, <1>7 DEF LifeInv

\* The joint invariant is inductive.
LEMMA OwnerStep ==
  ASSUME Undisturbed PROVE Inv /\ [Next /\ Settled]_vars => Inv'
<1> SUFFICES ASSUME Inv, [Next /\ Settled]_vars PROVE Inv'
  OBVIOUS
<1>1. [Next]_vars
  OBVIOUS
<1>2. TypeInv' /\ HwInv'
  BY <1>1, TypeStep, HwStep DEF Inv
<1>3. FormInv'
  BY <1>1, FormStep DEF Inv
<1>4. LifeInv'
  BY <1>2, <1>3, LifeStep
<1> QED BY <1>2, <1>3, <1>4 DEF Inv

LEMMA OwnerAlways ==
  ASSUME Undisturbed PROVE SettledSpec => []Inv
<1>1. Init => Inv
  BY InitType, InitHw, InitForm, InitLife DEF Inv
<1>2. Inv /\ [Next /\ Settled]_vars => Inv'
  BY OwnerStep
<1> QED BY <1>1, <1>2, PTL DEF SettledSpec

-----------------------------------------------------------------------------
(* The properties.                                                         *)

\* Nobody has a duty for a cookie nothing in flight concerns.
LEMMA QuietFacts ==
  ASSUME NEW c, Quiet(c)
  PROVE  \A t \in Threads : ~Post(t, c) /\ ~Wrote(t, c) /\ ~Cut(t, c)
BY DEF Quiet, Post, Wrote, Cut, Destroyer

LEMMA InvResurrection == Inv => NoResurrection
<1> SUFFICES ASSUME Inv, NEW c \in Cookies, conn[c] = None, Quiet(c)
             PROVE  /\ rht[c] = None
                    /\ \A k \in Tuples : fe[k] # None => fe[k].owner # c
                    /\ registry[c] = NoEntry
  BY DEF NoResurrection
<1>1. After(c)
  BY DEF Inv, LifeInv, OwnInv, OwnAt, Over
<1>2. rht[c] = None /\ \A k \in Tuples : ~Mine(c, k)
  BY <1>1, QuietFacts DEF After
<1>3. registry[c] = NoEntry
  BY DEF Inv, LifeInv, StampInv
<1> QED BY <1>2, <1>3 DEF Mine

\* An installed flow has the tuple of the flow there is.
LEMMA InstalledKey ==
  ASSUME NEW c \in Cookies, Inv, rht[c] # None, conn[c] # None
  PROVE  rht[c].k = conn[c] /\ rht[c].hw
<1>1. rht[c].k \in Tuples /\ Carries(c, rht[c].k)
  BY DEF Inv, TypeInv, DataOK, Flow, Carries
<1> QED BY <1>1 DEF Inv, LifeInv, KeyInv, FormInv, Installed

LEMMA InvOrphan == Inv => NoOrphanRecord
<1> SUFFICES ASSUME Inv, NEW k \in Tuples, fe[k] # None, Quiet(fe[k].owner)
             PROVE  Backed(fe[k].owner) /\ rht[fe[k].owner].k = k
  BY DEF NoOrphanRecord
<1>1. PICK c \in Cookies : c = fe[k].owner
  BY DEF Inv, TypeInv, DataOK, Record
<1>2. Mine(c, k) /\ \A t \in Threads : ~Post(t, c) /\ ~Wrote(t, c) /\ ~Cut(t, c)
  BY <1>1, QuietFacts DEF Mine
<1>3. ~Over(c)
  BY <1>2 DEF Inv, LifeInv, OwnInv, OwnAt, After
<1>4. rht[c] # None /\ k = conn[c] /\ conn[c] # None
  BY <1>2, <1>3 DEF Inv, LifeInv, OwnInv, OwnAt, Before, Over
<1> QED BY <1>1, <1>4, InstalledKey DEF Backed

LEMMA InvBacked == Inv => BackedHasRecord
<1> SUFFICES ASSUME Inv, NEW c \in Cookies, conn[c] # None, Backed(c), Quiet(c)
             PROVE  fe[rht[c].k] = [owner |-> c, gen |-> rht[c].gen, mac |-> rht[c].mac,
                                    sink |-> rht[c].k]
  BY DEF BackedHasRecord
<1>1. ~Over(c) /\ \A t \in Threads : ~Post(t, c)
  BY QuietFacts DEF Over
<1>2. Exact(c, conn[c])
  BY <1>1 DEF Inv, LifeInv, OwnInv, OwnAt, Before, Backed
<1>3. conn[c] = rht[c].k
  BY InstalledKey DEF Backed
<1> QED BY <1>2, <1>3 DEF Exact

\* A destroyed flow does not come back: whatever REPLACE, replay or worker was
\* between two steps of its call when DESTROY ran, once they are through no
\* entry of the flow table, no FE record and no generation of the cookie is left.
THEOREM DestroyedStaysGone == ASSUME Undisturbed PROVE SettledSpec => []NoResurrection
BY OwnerAlways, InvResurrection, PTL

\* Every FE record that is left when nothing in flight concerns its owner is
\* that of the flow installed there: the check after the write and the delete
\* of DESTROY between them catch every record of a flow that is gone.
THEOREM RecordsHaveFlows == ASSUME Undisturbed PROVE SettledSpec => []NoOrphanRecord
BY OwnerAlways, InvOrphan, PTL

\* A live flow of the table has its own record, with its stamp, its address and
\* the TX queue of its own egress: no undo and no delete of another call hits it.
THEOREM FlowsHaveRecords == ASSUME Undisturbed PROVE SettledSpec => []BackedHasRecord
BY OwnerAlways, InvBacked, PTL

\* The flow installed at an address is the one nf_flow_table has there, however
\* often the address was used before.
THEOREM InstalledIsCurrent == ASSUME Undisturbed PROVE SettledSpec => []InstalledIsCurrentConn
<1>1. Inv => InstalledIsCurrentConn
  BY InstalledKey DEF InstalledIsCurrentConn
<1> QED BY <1>1, OwnerAlways, PTL
=============================================================================
