------------------------------ MODULE AskFlow -------------------------------
(***************************************************************************)
(* Ownership of an offloaded flow direction in ask.ko.                     *)
(*                                                                         *)
(* nf_flow_table hands a flow direction to the driver as a cookie (the     *)
(* address of its tuple). FLOW_CLS_REPLACE claims a generation for the     *)
(* cookie, publishes a software entry (the rhashtable), takes a hardware   *)
(* cookie (the xarray of ask_hw.c) and writes the FE ehash record that     *)
(* forwards in silicon; FLOW_CLS_DESTROY undoes all of it. Between them    *)
(* run three workers: the pending poll, the neighbour worker (drain of     *)
(* parked flows, then rebuild of flows whose next-hop MAC changed) and     *)
(* the flush worker of device, FDB and route changes.                      *)
(*                                                                         *)
(* A thread is inside one call of the driver; th[t].pc is the next piece   *)
(* of that call that reads or writes shared state under one lock, so every *)
(* interleaving the locks permit is a behaviour of this specification.     *)
(***************************************************************************)
EXTENDS AskGen, Integers, FiniteSets

CONSTANTS
  Cookies,      \* addresses nf_flow_table uses for flow directions
  Tuples,       \* 5-tuples (with ingress port): the key of an FE record
  Nft,          \* threads that deliver REPLACE and DESTROY
  Workers,      \* the work items that run: subset of {"poll","neigh","flush"}
  None,         \* the absent value
  Overlap,      \* TRUE: a DESTROY may overlap a REPLACE that claimed its
                \* generation; FALSE: one callback per cookie (NF_FLOW_HW_PENDING)
  TuplesAt,     \* the tuples flows at a cookie may carry
  HwOutcomes,   \* results of preflight + hw insert: {"hw","sw","again","fail"}
  MaxFlows,     \* module parameter max_flows (0 disables the cap)
  MaxPending,   \* ASK_FLOW_PENDING_MAX
  MaxHwId,      \* bound: hardware cookies
  MaxFake,      \* bound: software-fallback ids handed out
  MaxGen,       \* bound: claims per registry entry
  MaxBorn,      \* bound: flows that live at one cookie, one after another
  MaxMac,       \* bound: link-layer addresses the next hop takes
  MaxRoute      \* bound: device / FDB / route changes

AllWorkers == {"poll", "neigh", "flush"}
Threads    == Nft \cup Workers
Ids        == 0..(MaxHwId + MaxFake)
HwIds      == 1..MaxHwId
Gens       == 0..MaxGen
Macs       == 0..MaxMac
Routes     == 0..MaxRoute

ASSUME FlowAssumption ==
  /\ Workers \subseteq AllWorkers
  /\ Nft \cap AllWorkers = {}
  /\ None \notin Cookies \cup Tuples
  /\ Overlap \in BOOLEAN /\ TuplesAt \in [Cookies -> SUBSET Tuples]
  /\ HwOutcomes \subseteq {"hw", "sw", "again", "fail"}
  /\ MaxFlows \in Nat /\ MaxPending \in Nat /\ MaxHwId \in Nat /\ MaxFake \in Nat
  /\ MaxGen \in Nat /\ MaxGen < GenLimit
  /\ MaxBorn \in Nat /\ MaxMac \in Nat /\ MaxRoute \in Nat

VARIABLES
  \* nf_flow_table and the network (the environment of the module)
  conn,         \* tuple of the flow now at a cookie, None when free
  dying,        \* cookies whose flow was torn down and waits for DESTROY
  born,         \* flows that have lived at a cookie so far
  nbr,          \* the next-hop neighbour entry: its address and NUD_VALID
  ev,           \* address of the queued neighbour event, 0 when none
  route,        \* version of the device / FDB / route state flows are built from
  flushReq,     \* a change queued for the flush work item
  \* the module
  registry,     \* ownership generations
  rht,          \* software flow table: cookie -> flow
  hwTab,        \* hardware cookies: id -> tuple whose TX FQ it holds
  fake,         \* fake_hw_id_seq
  numFlows,     \* num_flows
  numHw,        \* num_hw_backed
  fe,           \* FE ehash records: tuple -> record
  pending,      \* parked flows
  \* threads
  th,           \* the call each thread is in
  work,         \* private list of a worker
  cur           \* address of the neighbour event being handled

env  == <<conn, dying, born, nbr, ev, route, flushReq>>
hw   == <<hwTab, fake>>
cnt  == <<numFlows, numHw>>
vars == <<conn, dying, born, nbr, ev, route, flushReq, registry, rht, hwTab,
          fake, numFlows, numHw, fe, pending, th, work, cur>>

-----------------------------------------------------------------------------
(* State of a flow, of its silicon record and of a call.                   *)

\* struct ask_flow; mac and rt are the parts of the key built from nbr and route
Flow == [k : Tuples, mac : Macs, rt : Routes, gen : Gens, hw : BOOLEAN, id : Ids]

ASSUME NoneAssumption == None \notin Flow

\* FE ehash record. The delete compares only the tuple: owner and gen record
\* which publication wrote it, for the properties.
Record == [owner : Cookies, gen : Gens, mac : Macs, sink : Tuples]

\* struct ask_flow_pending, ask_neigh_mac_fixup and ask_flush_victim
Item == [c : Cookies, k : Tuples, mac : Macs, rt : Routes, gen : Gens]

Pcs == {"idle", "claim", "resolve", "park", "admit", "hw", "gate", "publish",
        "count", "check", "backed", "sink", "feadd", "fecheck", "feundo",
        "unlink", "release", "tomb", "drop", "lookup", "fedel", "forget",
        "take", "reresolve", "collect", "next", "recheck"}

\* "op" is the caller a helper returns to; "undo" marks its rollback.
Ops == {"none", "replace", "destroy", "poll", "drain", "rebuild", "flush"}

Local == [pc : Pcs, op : Ops, undo : BOOLEAN, c : Cookies \cup {None},
          k : Tuples \cup {None}, mac : Macs, rt : Routes, gen : Gens,
          hw : BOOLEAN, id : Ids, sink : Tuples \cup {None},
          old : Tuples \cup {None}]

Idle == [pc |-> "idle", op |-> "none", undo |-> FALSE, c |-> None, k |-> None,
         mac |-> 0, rt |-> 0, gen |-> 0, hw |-> FALSE, id |-> 0, sink |-> None,
         old |-> None]

IsCurrent(c, g) == GenIsCurrent(registry, c, g)

\* Continue the call of thread t with local state l.
Step(t, l) == th' = [th EXCEPT ![t] = l]
Goto(t, p) == Step(t, [th[t] EXCEPT !.pc = p])

\* Return from the helper: an nft callback is over, a worker takes its next item.
Back(t) ==
  CASE th[t].op \in {"replace", "destroy"} -> Idle
    [] th[t].op = "drain" -> [Idle EXCEPT !.pc = "take", !.op = "drain"]
    [] OTHER -> [Idle EXCEPT !.pc = "next", !.op = th[t].op]
Return(t) == Step(t, Back(t))

\* MUTANT of ItemOf: parks without the owner stamp, as before the registry.
ItemUnstamped(l) == [c |-> l.c, k |-> l.k, mac |-> l.mac, rt |-> l.rt]

ItemOf(l) == [c |-> l.c, k |-> l.k, mac |-> l.mac, rt |-> l.rt, gen |-> l.gen]
Load(p, o, i) == [Idle EXCEPT !.pc = p, !.op = o, !.c = i.c, !.k = i.k,
                              !.mac = i.mac, !.rt = i.rt, !.gen = i.gen]
FlowItem(c) == [c |-> c, k |-> rht[c].k, mac |-> rht[c].mac, rt |-> rht[c].rt,
                gen |-> rht[c].gen]
Installed == {c \in Cookies : rht[c] # None}

-----------------------------------------------------------------------------
(* nf_flow_table and the network stack, as the driver sees them (external).*)

\* A flow is set up at a free address. Conntrack holds a tuple once, but may
\* offload it again while the flow it was torn down from is still to be reaped.
NewConn(c, k) ==
  /\ conn[c] = None
  /\ born[c] < MaxBorn
  /\ k \in TuplesAt[c]
  /\ \A d \in Cookies : conn[d] = k => d \in dying
  /\ conn' = [conn EXCEPT ![c] = k]
  /\ born' = [born EXCEPT ![c] = @ + 1]
  /\ UNCHANGED <<dying, nbr, ev, route, flushReq, registry, rht, hw, cnt, fe,
                 pending, th, work, cur>>

\* The flow is torn down: no further REPLACE, a DESTROY will be delivered.
Teardown(c) ==
  /\ conn[c] # None /\ c \notin dying
  /\ dying' = dying \cup {c}
  /\ UNCHANGED <<conn, born, nbr, ev, route, flushReq, registry, rht, hw, cnt,
                 fe, pending, th, work, cur>>

\* The neighbour is (re)confirmed, possibly with a new address; the netevent
\* notifier queues it for the neighbour worker.
NeighUpdate(m) ==
  /\ m \in {nbr.mac, nbr.mac + 1} \cap (1..MaxMac)
  /\ nbr' = [mac |-> m, valid |-> TRUE]
  /\ ev' = m
  /\ UNCHANGED <<conn, dying, born, route, flushReq, registry, rht, hw, cnt,
                 fe, pending, th, work, cur>>

\* The neighbour entry leaves NUD_VALID.
NeighLost ==
  /\ nbr.valid
  /\ nbr' = [nbr EXCEPT !.valid = FALSE]
  /\ UNCHANGED <<conn, dying, born, ev, route, flushReq, registry, rht, hw, cnt,
                 fe, pending, th, work, cur>>

\* A device, FDB or route change: what flows were built from is superseded and
\* the flush work is queued.
RouteChange ==
  /\ route < MaxRoute
  /\ route' = route + 1
  /\ flushReq' = TRUE
  /\ UNCHANGED <<conn, dying, born, nbr, ev, registry, rht, hw, cnt, fe,
                 pending, th, work, cur>>

\* The callbacks in flight for cookie c.
InCallback(c) == {u \in Nft : th[u].c = c}

-----------------------------------------------------------------------------
(* ask_flow_insert_core, for every caller.                                 *)

\* The cap compares the counter as u32: a negative reading is over any cap.
AtCap == MaxFlows # 0 /\ (numFlows < 0 \/ numFlows >= MaxFlows)

\* Admission cap, then the duplicate hint: -ENOSPC / -EEXIST end the call.
Insert_Admit(t) ==
  /\ th[t].pc = "admit"
  /\ IF AtCap \/ rht[th[t].c] # None THEN Return(t) ELSE Goto(t, "hw")
  /\ UNCHANGED <<env, registry, rht, hw, cnt, fe, pending, work, cur>>

\* Preflight and ask_hw_flow_insert take the lowest free hardware cookie.
Insert_HwOk(t) ==
  /\ th[t].pc = "hw" /\ "hw" \in HwOutcomes
  /\ \E i \in HwIds :
       /\ hwTab[i] = None
       /\ \A j \in HwIds : j < i => hwTab[j] # None
       /\ hwTab' = [hwTab EXCEPT ![i] = th[t].k]
       /\ Step(t, [th[t] EXCEPT !.pc = "gate", !.hw = TRUE, !.id = i])
  /\ UNCHANGED <<env, registry, rht, fake, cnt, fe, pending, work, cur>>

\* -ENODEV / -EOPNOTSUPP: software fallback with an id of the fake sequence.
Insert_HwFallback(t) ==
  /\ th[t].pc = "hw" /\ "sw" \in HwOutcomes
  /\ fake < MaxFake
  /\ fake' = fake + 1
  /\ Step(t, [th[t] EXCEPT !.pc = "gate", !.hw = FALSE, !.id = fake + 1])
  /\ UNCHANGED <<env, registry, rht, hwTab, cnt, fe, pending, work, cur>>

\* -EAGAIN or a hard failure: nothing is published, the error goes up.
Insert_HwRefused(t) ==
  /\ th[t].pc = "hw"
  /\ HwOutcomes \cap {"again", "fail"} # {} \/ \A i \in HwIds : hwTab[i] # None
  /\ Return(t)
  /\ UNCHANGED <<env, registry, rht, hw, cnt, fe, pending, work, cur>>

\* MUTANT of HwRollback: frees the id whether or not it is a hardware cookie.
HwRollbackAlways(l) == [i \in HwIds |-> IF i = l.id THEN None ELSE hwTab[i]]

\* ask_hw_flow_remove of a cookie the call holds; only if it is a real one.
HwRollback(l) == IF l.hw THEN [hwTab EXCEPT ![l.id] = None] ELSE hwTab

\* The generation gate, immediately before publication (-ESTALE).
Insert_Gate(t) ==
  LET l == th[t] IN
  /\ l.pc = "gate"
  /\ IF l.gen # 0 /\ ~IsCurrent(l.c, l.gen)
     THEN hwTab' = HwRollback(l) /\ Return(t)
     ELSE Goto(t, "publish") /\ UNCHANGED hwTab
  /\ UNCHANGED <<env, registry, rht, fake, cnt, fe, pending, work, cur>>

\* rhashtable_lookup_insert_fast: the authoritative duplicate check (-EEXIST).
Insert_Publish(t) ==
  LET l == th[t] IN
  /\ l.pc = "publish"
  /\ IF rht[l.c] # None
     THEN hwTab' = HwRollback(l) /\ Return(t) /\ UNCHANGED rht
     ELSE /\ rht' = [rht EXCEPT ![l.c] = [k |-> l.k, mac |-> l.mac, rt |-> l.rt,
                                          gen |-> l.gen, hw |-> l.hw, id |-> l.id]]
          /\ Goto(t, "count")
          /\ UNCHANGED hwTab
  /\ UNCHANGED <<env, registry, fake, cnt, fe, pending, work, cur>>

\* The counters follow the publication; REPLACE re-checks its ownership next,
\* ask_neigh_republish looks the flow up again.
Insert_Count(t) ==
  /\ th[t].pc = "count"
  /\ numFlows' = numFlows + 1
  /\ numHw' = numHw + (IF th[t].hw THEN 1 ELSE 0)
  /\ Goto(t, IF th[t].op = "replace" THEN "check" ELSE "backed")
  /\ UNCHANGED <<env, registry, rht, hw, fe, pending, work, cur>>

-----------------------------------------------------------------------------
(* ask_flow_remove_core: unlink bounded by the generation, then release.   *)

\* -ENOENT, or -ESTALE when a newer flow now occupies the cookie.
Absent(l) == rht[l.c] = None
Stale(l)  == rht[l.c] # None /\ l.gen # 0 /\ rht[l.c].gen > l.gen

\* Where the caller goes on when nothing was removed.
NotRemoved(t) ==
  LET l == th[t] IN
  CASE l.op = "destroy" /\ Absent(l) -> [l EXCEPT !.pc = "forget"]
    [] l.op = "rebuild" /\ ~l.undo -> [l EXCEPT !.pc = "recheck"]
    [] OTHER -> Back(t)

\* Where the caller goes on after its flow was removed.
Removed(t) ==
  LET l == [th[t] EXCEPT !.hw = FALSE, !.id = 0] IN
  CASE l.op = "destroy" -> [l EXCEPT !.pc = IF l.old # None THEN "fedel" ELSE "forget"]
    [] l.op = "flush" -> [l EXCEPT !.pc = "fedel"]
    [] l.op = "rebuild" /\ ~l.undo -> [l EXCEPT !.pc = "recheck"]
    [] OTHER -> Back(t)

\* When a DESTROY callback is over nf_flow_table frees the flow (external).
Reap(c) == /\ conn' = [conn EXCEPT ![c] = None]
           /\ dying' = dying \ {c}

Remove_Unlink(t) ==
  LET l == th[t] IN
  /\ l.pc = "unlink"
  /\ IF Absent(l) \/ Stale(l)
     THEN Step(t, NotRemoved(t)) /\ UNCHANGED rht
     ELSE /\ rht' = [rht EXCEPT ![l.c] = None]
          /\ Step(t, [l EXCEPT !.pc = "release", !.hw = rht[l.c].hw, !.id = rht[l.c].id])
  /\ IF l.op = "destroy" /\ Stale(l) THEN Reap(l.c) ELSE UNCHANGED <<conn, dying>>
  /\ UNCHANGED <<born, nbr, ev, route, flushReq, registry, hw, cnt, fe, pending,
                 work, cur>>

\* MUTANT of Remove_Release: num_hw_backed stays high.
Remove_ReleaseUncounted(t) ==
  LET l == th[t] IN
  /\ l.pc = "release"
  /\ hwTab' = HwRollback(l)
  /\ numFlows' = numFlows - 1
  /\ Step(t, Removed(t))
  /\ UNCHANGED <<env, registry, rht, fake, numHw, fe, pending, work, cur>>

\* MUTANT of Remove_Release: the hardware cookie is not freed.
Remove_ReleaseLeaks(t) ==
  LET l == th[t] IN
  /\ l.pc = "release"
  /\ numHw' = numHw - (IF l.hw THEN 1 ELSE 0)
  /\ numFlows' = numFlows - 1
  /\ Step(t, Removed(t))
  /\ UNCHANGED <<env, registry, rht, hw, fe, pending, work, cur>>

\* Free the hardware cookie of a hardware-backed flow, then both counters.
Remove_Release(t) ==
  LET l == th[t] IN
  /\ l.pc = "release"
  /\ hwTab' = HwRollback(l)
  /\ numHw' = numHw - (IF l.hw THEN 1 ELSE 0)
  /\ numFlows' = numFlows - 1
  /\ Step(t, Removed(t))
  /\ UNCHANGED <<env, registry, rht, fake, fe, pending, work, cur>>

-----------------------------------------------------------------------------
(* The FE ehash record: ask_flow_fe_install, ask_fe_flow_remove.           *)

\* MUTANT of FeWithout: clears every record.
FeClearAll(k) == [x \in Tuples |-> None]

\* ask_fe_flow_remove deletes by tuple, whoever wrote the record.
FeWithout(k) == [fe EXCEPT ![k] = None]

\* ask_hw_flow_get_sink_fqid resolves the id as a hardware cookie; no entry
\* fails closed (-EAGAIN) and the caller rolls back.
Fe_Sink(t) ==
  LET l == th[t] IN
  /\ l.pc = "sink"
  /\ IF l.id \in HwIds /\ hwTab[l.id] # None
     THEN Step(t, [l EXCEPT !.pc = "feadd", !.sink = hwTab[l.id]])
     ELSE Step(t, [l EXCEPT !.pc = "unlink", !.undo = TRUE])
  /\ UNCHANGED <<env, registry, rht, hw, cnt, fe, pending, work, cur>>

\* fman_pcd_fe_flow_add replaces a record of the same tuple.
Fe_Add(t) ==
  LET l == th[t] IN
  /\ l.pc = "feadd"
  /\ fe' = [fe EXCEPT ![l.k] = [owner |-> l.c, gen |-> l.gen, mac |-> l.mac,
                                sink |-> l.sink]]
  /\ Goto(t, "fecheck")
  /\ UNCHANGED <<env, registry, rht, hw, cnt, pending, work, cur>>

\* A gate of ask_fe_flow_insert or the flow add itself fails: roll back.
Fe_AddFails(t) ==
  /\ th[t].pc = "feadd"
  /\ "fail" \in HwOutcomes
  /\ Step(t, [th[t] EXCEPT !.pc = "unlink", !.undo = TRUE])
  /\ UNCHANGED <<env, registry, rht, hw, cnt, fe, pending, work, cur>>

\* MUTANT of Fe_Check: no ownership check after the write.
Fe_CheckSkipped(t) ==
  /\ th[t].pc = "fecheck"
  /\ Return(t)
  /\ UNCHANGED <<env, registry, rht, hw, cnt, fe, pending, work, cur>>

\* Ownership re-checked after the record was written.
Fe_Check(t) ==
  LET l == th[t] IN
  /\ l.pc = "fecheck"
  /\ IF IsCurrent(l.c, l.gen) THEN Return(t) ELSE Goto(t, "feundo")
  /\ UNCHANGED <<env, registry, rht, hw, cnt, fe, pending, work, cur>>

\* Destroyed or superseded meanwhile: delete the record, then the entry.
Fe_Undo(t) ==
  /\ th[t].pc = "feundo"
  /\ fe' = FeWithout(th[t].k)
  /\ Step(t, [th[t] EXCEPT !.pc = "unlink", !.undo = TRUE])
  /\ UNCHANGED <<env, registry, rht, hw, cnt, pending, work, cur>>

\* Delete the record of the flow that DESTROY, the rebuild or a flush removed.
Fe_Delete(t) ==
  LET l == th[t] IN
  /\ l.pc = "fedel"
  /\ fe' = FeWithout(l.old)
  /\ CASE l.op = "destroy" -> Goto(t, "forget")
       [] l.op = "rebuild" -> Goto(t, "admit")
       [] OTHER -> Return(t)
  /\ UNCHANGED <<env, registry, rht, hw, cnt, pending, work, cur>>

-----------------------------------------------------------------------------
(* FLOW_CLS_REPLACE: ask_flow_offload_replace.                             *)

\* The rule is built from the current route state; the dedup lookup ends a
\* REPLACE of an installed cookie with success and no change.
Replace_Dedup(t, c) ==
  /\ th[t].pc = "idle" /\ InCallback(c) = {}
  /\ conn[c] # None /\ c \notin dying
  /\ rht[c] = None
  /\ Step(t, [Idle EXCEPT !.pc = "claim", !.op = "replace", !.c = c,
                          !.k = conn[c], !.rt = route])
  /\ UNCHANGED <<env, registry, rht, hw, cnt, fe, pending, work, cur>>

\* Claim a generation; it becomes the owner stamp of this REPLACE.
Replace_Claim(t) ==
  LET l == th[t] IN
  /\ l.pc = "claim"
  /\ registry[l.c].gen < MaxGen
  /\ registry' = GenNext(registry, l.c)
  /\ Step(t, [l EXCEPT !.pc = "resolve", !.gen = GenCurrent(registry', l.c)])
  /\ UNCHANGED <<env, rht, hw, cnt, fe, pending, work, cur>>

\* The registry store failed: software fallback.
Replace_ClaimFails(t) ==
  /\ th[t].pc = "claim"
  /\ "fail" \in HwOutcomes \/ registry[th[t].c].gen = MaxGen
  /\ Return(t)
  /\ UNCHANGED <<env, registry, rht, hw, cnt, fe, pending, work, cur>>

\* Next-hop resolution and port bind; an IPv4 next hop without address parks.
Replace_Resolve(t) ==
  LET l == th[t] IN
  /\ l.pc = "resolve"
  /\ IF nbr.valid THEN Step(t, [l EXCEPT !.pc = "admit", !.mac = nbr.mac])
                  ELSE Goto(t, "park")
  /\ UNCHANGED <<env, registry, rht, hw, cnt, fe, pending, work, cur>>

\* Multicast next hop, unresolved IPv6 next hop or a failed port bind.
Replace_Refused(t) ==
  /\ th[t].pc = "resolve"
  /\ "fail" \in HwOutcomes
  /\ Return(t)
  /\ UNCHANGED <<env, registry, rht, hw, cnt, fe, pending, work, cur>>

\* MUTANT of Enqueued: the cap is off by one.
EnqueuedOver(i) ==
  IF \E p \in pending : p.c = i.c
  THEN {p \in pending : p.c # i.c} \cup {i}
  ELSE IF Cardinality(pending) > MaxPending THEN pending ELSE pending \cup {i}

\* ask_flow_pending_enqueue: one entry per cookie, overwritten in place; a new
\* cookie is refused when the queue is full.
Enqueued(i) ==
  IF \E p \in pending : p.c = i.c
  THEN {p \in pending : p.c # i.c} \cup {i}
  ELSE IF Cardinality(pending) >= MaxPending THEN pending ELSE pending \cup {i}

\* Its allocation may fail first (-ENOMEM): nothing is parked.
Enqueue(i) ==
  \/ pending' = Enqueued(i)
  \/ "fail" \in HwOutcomes /\ pending' = pending

\* Park, or decline the offload on overflow; the callback is over either way.
Replace_Park(t) ==
  /\ th[t].pc = "park"
  /\ Enqueue(ItemOf(th[t]))
  /\ Return(t)
  /\ UNCHANGED <<env, registry, rht, hw, cnt, fe, work, cur>>

\* Ownership check between publication and the FE install.
Replace_Check(t) ==
  LET l == th[t] IN
  /\ l.pc = "check"
  /\ IF IsCurrent(l.c, l.gen) THEN Goto(t, "sink")
     ELSE Step(t, [l EXCEPT !.pc = "unlink", !.undo = TRUE])
  /\ UNCHANGED <<env, registry, rht, hw, cnt, fe, pending, work, cur>>

-----------------------------------------------------------------------------
(* FLOW_CLS_DESTROY: ask_flow_offload_destroy.                             *)

\* Snapshot the generation that is being destroyed.
Destroy_Snapshot(t, c) ==
  /\ th[t].pc = "idle"
  /\ c \in dying
  /\ \A u \in InCallback(c) : Overlap /\ th[u].op = "replace" /\ th[u].pc # "claim"
  /\ Step(t, [Idle EXCEPT !.pc = "tomb", !.op = "destroy", !.c = c,
                          !.gen = GenCurrent(registry, c)])
  /\ UNCHANGED <<env, registry, rht, hw, cnt, fe, pending, work, cur>>

Destroy_Tombstone(t) ==
  /\ th[t].pc = "tomb"
  /\ registry' = GenTombstone(registry, th[t].c)
  /\ Goto(t, "drop")
  /\ UNCHANGED <<env, rht, hw, cnt, fe, pending, work, cur>>

\* ask_flow_pending_drop_cookie drops every entry of the cookie.
Destroy_DropPending(t) ==
  /\ th[t].pc = "drop"
  /\ pending' = {p \in pending : p.c # th[t].c}
  /\ Goto(t, "lookup")
  /\ UNCHANGED <<env, registry, rht, hw, cnt, fe, work, cur>>

\* MUTANT of Destroy_Lookup: the key is not captured before the unlink.
Destroy_LookupNoKey(t) ==
  /\ th[t].pc = "lookup"
  /\ Goto(t, "unlink")
  /\ UNCHANGED <<env, registry, rht, hw, cnt, fe, pending, work, cur>>

\* The key of the flow, kept for the FE delete after the unlink.
Destroy_Lookup(t) ==
  LET l == th[t] IN
  /\ l.pc = "lookup"
  /\ Step(t, [l EXCEPT !.pc = "unlink",
                       !.old = IF rht[l.c] = None THEN None ELSE rht[l.c].k])
  /\ UNCHANGED <<env, registry, rht, hw, cnt, fe, pending, work, cur>>

\* Erase the registry entry; the callback is over.
Destroy_Forget(t) ==
  LET l == th[t] IN
  /\ l.pc = "forget"
  /\ registry' = GenRelease(registry, l.c)
  /\ Reap(l.c)
  /\ Return(t)
  /\ UNCHANGED <<born, nbr, ev, route, flushReq, rht, hw, cnt, fe, pending,
                 work, cur>>

-----------------------------------------------------------------------------
(* Workers: pending poll, neighbour worker, flush worker.                  *)

\* ask_neigh_republish: only a flow that is (still) hardware-backed gets a record.
Republish_Backed(t) ==
  LET l == th[t] IN
  /\ l.pc = "backed"
  /\ IF rht[l.c] # None /\ rht[l.c].hw THEN Goto(t, "sink") ELSE Return(t)
  /\ UNCHANGED <<env, registry, rht, hw, cnt, fe, pending, work, cur>>

\* MUTANT of Poll_Scan: the poll runs only when a neighbour event is queued.
Poll_ScanOnEvent(t) ==
  /\ t = "poll" /\ th[t].pc = "idle"
  /\ pending # {} /\ nbr.valid /\ ev # 0
  /\ work' = [work EXCEPT ![t] = {[p EXCEPT !.mac = nbr.mac] : p \in pending}]
  /\ pending' = {}
  /\ Step(t, [Idle EXCEPT !.pc = "next", !.op = "poll"])
  /\ UNCHANGED <<env, registry, rht, hw, cnt, fe, cur>>

\* Poll tick: under the queue lock every resolvable entry moves to a private
\* list and takes the neighbour's address.
Poll_Scan(t) ==
  /\ t = "poll" /\ th[t].pc = "idle"
  /\ pending # {} /\ nbr.valid
  /\ work' = [work EXCEPT ![t] = {[p EXCEPT !.mac = nbr.mac] : p \in pending}]
  /\ pending' = {}
  /\ Step(t, [Idle EXCEPT !.pc = "next", !.op = "poll"])
  /\ UNCHANGED <<env, registry, rht, hw, cnt, fe, cur>>

\* The poll's next ready entry: stale ones are dropped, the rest republished.
Poll_Next(t, i) ==
  /\ th[t].pc = "next" /\ th[t].op = "poll"
  /\ i \in work[t]
  /\ work' = [work EXCEPT ![t] = @ \ {i}]
  /\ IF IsCurrent(i.c, i.gen) THEN Step(t, Load("admit", "poll", i))
                              ELSE UNCHANGED th
  /\ UNCHANGED <<env, registry, rht, hw, cnt, fe, pending, cur>>

\* The neighbour worker takes the queued event; ask_flow_neigh_resolved first.
Neigh_Event(t) ==
  /\ t = "neigh" /\ th[t].pc = "idle"
  /\ ev # 0
  /\ cur' = ev /\ ev' = 0
  /\ Step(t, [Idle EXCEPT !.pc = "take", !.op = "drain"])
  /\ UNCHANGED <<conn, dying, born, nbr, route, flushReq, registry, rht, hw,
                 cnt, fe, pending, work>>

\* ask_flow_pending_take_one, until no entry waits for this next hop.
Drain_Take(t, p) ==
  /\ th[t].pc = "take"
  /\ p \in pending
  /\ pending' = pending \ {p}
  /\ Step(t, Load("reresolve", "drain", p))
  /\ UNCHANGED <<env, registry, rht, hw, cnt, fe, work, cur>>

\* Re-resolve: re-park when the address is gone again, drop a stale entry or
\* a multicast next hop, republish the rest.
Drain_Resolve(t) ==
  LET l == th[t] IN
  /\ l.pc = "reresolve"
  /\ \/ /\ ~nbr.valid
        /\ Enqueue(ItemOf([l EXCEPT !.mac = 0]))
        /\ Return(t)
     \/ /\ nbr.valid /\ (~IsCurrent(l.c, l.gen) \/ "fail" \in HwOutcomes)
        /\ Return(t) /\ UNCHANGED pending
     \/ /\ nbr.valid /\ IsCurrent(l.c, l.gen)
        /\ Step(t, [l EXCEPT !.pc = "admit", !.mac = nbr.mac])
        /\ UNCHANGED pending
  /\ UNCHANGED <<env, registry, rht, hw, cnt, fe, work, cur>>

\* The queue is drained: go on with ask_flow_neigh_mac_changed.
Drain_Done(t) ==
  /\ th[t].pc = "take" /\ pending = {}
  /\ Step(t, [Idle EXCEPT !.pc = "collect", !.op = "rebuild"])
  /\ UNCHANGED <<env, registry, rht, hw, cnt, fe, pending, work, cur>>

\* A collector's walk skips a flow it cannot allocate a list entry for.
Collected(S) == IF "fail" \in HwOutcomes THEN SUBSET S ELSE {S}

\* ask_neigh_mac_collect: hardware-backed flows with another address.
Rebuild_Collect(t) ==
  /\ th[t].pc = "collect"
  /\ \E S \in Collected({d \in Installed : rht[d].hw /\ rht[d].mac # cur}) :
       work' = [work EXCEPT ![t] = {[FlowItem(c) EXCEPT !.mac = cur] : c \in S}]
  /\ Goto(t, "next")
  /\ UNCHANGED <<env, registry, rht, hw, cnt, fe, pending, cur>>

\* Next fixup: skipped when its flow is gone or no longer the owner.
Rebuild_Next(t, i) ==
  /\ th[t].pc = "next" /\ th[t].op = "rebuild"
  /\ i \in work[t]
  /\ work' = [work EXCEPT ![t] = @ \ {i}]
  /\ IF rht[i.c] # None /\ IsCurrent(i.c, i.gen)
     THEN Step(t, [Load("unlink", "rebuild", i) EXCEPT !.old = rht[i.c].k])
     ELSE UNCHANGED th
  /\ UNCHANGED <<env, registry, rht, hw, cnt, fe, pending, cur>>

\* After the remove: a cookie that is occupied again is left alone.
Rebuild_Recheck(t) ==
  /\ th[t].pc = "recheck"
  /\ IF rht[th[t].c] # None THEN Return(t) ELSE Goto(t, "fedel")
  /\ UNCHANGED <<env, registry, rht, hw, cnt, fe, pending, work, cur>>

\* The flush work item: every flow of the model is built from the changed
\* state, so ask_flow_flush_matching collects every installed flow.
Flush_Collect(t) ==
  /\ t = "flush" /\ th[t].pc = "idle"
  /\ flushReq
  /\ flushReq' = FALSE
  /\ \E S \in Collected(Installed) :
       work' = [work EXCEPT ![t] = {FlowItem(c) : c \in S}]
  /\ Step(t, [Idle EXCEPT !.pc = "next", !.op = "flush"])
  /\ UNCHANGED <<conn, dying, born, nbr, ev, route, registry, rht, hw, cnt, fe,
                 pending, cur>>

Flush_Next(t, i) ==
  /\ th[t].pc = "next" /\ th[t].op = "flush"
  /\ i \in work[t]
  /\ work' = [work EXCEPT ![t] = @ \ {i}]
  /\ Step(t, [Load("unlink", "flush", i) EXCEPT !.old = i.k])
  /\ UNCHANGED <<env, registry, rht, hw, cnt, fe, pending, cur>>

\* The private list is done: the work item returns.
Worker_Done(t) ==
  /\ th[t].pc = "next" /\ work[t] = {}
  /\ Step(t, Idle)
  /\ cur' = IF t = "neigh" THEN 0 ELSE cur
  /\ UNCHANGED <<env, registry, rht, hw, cnt, fe, pending, work>>

-----------------------------------------------------------------------------
(* The specification.                                                      *)

Init ==
  /\ conn = [c \in Cookies |-> None]
  /\ dying = {}
  /\ born = [c \in Cookies |-> 0]
  /\ nbr = [mac |-> 0, valid |-> FALSE]
  /\ ev = 0 /\ route = 0 /\ flushReq = FALSE
  /\ registry = [c \in Cookies |-> NoEntry]
  /\ rht = [c \in Cookies |-> None]
  /\ hwTab = [i \in HwIds |-> None]
  /\ fake = 0 /\ numFlows = 0 /\ numHw = 0
  /\ fe = [k \in Tuples |-> None]
  /\ pending = {}
  /\ th = [t \in Threads |-> Idle]
  /\ work = [t \in Workers |-> {}]
  /\ cur = 0

Environment ==
  \/ \E c \in Cookies, k \in Tuples : NewConn(c, k)
  \/ \E c \in Cookies : Teardown(c)
  \/ \E m \in Macs : NeighUpdate(m)
  \/ NeighLost
  \/ RouteChange

InsertStep(t) ==
  \/ Insert_Admit(t) \/ Insert_HwOk(t) \/ Insert_HwFallback(t)
  \/ Insert_HwRefused(t) \/ Insert_Gate(t) \/ Insert_Publish(t) \/ Insert_Count(t)

RemoveStep(t) == Remove_Unlink(t) \/ Remove_Release(t)

FeStep(t) ==
  \/ Fe_Sink(t) \/ Fe_Add(t) \/ Fe_AddFails(t) \/ Fe_Check(t) \/ Fe_Undo(t)
  \/ Fe_Delete(t)

ReplaceStep(t) ==
  \/ Replace_Claim(t) \/ Replace_ClaimFails(t) \/ Replace_Resolve(t)
  \/ Replace_Refused(t) \/ Replace_Park(t) \/ Replace_Check(t)

DestroyStep(t) ==
  \/ Destroy_Tombstone(t) \/ Destroy_DropPending(t) \/ Destroy_Lookup(t)
  \/ Destroy_Forget(t)

WorkerStep(t) ==
  \/ Republish_Backed(t)
  \/ Poll_Scan(t) \/ \E i \in work[t] : Poll_Next(t, i)
  \/ Neigh_Event(t) \/ \E p \in pending : Drain_Take(t, p)
  \/ Drain_Resolve(t) \/ Drain_Done(t)
  \/ Rebuild_Collect(t) \/ (\E i \in work[t] : Rebuild_Next(t, i)) \/ Rebuild_Recheck(t)
  \/ Flush_Collect(t) \/ \E i \in work[t] : Flush_Next(t, i)
  \/ Worker_Done(t)

\* A step of the call a thread is in.
CallStep(t) == InsertStep(t) \/ RemoveStep(t) \/ FeStep(t)

NftStep(t) ==
  \/ \E c \in Cookies : Replace_Dedup(t, c)
  \/ \E c \in Cookies : Destroy_Snapshot(t, c)
  \/ ReplaceStep(t) \/ DestroyStep(t)

Next ==
  \/ Environment
  \/ \E t \in Threads : CallStep(t)
  \/ \E t \in Nft : NftStep(t)
  \/ \E t \in Workers : WorkerStep(t)

Spec == Init /\ [][Next]_vars

\* Nothing in flight concerns cookie c.
Quiet(c) ==
  /\ \A t \in Threads : th[t].c # c
  /\ \A t \in Workers : \A i \in work[t] : i.c # c
  /\ \A p \in pending : p.c # c

\* The driver still knows tuple k as one of cookie c.
Carries(c, k) ==
  \/ conn[c] = k
  \/ rht[c] # None /\ rht[c].k = k
  \/ \E t \in Threads : th[t].c = c /\ k \in {th[t].k, th[t].old}
  \/ \E t \in Workers : \E i \in work[t] : i.c = c /\ i.k = k
  \/ \E p \in pending : p.c = c /\ p.k = k

\* nf_flow_table uses an address again, or offloads a tuple at another address,
\* only when the driver is through with the flow it had there.
Settled ==
  \A c \in Cookies : conn[c] = None /\ conn'[c] # None =>
    Quiet(c) /\ \A d \in Cookies \ {c} : ~Carries(d, conn'[c])

SettledSpec == Init /\ [][Next /\ Settled]_vars

\* A kernel thread or work item that has something to do runs, a torn-down flow
\* is handed to DESTROY by the flowtable's garbage collector. The network and
\* new REPLACEs are not forced to happen.
Fairness ==
  /\ \A t \in Nft : WF_vars(CallStep(t) \/ ReplaceStep(t) \/ DestroyStep(t))
  /\ \A t \in Workers : WF_vars(CallStep(t) \/ WorkerStep(t))
  /\ \A c \in Cookies : SF_vars(\E t \in Nft : Destroy_Snapshot(t, c))

FairSpec == Spec /\ Fairness

-----------------------------------------------------------------------------
(* Properties.                                                             *)

TypeOK ==
  /\ conn \in [Cookies -> Tuples \cup {None}]
  /\ dying \subseteq Cookies
  /\ born \in [Cookies -> 0..MaxBorn]
  /\ nbr \in [mac : Macs, valid : BOOLEAN]
  /\ ev \in Macs /\ cur \in Macs /\ route \in Routes /\ flushReq \in BOOLEAN
  /\ registry \in [Cookies -> GenEntry]
  /\ \A c \in Cookies : registry[c].gen \in Gens
  /\ rht \in [Cookies -> Flow \cup {None}]
  /\ hwTab \in [HwIds -> Tuples \cup {None}]
  /\ fake \in 0..MaxFake /\ numFlows \in Int /\ numHw \in Int
  /\ fe \in [Tuples -> Record \cup {None}]
  /\ pending \subseteq Item
  /\ th \in [Threads -> Local]
  /\ work \in [Workers -> SUBSET Item]

\* Thread t is inside insert or remove and holds a hardware cookie.
Holds(t) == th[t].hw /\ th[t].pc \in {"gate", "publish", "release"}

\* The hardware cookie of an installed flow.
Backed(c) == rht[c] # None /\ rht[c].hw

(* No hardware cookie is freed or used twice: one that a hardware-backed     *)
(* flow of the table or a call inserting or removing a flow holds is in use, *)
(* and has no second holder, through every rollback and race.                *)
HwCookieOwned ==
  /\ \A c \in Cookies : Backed(c) => rht[c].id \in HwIds /\ hwTab[rht[c].id] = rht[c].k
  /\ \A t \in Threads : Holds(t) => th[t].id \in HwIds /\ hwTab[th[t].id] # None
  /\ \A c, d \in Cookies : Backed(c) /\ Backed(d) /\ rht[c].id = rht[d].id => c = d
  /\ \A t, u \in Threads : Holds(t) /\ Holds(u) /\ th[t].id = th[u].id => t = u
  /\ \A c \in Cookies, t \in Threads : Backed(c) /\ Holds(t) => rht[c].id # th[t].id

(* No hardware cookie is leaked: each one in use belongs to a flow of the    *)
(* table or to a call that is about to publish it or to give it back.        *)
HwCookieNotLeaked ==
  \A i \in HwIds : hwTab[i] # None =>
    \/ \E c \in Cookies : Backed(c) /\ rht[c].id = i
    \/ \E t \in Threads : Holds(t) /\ th[t].id = i

(* num_flows and num_hw_backed count the table exactly, up to the calls that *)
(* have published or unlinked an entry and not yet adjusted the counters.    *)
CountersExact ==
  /\ numFlows = Cardinality(Installed)
                - Cardinality({t \in Threads : th[t].pc = "count"})
                + Cardinality({t \in Threads : th[t].pc = "release"})
  /\ numHw = Cardinality({c \in Cookies : Backed(c)})
             - Cardinality({t \in Threads : th[t].pc = "count" /\ th[t].hw})
             + Cardinality({t \in Threads : th[t].pc = "release" /\ th[t].hw})

(* The pending queue holds one entry per cookie and never more than its cap. *)
PendingOnePerCookie ==
  /\ \A p, q \in pending : p.c = q.c => p = q
  /\ Cardinality(pending) <= MaxPending

(* A destroyed flow does not come back: once nothing in flight concerns the  *)
(* cookie, no table entry and no FE record of it is left, nor a registry     *)
(* entry (one would stay behind for every address that is not used again).   *)
NoResurrection ==
  \A c \in Cookies : conn[c] = None /\ Quiet(c) =>
    /\ rht[c] = None
    /\ \A k \in Tuples : fe[k] # None => fe[k].owner # c
    /\ registry[c] = NoEntry

(* Every FE record forwards for an installed flow: no orphan record is left  *)
(* in silicon when nothing in flight concerns its owner.                     *)
NoOrphanRecord ==
  \A k \in Tuples : fe[k] # None /\ Quiet(fe[k].owner) =>
    Backed(fe[k].owner) /\ rht[fe[k].owner].k = k

(* A live flow reported as hardware-backed has its own FE record, with its   *)
(* MAC and the TX queue of its own egress.                                   *)
BackedHasRecord ==
  \A c \in Cookies : conn[c] # None /\ c \notin dying /\ Backed(c) /\ Quiet(c) =>
    fe[rht[c].k] = [owner |-> c, gen |-> rht[c].gen, mac |-> rht[c].mac,
                    sink |-> rht[c].k]

(* The flow installed at a cookie is the one nf_flow_table has there.        *)
InstalledIsCurrentConn ==
  \A c \in Cookies : rht[c] # None /\ Quiet(c) /\ conn[c] # None => rht[c].k = conn[c]

(* The owner stamp of an installed flow is the registry's live generation,   *)
(* so the neighbour rebuild does not take it for a superseded flow.  The     *)
(* code breaks this (README, known gaps): no run checks it.                  *)
StampCurrent ==
  \A c \in Cookies : rht[c] # None /\ Quiet(c) => IsCurrent(c, rht[c].gen)

(* With no flush left to run, every installed flow was built from the        *)
(* present device, FDB and route state.  The code breaks this too.           *)
RouteFresh ==
  \A c \in Cookies : rht[c] # None /\ Quiet(c) /\ ~flushReq
                     /\ ("flush" \in Workers => th["flush"].pc = "idle") =>
    rht[c].rt = route

(* A parked flow leaves the queue unless its neighbour stops being valid.    *)
ParkedLeaves ==
  \A c \in Cookies :
    (\E p \in pending : p.c = c) ~> (~nbr.valid \/ \A p \in pending : p.c # c)

(* A torn-down flow leaves the flow table and the silicon.                   *)
TornDownLeavesSilicon ==
  \A c \in Cookies :
    c \in dying ~> (rht[c] = None /\ \A k \in Tuples : fe[k] # None => fe[k].owner # c)
=============================================================================
