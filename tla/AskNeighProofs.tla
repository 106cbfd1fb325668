--------------------------- MODULE AskNeighProofs ---------------------------
(***************************************************************************)
(* Proofs about AskNeigh, for any number of notifier contexts, neighbours  *)
(* and any cap.                                                            *)
(*                                                                         *)
(* The invariants of the runs are not inductive one by one: a reference is *)
(* given back safely only because references are balanced, the counter     *)
(* check bounds the list only because the counter is its length, and the   *)
(* exit leaves nothing behind only because its earlier steps left nothing  *)
(* running (Quiesced). Inv is their conjunction.                           *)
(***************************************************************************)
EXTENDS AskNeigh, FiniteSetTheorems, SequenceTheorems, TLAPS

\* What is typed, with the event of every call and of the worker.
Typed ==
  /\ ha \in [Neighbours -> Addrs]
  /\ queue \in Seq(Event) /\ count \in Nat /\ refs \in Int
  /\ note \in [Cpus -> Call]
  /\ \A p \in Cpus : note[p].pc # "idle" => note[p].e \in Event
  /\ pending \in BOOLEAN
  /\ worker \in [pc : {"off", "loop", "handle", "leave"}, e : Event \cup {<<>>}]
  /\ worker.pc = "off" => worker = Off
  /\ phase \in Phases

\* What the steps of the exit that are done have stopped.
Quiesced ==
  /\ phase \in {"quiesced", "cancelled", "gone"} => \A p \in Cpus : note[p] = NoCall
  /\ phase \in {"cancelled", "gone"} => ~pending /\ worker = Off
  /\ phase = "gone" => queue = <<>>

Inv == Typed /\ QueueBounded /\ Quiesced /\ NoLostWakeup

(* Inv holds before the first notifier call.                               *)
LEMMA InvInit == Init => Inv
<1> SUFFICES ASSUME Init PROVE Inv
  OBVIOUS
<1> USE NeighAssumption DEF Init, Off, NoCall, Call, Addrs, Phases
<1>1. queue \in Seq(Event) /\ Len(queue) = 0
  OBVIOUS
<1>2. Typed
  <2>1. ha \in [Neighbours -> Addrs]
    OBVIOUS
  <2>2. note \in [Cpus -> Call] /\ \A p \in Cpus : note[p].pc = "idle"
    OBVIOUS
  <2>3. worker \in [pc : {"off", "loop", "handle", "leave"}, e : Event \cup {<<>>}]
    OBVIOUS
  <2>4. count \in Nat /\ refs \in Int /\ phase \in Phases /\ worker = Off
    OBVIOUS
  <2>5. pending \in BOOLEAN
    BY Zenon
  <2> HIDE DEF Init, Off, NoCall, Call, Addrs, Phases
  <2> QED BY <1>1, <2>1, <2>2, <2>3, <2>4, <2>5 DEF Typed
<1>3. QueueBounded /\ Quiesced /\ NoLostWakeup
  BY <1>1 DEF QueueBounded, Quiesced, NoLostWakeup
<1> QED BY <1>2, <1>3 DEF Inv

(* A notifier's step keeps Inv: the second check of the cap bounds the list *)
(* and Schedule follows every change of it.                                 *)
LEMMA InvNotifier ==
  ASSUME Inv, NEW p \in Cpus,
         (\E n \in Neighbours, m \in Addrs : NeighUpdate(p, n, m)) \/ NotifierStep(p)
  PROVE  Inv'
<1> USE NeighAssumption DEF Inv, Typed, Call, NoCall, Addrs, Event
<1>1. CASE \E n \in Neighbours, m \in Addrs : NeighUpdate(p, n, m)
  BY <1>1 DEF NeighUpdate, QueueBounded, Quiesced, NoLostWakeup
<1>2. CASE Capture(p)
  BY <1>2 DEF Capture, QueueBounded, Quiesced, NoLostWakeup
<1>3. CASE Coalesce(p)
  <2>1. PICK i \in 1..Len(queue) : queue' = [queue EXCEPT ![i] = note[p].e]
    BY <1>3 DEF Coalesce, Queued
  <2>2. note[p].e \in Event
    BY <1>3 DEF Coalesce
  <2>3. queue' \in Seq(Event) /\ Len(queue') = Len(queue)
    BY <2>1, <2>2 DEF Event
  <2>4. note' = [note EXCEPT ![p].pc = "sched"] /\ UNCHANGED <<ha, count, refs, pending, worker, phase>>
    BY <1>3 DEF Coalesce
  <2>5. Typed'
    BY <2>2, <2>3, <2>4
  <2>6. phase \notin {"quiesced", "cancelled", "gone"}
    BY <1>3 DEF Coalesce, Quiesced
  <2> QED BY <2>3, <2>4, <2>5, <2>6 DEF QueueBounded, Quiesced, NoLostWakeup
<1>4. CASE CheckCap(p)
  BY <1>4 DEF CheckCap, QueueBounded, Quiesced, NoLostWakeup
<1>5. CASE Allocate(p)
  BY <1>5 DEF Allocate, QueueBounded, Quiesced, NoLostWakeup
<1>6. CASE AllocateFails(p)
  BY <1>6 DEF AllocateFails, QueueBounded, Quiesced, NoLostWakeup
<1>7. CASE AppendEvent(p)
  <2>1. note[p].pc = "append" /\ note[p].e \in Event
    BY <1>7 DEF AppendEvent
  <2>2. phase \notin {"quiesced", "cancelled", "gone"}
    BY <2>1 DEF Quiesced
  <2>3. CASE count >= MaxEv
    <3>1. /\ refs' = refs - 1 /\ note' = [note EXCEPT ![p] = NoCall]
          /\ UNCHANGED <<ha, queue, count, pending, worker, phase>>
      BY <1>7, <2>3 DEF AppendEvent
    <3> QED BY <2>1, <2>2, <3>1 DEF QueueBounded, Quiesced, NoLostWakeup
  <2>4. CASE ~(count >= MaxEv)
    <3>1. /\ queue' = Append(queue, note[p].e) /\ count' = count + 1
          /\ note' = [note EXCEPT ![p].pc = "sched"]
          /\ UNCHANGED <<ha, refs, pending, worker, phase>>
      BY <1>7, <2>4 DEF AppendEvent
    <3>2. queue' \in Seq(Event) /\ Len(queue') = Len(queue) + 1
      BY <2>1, <3>1
    <3>3. Typed'
      <4>1. note' \in [Cpus -> Call] /\ \A q \in Cpus : note'[q].pc # "idle" => note'[q].e \in Event
        BY <2>1, <3>1
      <4> QED BY <3>1, <3>2, <4>1
    <3> QED BY <2>1, <2>2, <2>4, <3>1, <3>2, <3>3 DEF QueueBounded, Quiesced, NoLostWakeup
  <2> QED BY <2>3, <2>4
<1>8. CASE Schedule(p)
  BY <1>8 DEF Schedule, QueueBounded, Quiesced, NoLostWakeup
<1> QED BY <1>1, <1>2, <1>3, <1>4, <1>5, <1>6, <1>7, <1>8 DEF NotifierStep

(* A step of the work function keeps Inv: it stops looking at the list only *)
(* when it found it empty, and then a notifier that appends schedules it.    *)
LEMMA InvWork == ASSUME Inv, WorkStep PROVE Inv'
<1> USE NeighAssumption DEF Inv, Typed, Call, NoCall, Addrs, Off
<1>1. CASE Work_Start
  BY <1>1 DEF Work_Start, QueueBounded, Quiesced, NoLostWakeup
<1>2. CASE Work_Take
  <2>1. queue' \in Seq(Event) /\ Len(queue') = Len(queue) - 1 /\ Head(queue) \in Event
    BY <1>2 DEF Work_Take
  <2> QED BY <1>2, <2>1 DEF Work_Take, QueueBounded, Quiesced, NoLostWakeup
<1>3. CASE Work_Empty
  BY <1>3 DEF Work_Empty, QueueBounded, Quiesced, NoLostWakeup
<1>4. CASE Work_Return
  BY <1>4 DEF Work_Return, QueueBounded, Quiesced, NoLostWakeup
<1>5. CASE Work_Handle
  BY <1>5 DEF Work_Handle, QueueBounded, Quiesced, NoLostWakeup
<1> QED BY <1>1, <1>2, <1>3, <1>4, <1>5 DEF WorkStep

(* A step of the exit keeps Inv.                                           *)
LEMMA InvExit == ASSUME Inv, ExitStep PROVE Inv'
<1> USE NeighAssumption DEF Inv, Typed, Call, NoCall, Addrs, Phases, QueueBounded,
        Quiesced, NoLostWakeup
<1>1. CASE Exit_Unregister
  BY <1>1 DEF Exit_Unregister
<1>2. CASE Exit_Grace
  BY <1>2 DEF Exit_Grace
<1>3. CASE Exit_Cancel
  BY <1>3 DEF Exit_Cancel
<1>4. CASE Exit_Drain
  BY <1>4 DEF Exit_Drain
<1> QED BY <1>1, <1>2, <1>3, <1>4 DEF ExitStep

(* Inv is inductive.                                                       *)
LEMMA InvNext == ASSUME Inv, [Next]_vars PROVE Inv'
<1>1. CASE UNCHANGED vars
  BY <1>1 DEF vars, Inv, Typed, QueueBounded, Quiesced, NoLostWakeup
<1>2. CASE Next
  BY <1>2, InvNotifier, InvWork, InvExit DEF Next
<1> QED BY <1>1, <1>2

(* The cap re-checked after the unlocked allocation keeps the bound exact:  *)
(* the list never exceeds it and the counter is its length, for any number  *)
(* of concurrent notifiers.                                                 *)
THEOREM QueueIsBounded == Spec => []QueueBounded
<1>1. Inv => QueueBounded
  BY DEF Inv
<1> QED BY <1>1, InvInit, InvNext, PTL DEF Spec

(* A queued event always has somebody who will look at it, until the exit   *)
(* cancels the work item.                                                   *)
THEOREM WakeupsNotLost == Spec => []NoLostWakeup
<1>1. Inv => NoLostWakeup
  BY DEF Inv
<1> QED BY <1>1, InvInit, InvNext, PTL DEF Spec

-----------------------------------------------------------------------------
(* Device references.                                                      *)

(* The set of holders stays finite.                                        *)
LEMMA HoldersFinite == IsFiniteSet(Holders) /\ Cardinality(Holders) \in Nat
<1>1. Holders \subseteq Cpus
  BY DEF Holders
<1> QED BY <1>1, NeighAssumption, FS_Subset, FS_CardinalityType

(* References are balanced before the first call.                          *)
LEMMA RefsInit == Init => RefsBalanced
<1> SUFFICES ASSUME Init PROVE RefsBalanced
  OBVIOUS
<1>1. Holders = {}
  BY DEF Init, NoCall, Holders
<1>2. Len(queue) = 0 /\ refs = 0 /\ worker.pc # "handle"
  BY DEF Init, Off
<1>3. Cardinality(Holders) = 0
  BY <1>1, FS_EmptySet
<1> QED BY <1>2, <1>3 DEF RefsBalanced

(* A step that changes neither the list, the references, the worker's       *)
(* holding of an event nor the holders keeps the balance.                   *)
LEMMA RefsFrame ==
  ASSUME RefsBalanced, Len(queue') = Len(queue), refs' = refs,
         (worker.pc = "handle")' <=> worker.pc = "handle", Holders' = Holders
  PROVE  RefsBalanced'
  BY DEF RefsBalanced

(* A notifier's step keeps the balance: the allocation and the late drop    *)
(* move the reference together with the holder, the append hands it over.   *)
LEMMA RefsNotifier ==
  ASSUME Inv, RefsBalanced, NEW p \in Cpus,
         (\E n \in Neighbours, m \in Addrs : NeighUpdate(p, n, m)) \/ NotifierStep(p)
  PROVE  RefsBalanced'
<1> USE DEF Inv, Typed, Call, NoCall
<1>1. CASE \E n \in Neighbours, m \in Addrs : NeighUpdate(p, n, m)
  <2>1. Holders' = Holders
    BY <1>1 DEF NeighUpdate, Holders
  <2> QED BY <1>1, <2>1, RefsFrame DEF NeighUpdate
<1>2. CASE Capture(p)
  <2>1. Holders' = Holders
    BY <1>2 DEF Capture, Holders
  <2> QED BY <1>2, <2>1, RefsFrame DEF Capture
<1>3. CASE Coalesce(p)
  <2>1. Holders' = Holders
    BY <1>3 DEF Coalesce, Holders
  <2>2. Len(queue') = Len(queue)
    BY <1>3 DEF Coalesce, Queued
  <2> QED BY <1>3, <2>1, <2>2, RefsFrame DEF Coalesce
<1>4. CASE CheckCap(p)
  <2>1. Holders' = Holders
    BY <1>4 DEF CheckCap, Holders
  <2> QED BY <1>4, <2>1, RefsFrame DEF CheckCap
<1>5. CASE Allocate(p)
  <2>1. Holders' = Holders \cup {p} /\ p \notin Holders
    BY <1>5 DEF Allocate, Holders
  <2>2. Cardinality(Holders') = Cardinality(Holders) + 1
    BY <2>1, HoldersFinite, FS_AddElement
  <2>3. refs' = refs + 1 /\ queue' = queue /\ worker' = worker
    BY <1>5 DEF Allocate
  <2>4. Len(queue) \in Nat /\ refs \in Int
    OBVIOUS
  <2> HIDE DEF Inv, Typed, Call, NoCall
  <2> QED BY <2>2, <2>3, <2>4, HoldersFinite DEF RefsBalanced
<1>6. CASE AllocateFails(p)
  <2>1. Holders' = Holders
    BY <1>6 DEF AllocateFails, Holders
  <2> QED BY <1>6, <2>1, RefsFrame DEF AllocateFails
<1>7. CASE AppendEvent(p)
  <2>1. Holders' = Holders \ {p} /\ p \in Holders
    BY <1>7 DEF AppendEvent, Holders
  <2>2. Cardinality(Holders') = Cardinality(Holders) - 1
    BY <2>1, HoldersFinite, FS_RemoveElement
  <2>3. \/ Len(queue') = Len(queue) /\ refs' = refs - 1
        \/ Len(queue') = Len(queue) + 1 /\ refs' = refs
    BY <1>7 DEF AppendEvent
  <2>4. worker' = worker
    BY <1>7 DEF AppendEvent
  <2> QED BY <2>2, <2>3, <2>4, HoldersFinite DEF RefsBalanced
<1>8. CASE Schedule(p)
  <2>1. Holders' = Holders
    BY <1>8 DEF Schedule, Holders
  <2> QED BY <1>8, <2>1, RefsFrame DEF Schedule
<1> QED BY <1>1, <1>2, <1>3, <1>4, <1>5, <1>6, <1>7, <1>8 DEF NotifierStep

(* A step of the work function keeps the balance: it holds the reference of *)
(* the event it took until it is handled.                                   *)
LEMMA RefsWork == ASSUME Inv, RefsBalanced, WorkStep PROVE RefsBalanced'
<1> USE DEF Inv, Typed
<1>0. Holders' = Holders
  BY DEF WorkStep, Work_Start, Work_Take, Work_Empty, Work_Return, Work_Handle, Holders
<1>1. CASE Work_Start
  BY <1>0, <1>1, RefsFrame DEF Work_Start
<1>2. CASE Work_Take
  <2>1. Len(queue') = Len(queue) - 1
    BY <1>2 DEF Work_Take
  <2>2. worker.pc # "handle" /\ worker'.pc = "handle" /\ refs' = refs
    BY <1>2 DEF Work_Take
  <2> QED BY <1>0, <2>1, <2>2, HoldersFinite DEF RefsBalanced
<1>3. CASE Work_Empty
  BY <1>0, <1>3, RefsFrame DEF Work_Empty
<1>4. CASE Work_Return
  BY <1>0, <1>4, RefsFrame DEF Work_Return, Off
<1>5. CASE Work_Handle
  <2>1. worker.pc = "handle" /\ worker'.pc # "handle" /\ refs' = refs - 1 /\ queue' = queue
    BY <1>5 DEF Work_Handle
  <2> QED BY <1>0, <2>1, HoldersFinite DEF RefsBalanced
<1> QED BY <1>1, <1>2, <1>3, <1>4, <1>5 DEF WorkStep

(* A step of the exit keeps the balance: when the list is dropped no call   *)
(* and no work function holds a reference.                                  *)
LEMMA RefsExit == ASSUME Inv, RefsBalanced, ExitStep PROVE RefsBalanced'
<1>0. Holders' = Holders
  BY DEF ExitStep, Exit_Unregister, Exit_Grace, Exit_Cancel, Exit_Drain, Holders
<1>1. CASE Exit_Unregister \/ Exit_Grace \/ Exit_Cancel
  BY <1>0, <1>1, RefsFrame DEF Exit_Unregister, Exit_Grace, Exit_Cancel
<1>2. CASE Exit_Drain
  <2>1. refs' = refs - Len(queue) /\ Len(queue') = 0 /\ worker' = worker
    BY <1>2 DEF Exit_Drain
  <2>2. Len(queue) \in Nat
    BY DEF Inv, Typed
  <2> QED BY <1>0, <2>1, <2>2, HoldersFinite DEF RefsBalanced
<1> QED BY <1>1, <1>2 DEF ExitStep

(* RefsBalanced is preserved in the states of Inv.                          *)
LEMMA RefsNext == ASSUME Inv, RefsBalanced, [Next]_vars PROVE RefsBalanced'
<1>1. CASE UNCHANGED vars
  BY <1>1, RefsFrame DEF vars, Holders
<1>2. CASE Next
  BY <1>2, RefsNotifier, RefsWork, RefsExit DEF Next
<1> QED BY <1>1, <1>2

(* Every device reference belongs to one event: dev_hold and dev_put are    *)
(* paired on every path of notifier, worker and exit.                       *)
THEOREM RefsAreBalanced == Spec => []RefsBalanced
  BY InvInit, InvNext, RefsInit, RefsNext, PTL DEF Spec

(* The state stays well typed; the references never go negative.            *)
THEOREM TypeCorrect == Spec => []TypeOK
<1>1. Inv /\ RefsBalanced => TypeOK
  <2> SUFFICES ASSUME Inv, RefsBalanced PROVE TypeOK
    OBVIOUS
  <2>1. Len(queue) \in Nat
    BY DEF Inv, Typed
  <2>2. refs \in Nat
    BY <2>1, HoldersFinite DEF RefsBalanced
  <2> QED BY <2>2 DEF Inv, Typed, TypeOK
<1> QED BY <1>1, InvInit, InvNext, RefsInit, RefsNext, PTL DEF Spec

(* After ask_neigh_exit nothing is scheduled, running or queued, and no      *)
(* reference is held by an event.                                           *)
THEOREM ExitIsClean == Spec => []GoneClean
<1>1. Inv /\ RefsBalanced => GoneClean
  <2> SUFFICES ASSUME Inv, RefsBalanced, phase = "gone"
               PROVE  queue = <<>> /\ refs = 0 /\ ~pending /\ worker = Off
                      /\ \A p \in Cpus : note[p] = NoCall
    BY DEF GoneClean
  <2>1. queue = <<>> /\ ~pending /\ worker = Off /\ \A p \in Cpus : note[p] = NoCall
    BY DEF Inv, Quiesced
  <2>2. Holders = {}
    BY <2>1 DEF Holders, NoCall
  <2>3. Cardinality(Holders) = 0
    BY <2>2, FS_EmptySet
  <2>4. refs = 0
    BY <2>1, <2>3 DEF RefsBalanced, Off
  <2> QED BY <2>1, <2>4
<1> QED BY <1>1, InvInit, InvNext, RefsInit, RefsNext, PTL DEF Spec
=============================================================================
