------------------------------ MODULE AskNeigh ------------------------------
(***************************************************************************)
(* The neighbour event queue of ask.ko (ask_neigh.c).                      *)
(*                                                                         *)
(* A netevent notifier runs in atomic context on any CPU, several at once: *)
(* it captures the neighbour's address, coalesces with an event already    *)
(* queued, or allocates outside the lock, checks the cap again, appends    *)
(* and schedules the work item. The work item pops events until the list   *)
(* is empty. Module exit unregisters the notifier, cancels the work and    *)
(* drops what is left. Every queued event holds a device reference.        *)
(*                                                                         *)
(* AskFlow sees this queue as its variable ev, for one neighbour.          *)
(***************************************************************************)
EXTENDS Integers, Sequences, FiniteSets

CONSTANTS
  Cpus,         \* contexts in which the notifier runs
  Neighbours,   \* (device, family, address) of a neighbour
  MaxEv,        \* ASK_NEIGH_EV_MAX
  MaxHa         \* bound: link-layer addresses a neighbour takes

ASSUME NeighAssumption == IsFiniteSet(Cpus) /\ MaxEv \in Nat /\ MaxHa \in Nat

VARIABLES
  ha,           \* present address of a neighbour, 0 when it is not NUD_VALID
  queue,        \* ask_neigh_ev_list
  count,        \* ask_neigh_ev_count
  refs,         \* device references the module holds
  note,         \* the notifier call of each CPU
  pending,      \* the work item is scheduled
  worker,       \* the work function: not running, between events, in one
  phase         \* of the module: up, then the steps of ask_neigh_exit

vars == <<ha, queue, count, refs, note, pending, worker, phase>>

Addrs  == 0..MaxHa
Event  == [n : Neighbours, mac : Addrs]
Call   == [pc : {"idle", "enter", "look", "alloc", "append", "sched"},
           e : Event \cup {<<>>}]
NoCall == [pc |-> "idle", e |-> <<>>]
Phases == {"up", "unregistered", "quiesced", "cancelled", "gone"}

\* The indices of the events queued for neighbour n.
Queued(n) == {i \in 1..Len(queue) : queue[i].n = n}

-----------------------------------------------------------------------------
(* ask_neigh_netevent.                                                     *)

\* A neighbour entry changes (neigh_update): it takes an address or leaves
\* NUD_VALID. Its netevent calls the notifier while it is registered.
NeighUpdate(p, n, m) ==
  /\ phase = "up" /\ note[p] = NoCall
  /\ m # ha[n]
  /\ ha' = [ha EXCEPT ![n] = m]
  /\ note' = [note EXCEPT ![p] = [pc |-> "enter", e |-> [n |-> n, mac |-> 0]]]
  /\ UNCHANGED <<queue, count, refs, pending, worker, phase>>

\* Under the neighbour's lock: a neighbour that is not valid (any more) ends the
\* call, else its address is captured and the lock released.
Capture(p) ==
  LET n == note[p].e.n IN
  /\ note[p].pc = "enter"
  /\ note' = [note EXCEPT ![p] = IF ha[n] = 0 THEN NoCall
                                 ELSE [pc |-> "look", e |-> [n |-> n, mac |-> ha[n]]]]
  /\ UNCHANGED <<ha, queue, count, refs, pending, worker, phase>>

\* Under the queue lock: refresh the first event of this neighbour in place.
Coalesce(p) ==
  LET e == note[p].e IN
  /\ note[p].pc = "look"
  /\ \E i \in Queued(e.n) :
       /\ \A j \in Queued(e.n) : i <= j
       /\ queue' = [queue EXCEPT ![i] = e]
  /\ note' = [note EXCEPT ![p].pc = "sched"]
  /\ UNCHANGED <<ha, count, refs, pending, worker, phase>>

\* Not queued: drop at the cap, else go on to allocate without the lock.
CheckCap(p) ==
  /\ note[p].pc = "look"
  /\ Queued(note[p].e.n) = {}
  /\ note' = [note EXCEPT ![p] = IF count >= MaxEv THEN NoCall ELSE [@ EXCEPT !.pc = "alloc"]]
  /\ UNCHANGED <<ha, queue, count, refs, pending, worker, phase>>

\* MUTANT of Allocate: the device is not held.
AllocateNoHold(p) ==
  /\ note[p].pc = "alloc"
  /\ note' = [note EXCEPT ![p].pc = "append"]
  /\ UNCHANGED <<ha, queue, count, refs, pending, worker, phase>>

\* The event is allocated and takes its device reference.
Allocate(p) ==
  /\ note[p].pc = "alloc"
  /\ refs' = refs + 1
  /\ note' = [note EXCEPT ![p].pc = "append"]
  /\ UNCHANGED <<ha, queue, count, pending, worker, phase>>

\* kzalloc fails: the event is dropped.
AllocateFails(p) ==
  /\ note[p].pc = "alloc"
  /\ note' = [note EXCEPT ![p] = NoCall]
  /\ UNCHANGED <<ha, queue, count, refs, pending, worker, phase>>

\* MUTANT of AppendEvent: the cap is not checked again after the allocation.
AppendUnchecked(p) ==
  /\ note[p].pc = "append"
  /\ queue' = Append(queue, note[p].e)
  /\ count' = count + 1
  /\ note' = [note EXCEPT ![p].pc = "sched"]
  /\ UNCHANGED <<ha, refs, pending, worker, phase>>

\* MUTANT of AppendEvent: the late drop keeps its device reference.
AppendKeepsRef(p) ==
  /\ note[p].pc = "append"
  /\ IF count >= MaxEv
     THEN note' = [note EXCEPT ![p] = NoCall] /\ UNCHANGED <<queue, count>>
     ELSE /\ queue' = Append(queue, note[p].e)
          /\ count' = count + 1
          /\ note' = [note EXCEPT ![p].pc = "sched"]
  /\ UNCHANGED <<ha, refs, pending, worker, phase>>

\* Under the lock again: the cap is re-checked (the late drop gives its device
\* reference back), then the event is appended.
AppendEvent(p) ==
  /\ note[p].pc = "append"
  /\ IF count >= MaxEv
     THEN /\ refs' = refs - 1
          /\ note' = [note EXCEPT ![p] = NoCall]
          /\ UNCHANGED <<queue, count>>
     ELSE /\ queue' = Append(queue, note[p].e)
          /\ count' = count + 1
          /\ note' = [note EXCEPT ![p].pc = "sched"]
          /\ UNCHANGED refs
  /\ UNCHANGED <<ha, pending, worker, phase>>

\* MUTANT of Schedule: nothing is scheduled while the work function runs.
ScheduleIfIdle(p) ==
  /\ note[p].pc = "sched"
  /\ pending' = (pending \/ worker.pc = "off")
  /\ note' = [note EXCEPT ![p] = NoCall]
  /\ UNCHANGED <<ha, queue, count, refs, worker, phase>>

\* schedule_work: it runs again even if it is running now.
Schedule(p) ==
  /\ note[p].pc = "sched"
  /\ pending' = TRUE
  /\ note' = [note EXCEPT ![p] = NoCall]
  /\ UNCHANGED <<ha, queue, count, refs, worker, phase>>

-----------------------------------------------------------------------------
(* ask_neigh_work_fn.                                                      *)

Off == [pc |-> "off", e |-> <<>>]

Work_Start ==
  /\ pending /\ worker.pc = "off"
  /\ pending' = FALSE
  /\ worker' = [pc |-> "loop", e |-> <<>>]
  /\ UNCHANGED <<ha, queue, count, refs, note, phase>>

\* Pop the first event under the lock.
Work_Take ==
  /\ worker.pc = "loop" /\ queue # <<>>
  /\ worker' = [pc |-> "handle", e |-> Head(queue)]
  /\ queue' = Tail(queue)
  /\ count' = count - 1
  /\ UNCHANGED <<ha, refs, note, pending, phase>>

\* The list is empty: the function is past its last look at it ...
Work_Empty ==
  /\ worker.pc = "loop" /\ queue = <<>>
  /\ worker' = [pc |-> "leave", e |-> <<>>]
  /\ UNCHANGED <<ha, queue, count, refs, note, pending, phase>>

\* ... and returns.
Work_Return ==
  /\ worker.pc = "leave"
  /\ worker' = Off
  /\ UNCHANGED <<ha, queue, count, refs, note, pending, phase>>

\* Drain and rebuild for this neighbour (AskFlow), then dev_put.
Work_Handle ==
  /\ worker.pc = "handle"
  /\ refs' = refs - 1
  /\ worker' = [pc |-> "loop", e |-> <<>>]
  /\ UNCHANGED <<ha, queue, count, note, pending, phase>>

-----------------------------------------------------------------------------
(* ask_neigh_exit.                                                         *)

\* unregister_netevent_notifier: no new call starts ...
Exit_Unregister ==
  /\ phase = "up"
  /\ phase' = "unregistered"
  /\ UNCHANGED <<ha, queue, count, refs, note, pending, worker>>

\* ... and the ones that run are waited for (atomic notifier chain).
Exit_Grace ==
  /\ phase = "unregistered" /\ \A p \in Cpus : note[p] = NoCall
  /\ phase' = "quiesced"
  /\ UNCHANGED <<ha, queue, count, refs, note, pending, worker>>

\* MUTANT of Exit_Cancel: does not wait for the running work function.
Exit_CancelNoWait ==
  /\ phase = "quiesced"
  /\ pending' = FALSE
  /\ phase' = "cancelled"
  /\ UNCHANGED <<ha, queue, count, refs, note, worker>>

\* cancel_work_sync: not scheduled any more, and the running instance is over.
Exit_Cancel ==
  /\ phase = "quiesced" /\ worker.pc = "off"
  /\ pending' = FALSE
  /\ phase' = "cancelled"
  /\ UNCHANGED <<ha, queue, count, refs, note, worker>>

\* What is still queued is freed with its references.
Exit_Drain ==
  /\ phase = "cancelled"
  /\ refs' = refs - Len(queue)
  /\ queue' = <<>>
  /\ count' = 0
  /\ phase' = "gone"
  /\ UNCHANGED <<ha, note, pending, worker>>

-----------------------------------------------------------------------------
(* The specification.                                                      *)

Init ==
  /\ ha = [n \in Neighbours |-> 0]
  /\ queue = <<>> /\ count = 0 /\ refs = 0
  /\ note = [p \in Cpus |-> NoCall]
  /\ pending = FALSE /\ worker = Off
  /\ phase = "up"

NotifierStep(p) ==
  \/ Capture(p) \/ Coalesce(p) \/ CheckCap(p) \/ Allocate(p) \/ AllocateFails(p)
  \/ AppendEvent(p) \/ Schedule(p)

WorkStep == Work_Start \/ Work_Take \/ Work_Empty \/ Work_Return \/ Work_Handle

ExitStep == Exit_Unregister \/ Exit_Grace \/ Exit_Cancel \/ Exit_Drain

Next ==
  \/ \E p \in Cpus, n \in Neighbours, m \in Addrs : NeighUpdate(p, n, m)
  \/ \E p \in Cpus : NotifierStep(p)
  \/ WorkStep
  \/ ExitStep

Spec == Init /\ [][Next]_vars

\* A notifier runs to its end, the workqueue runs what is scheduled, and an exit
\* that has begun goes on; nothing forces an update or the exit itself.
Fairness ==
  /\ \A p \in Cpus : WF_vars(NotifierStep(p))
  /\ WF_vars(WorkStep)
  /\ WF_vars(Exit_Grace \/ Exit_Cancel \/ Exit_Drain)

FairSpec == Spec /\ Fairness

-----------------------------------------------------------------------------
(* Properties.                                                             *)

TypeOK ==
  /\ ha \in [Neighbours -> Addrs]
  /\ queue \in Seq(Event) /\ count \in Nat /\ refs \in Nat
  /\ note \in [Cpus -> Call]
  /\ pending \in BOOLEAN
  /\ worker \in [pc : {"off", "loop", "handle", "leave"}, e : Event \cup {<<>>}]
  /\ phase \in Phases

(* The queue never exceeds its cap, although the cap is first checked before *)
(* the lock is dropped for the allocation ("keeps the bound exact"), and the *)
(* counter the checks read is its length.                                    *)
QueueBounded == Len(queue) <= MaxEv /\ count = Len(queue)

\* The notifier calls that hold a reference for an event not yet queued.
Holders == {p \in Cpus : note[p].pc = "append"}

(* Each device reference belongs to one event: queued, being handled, or     *)
(* allocated and not yet queued; none is left when the module is gone.       *)
RefsBalanced ==
  refs = Len(queue) + (IF worker.pc = "handle" THEN 1 ELSE 0) + Cardinality(Holders)

(* No lost wakeup: a queued event finds the work item scheduled, a work      *)
(* function that will look at the list again, or a notifier about to         *)
(* schedule it - until the exit cancels the work.                            *)
NoLostWakeup ==
  queue # <<>> /\ phase \in {"up", "unregistered", "quiesced"} =>
    \/ pending
    \/ worker.pc \in {"loop", "handle"}
    \/ \E p \in Cpus : note[p].pc = "sched"

(* After ask_neigh_exit nothing runs, nothing is queued, no reference is held *)
(* by an event: the module text may go away.                                 *)
GoneClean ==
  phase = "gone" => queue = <<>> /\ refs = 0 /\ ~pending /\ worker = Off
                    /\ \A p \in Cpus : note[p] = NoCall

(* Every queued event is handled, or dropped by the exit.                    *)
EventsHandled == \A n \in Neighbours : Queued(n) # {} ~> Queued(n) = {}
=============================================================================
