---------------------------- MODULE EhashTable ----------------------------
(***************************************************************************)
(* The external-hash flow table that F-254 to F-271 build into fman_pcd.c, *)
(* with the microcode that walks it while the driver changes it.           *)
(*                                                                         *)
(* A bucket with one flow points at its record, one with more at a chain   *)
(* of cumulative nodes.  Nodes are never edited in place: every insert and *)
(* delete builds fresh nodes from the driver's bucket index, switches the  *)
(* head with one store, waits out the lookups in flight (the SYNC) and     *)
(* only then frees what it replaced.  The driver is one thread (fe_lock);  *)
(* lookups run at any time while a port is attached.                       *)
(***************************************************************************)
EXTENDS Naturals, Sequences, FiniteSets, SequencesExt

CONSTANTS Keys, Buckets,
          BucketOf,     \* the bucket of a key (fman_pcd_ehash_bucket_index)
          Recs, Nodes,  \* the blocks of rec_pool and cu_pool
          Walkers,      \* the lookups the microcode runs at a time
          PerNode,      \* keys in a node ("per")
          Tries,        \* FMAN_EHASH_SYNC_TRIES
          MaxWedged,    \* bound: how often a SYNC uses up its attempts
          None

ASSUME TableAssumption ==
    /\ BucketOf \in [Keys -> Buckets]
    /\ PerNode \in Nat \ {0} /\ Tries \in Nat \ {0} /\ MaxWedged \in Nat
    /\ Recs \cap Nodes = {}
    /\ None \notin Keys \cup Recs \cup Nodes
    /\ None \notin [keys : Seq(Keys), recs : Seq(Recs), next : Nodes \cup {None}]

VARIABLES bidx,     \* the driver's flows of each bucket, newest first
          head,     \* each bucket's head: None, a record or a node
          cu,       \* the nodes each head was built from, in chain order
          pub,      \* the records the last head store made reachable
          recKey,   \* the key in a record; None when the block is free
          nodeMem,  \* the contents of a node; None when the block is free
          kept,     \* blocks given up after a SYNC timed out
          step, op, key,    \* where the driver is, in which call, on which key
          x,        \* the record being deleted
          fresh,    \* the nodes being built
          old,      \* the nodes just replaced
          try,      \* SYNC attempts that timed out
          wedged,   \* ehash_sync_wedged: SYNCs given up
          waiting,  \* the lookups the armed SYNC waits for
          walk,     \* the lookups in flight, with what the table promised them
          wrong,    \* the answers that were not as promised
          attached  \* a port sends frames to the table

tableVars == <<bidx, head, cu, pub, recKey, nodeMem, kept, wedged>>
callVars  == <<step, op, key, x, fresh, old, try>>
lookVars  == <<walk, wrong>>
vars == <<tableVars, callVars, lookVars, waiting, attached>>

-----------------------------------------------------------------------------
Bucket == BucketOf[key]

\* The flows the bucket is rebuilt from: all but the one being deleted.
Rest == RemoveFirst(bidx[Bucket], x)

Find(k) ==
    IF \E r \in ToSet(bidx[BucketOf[k]]) : recKey[r] = k
    THEN CHOOSE r \in ToSet(bidx[BucketOf[k]]) : recKey[r] = k
    ELSE None

FreeRecs  == {r \in Recs : recKey[r] = None}
FreeNodes == {n \in Nodes : nodeMem[n] = None}

\* DIV_ROUND_UP(n, per), and no node for a bucket of one flow.
Needed == IF Len(Rest) > 1 THEN (Len(Rest) + PerNode - 1) \div PerNode ELSE 0

\* The records in the i-th node of the rebuilt bucket.
Share(i) == SubSeq(Rest, (i - 1) * PerNode + 1,
                   IF i * PerNode < Len(Rest) THEN i * PerNode ELSE Len(Rest))

Blank == [keys |-> <<>>, recs |-> <<>>, next |-> None]

\* Mutant: the link to the next node is left out.
NodeUnlinked(i) == [keys |-> [j \in DOMAIN Share(i) |-> recKey[Share(i)[j]]],
                    recs |-> Share(i), next |-> None]

Node(i) == [keys |-> [j \in DOMAIN Share(i) |-> recKey[Share(i)[j]]],
            recs |-> Share(i),
            next |-> IF i < Needed THEN fresh[i + 1] ELSE None]

\* What the head is switched to: nothing, the one record, or the first node.
NewHead == IF Rest = <<>> THEN None ELSE IF fresh = <<>> THEN Rest[1] ELSE fresh[1]

WithNodes(ns, c) == [n \in Nodes |-> IF n \in ToSet(ns) THEN c ELSE nodeMem[n]]

NoWalk == [key |-> None, at |-> None, want |-> None]

-----------------------------------------------------------------------------
Init ==
    /\ bidx = [b \in Buckets |-> <<>>] /\ head = [b \in Buckets |-> None]
    /\ cu = [b \in Buckets |-> <<>>] /\ pub = [b \in Buckets |-> {}]
    /\ recKey = [r \in Recs |-> None] /\ nodeMem = [n \in Nodes |-> None]
    /\ kept = {} /\ wedged = 0
    /\ step = "idle" /\ op = "none" /\ key = None /\ x = None
    /\ fresh = <<>> /\ old = <<>> /\ try = 0
    /\ waiting = {}
    /\ walk = [w \in Walkers |-> NoWalk] /\ wrong = {}
    /\ attached = TRUE

\* Mutant: an insert does not look for an older flow with its key.
AddKeyAnyway(k) ==
    /\ step = "idle"
    /\ op' = "add" /\ key' = k /\ x' = None
    /\ step' = "record"
    /\ UNCHANGED <<tableVars, fresh, old, try, waiting, lookVars, attached>>

\* add_key first deletes a flow that already has the key (F-219).
AddKey(k) ==
    /\ step = "idle"
    /\ op' = "add" /\ key' = k /\ x' = Find(k)
    /\ step' = IF Find(k) = None THEN "record" ELSE "nodes"
    /\ UNCHANGED <<tableVars, fresh, old, try, waiting, lookVars, attached>>

DelKey(k) ==
    /\ step = "idle"
    /\ Find(k) # None
    /\ op' = "del" /\ key' = k /\ x' = Find(k)
    /\ step' = "nodes"
    /\ UNCHANGED <<tableVars, fresh, old, try, waiting, lookVars, attached>>

\* The call is over; an insert goes on after its eviction.
Return ==
    /\ IF op = "add" /\ x # None THEN step' = "record" /\ UNCHANGED <<op, key>>
                                 ELSE step' = "idle" /\ op' = "none" /\ key' = None
    /\ x' = None /\ fresh' = <<>> /\ old' = <<>> /\ try' = 0

AllocRecord ==
    /\ step = "record"
    /\ \E r \in FreeRecs :
          /\ recKey' = [recKey EXCEPT ![r] = key]
          /\ bidx' = [bidx EXCEPT ![Bucket] = <<r>> \o @]
    /\ step' = "nodes"
    /\ UNCHANGED <<head, cu, pub, nodeMem, kept, wedged, op, key, x, fresh, old, try,
                   waiting, lookVars, attached>>

AllocRecordFails ==
    /\ step = "record"
    /\ Return
    /\ UNCHANGED <<tableVars, waiting, lookVars, attached>>

AllocNode ==
    /\ step = "nodes" /\ Len(fresh) < Needed
    /\ \E n \in FreeNodes :
          /\ nodeMem' = [nodeMem EXCEPT ![n] = Blank]
          /\ fresh' = Append(fresh, n)
    /\ UNCHANGED <<bidx, head, cu, pub, recKey, kept, wedged, step, op, key, x, old, try,
                   waiting, lookVars, attached>>

\* An insert is taken back; a delete leaves the whole bucket to software.
InsertUndone ==
    /\ x = None
    /\ recKey' = [recKey EXCEPT ![Head(bidx[Bucket])] = None]
    /\ bidx' = [bidx EXCEPT ![Bucket] = Tail(@)]
    /\ Return
    /\ UNCHANGED <<head, cu, pub>>

BucketCleared ==
    /\ x # None
    /\ head' = [head EXCEPT ![Bucket] = None]
    /\ old' = cu[Bucket]
    /\ cu' = [cu EXCEPT ![Bucket] = <<>>]
    /\ pub' = [pub EXCEPT ![Bucket] = {}]
    /\ bidx' = [bidx EXCEPT ![Bucket] = Rest]
    /\ fresh' = <<>> /\ step' = "sync"
    /\ UNCHANGED <<recKey, op, key, x, try>>

\* Mutant: the nodes built so far are forgotten.
AllocNodeFailsLeaks ==
    /\ step = "nodes" /\ Len(fresh) < Needed
    /\ InsertUndone \/ BucketCleared
    /\ UNCHANGED <<nodeMem, kept, wedged, waiting, lookVars, attached>>

AllocNodeFails ==
    /\ step = "nodes" /\ Len(fresh) < Needed
    /\ nodeMem' = WithNodes(fresh, None)
    /\ InsertUndone \/ BucketCleared
    /\ UNCHANGED <<kept, wedged, waiting, lookVars, attached>>

FillNodes ==
    /\ step = "nodes" /\ Len(fresh) = Needed
    /\ nodeMem' = [n \in Nodes |-> IF \E i \in DOMAIN fresh : fresh[i] = n
                                   THEN Node(CHOOSE i \in DOMAIN fresh : fresh[i] = n)
                                   ELSE nodeMem[n]]
    /\ step' = "publish"
    /\ UNCHANGED <<bidx, head, cu, pub, recKey, kept, wedged, op, key, x, fresh, old, try,
                   waiting, lookVars, attached>>

\* Mutant: a delete waits for lookups only when it replaced nodes, as an insert does.
PublishDirect ==
    /\ step = "publish"
    /\ head' = [head EXCEPT ![Bucket] = NewHead]
    /\ pub' = [pub EXCEPT ![Bucket] = ToSet(Rest)]
    /\ cu' = [cu EXCEPT ![Bucket] = fresh]
    /\ bidx' = [bidx EXCEPT ![Bucket] = Rest]
    /\ old' = cu[Bucket] /\ fresh' = <<>>
    /\ step' = IF cu[Bucket] = <<>> THEN "free" ELSE "sync"
    /\ UNCHANGED <<recKey, nodeMem, kept, wedged, op, key, x, try, waiting, lookVars, attached>>

\* wmb, then one store switches the head.
Publish ==
    /\ step = "publish"
    /\ head' = [head EXCEPT ![Bucket] = NewHead]
    /\ pub' = [pub EXCEPT ![Bucket] = ToSet(Rest)]
    /\ cu' = [cu EXCEPT ![Bucket] = fresh]
    /\ bidx' = [bidx EXCEPT ![Bucket] = Rest]
    /\ IF x = None /\ cu[Bucket] = <<>>
       THEN Return
       ELSE step' = "sync" /\ old' = cu[Bucket] /\ fresh' = <<>> /\ UNCHANGED <<op, key, x, try>>
    /\ UNCHANGED <<recKey, nodeMem, kept, wedged, waiting, lookVars, attached>>

-----------------------------------------------------------------------------
(* fman_pcd_ehash_sync.                                                    *)

InFlight == {w \in Walkers : walk[w].at # None}

Arm ==
    /\ step = "sync"
    /\ waiting' = InFlight
    /\ step' = "poll"
    /\ UNCHANGED <<tableVars, op, key, x, fresh, old, try, lookVars, attached>>

\* INV0 reads back clear.
SyncDone ==
    /\ step = "poll" /\ waiting = {}
    /\ step' = "free"
    /\ UNCHANGED <<tableVars, op, key, x, fresh, old, try, waiting, lookVars, attached>>

\* Mutant: the SYNC is armed again without end.
SyncTimeoutForever ==
    /\ step = "poll"
    /\ step' = "sync" /\ try' = try + 1
    /\ waiting' = {}
    /\ UNCHANGED <<tableVars, op, key, x, fresh, old, lookVars, attached>>

\* INV0 is still set after the last poll: armed again, or given up.
SyncTimeout ==
    /\ step = "poll"
    /\ \/ /\ try + 1 < Tries
          /\ step' = "sync" /\ try' = try + 1
          /\ UNCHANGED <<op, key, x, fresh, old, kept, wedged>>
       \/ /\ try + 1 = Tries
          /\ wedged < MaxWedged /\ wedged' = wedged + 1
          /\ kept' = kept \cup ToSet(old) \cup ({x} \ {None})
          /\ Return
    /\ waiting' = {}
    /\ UNCHANGED <<bidx, head, cu, pub, recKey, nodeMem, lookVars, attached>>

FreeOld ==
    /\ step = "free"
    /\ nodeMem' = WithNodes(old, None)
    /\ recKey' = [r \in Recs |-> IF r = x THEN None ELSE recKey[r]]
    /\ Return
    /\ UNCHANGED <<bidx, head, cu, pub, kept, wedged, waiting, lookVars, attached>>

-----------------------------------------------------------------------------
(* The microcode and the ports.                                            *)

\* What the table promises for a key at this moment.
Promised(k) ==
    IF \E r \in pub[BucketOf[k]] : recKey[r] = k
    THEN CHOOSE r \in pub[BucketOf[k]] : recKey[r] = k
    ELSE None

\* A lookup reads the head; an empty bucket is a miss at once.
WalkStart(w, k) ==
    /\ attached /\ walk[w].at = None /\ head[BucketOf[k]] # None
    /\ walk' = [walk EXCEPT ![w] = [key |-> k, at |-> head[BucketOf[k]],
                                    want |-> Promised(k)]]
    /\ UNCHANGED <<tableVars, callVars, waiting, wrong, attached>>

Ends(w, r) ==
    /\ walk' = [walk EXCEPT ![w] = NoWalk]
    /\ wrong' = IF r = walk[w].want THEN wrong ELSE wrong \cup {<<walk[w], r>>}
    /\ waiting' = waiting \ {w}

\* A record matches or misses; it is never followed further.
WalkRecord(w) ==
    /\ walk[w].at \in Recs
    /\ Ends(w, IF recKey[walk[w].at] = walk[w].key THEN walk[w].at ELSE None)
    /\ UNCHANGED <<tableVars, callVars, attached>>

\* A node: the matching record, the next node, or a miss.
WalkNode(w) ==
    /\ walk[w].at \in Nodes
    /\ LET m == nodeMem[walk[w].at]
           hits == IF m = None THEN {} ELSE {i \in DOMAIN m.keys : m.keys[i] = walk[w].key}
           on == IF hits # {} THEN m.recs[CHOOSE i \in hits : TRUE]
                 ELSE IF m = None THEN None ELSE m.next
       IN  IF on # None
           THEN walk' = [walk EXCEPT ![w].at = on] /\ UNCHANGED <<waiting, wrong>>
           ELSE Ends(w, None)
    /\ UNCHANGED <<tableVars, callVars, attached>>

\* Ports are detached before the table is drained.
Detach == attached /\ attached' = FALSE /\ UNCHANGED <<tableVars, callVars, waiting, lookVars>>
Attach == ~attached /\ attached' = TRUE /\ UNCHANGED <<tableVars, callVars, waiting, lookVars>>

\* flow_drain: no SYNC; the heads are cleared and everything is freed but what
\* an earlier timeout gave up.
Drain ==
    /\ step = "idle" /\ ~attached /\ InFlight = {}
    /\ head' = [b \in Buckets |-> None] /\ pub' = [b \in Buckets |-> {}]
    /\ recKey' = [r \in Recs |-> IF r \in kept THEN recKey[r] ELSE None]
    /\ nodeMem' = [n \in Nodes |-> IF n \in kept THEN nodeMem[n] ELSE None]
    /\ bidx' = [b \in Buckets |-> <<>>] /\ cu' = [b \in Buckets |-> <<>>]
    /\ UNCHANGED <<kept, wedged, callVars, waiting, lookVars, attached>>

Driver ==
    \/ AllocRecord \/ AllocRecordFails \/ AllocNode \/ AllocNodeFails \/ FillNodes
    \/ Publish \/ Arm \/ SyncDone \/ SyncTimeout \/ FreeOld

Next ==
    \/ Driver
    \/ \E k \in Keys : AddKey(k) \/ DelKey(k)
    \/ \E w \in Walkers : WalkRecord(w) \/ WalkNode(w) \/ \E k \in Keys : WalkStart(w, k)
    \/ Detach \/ Attach \/ Drain

Spec == Init /\ [][Next]_vars

-----------------------------------------------------------------------------
(* Properties.                                                             *)

\* Every variable keeps its type, and a SYNC is tried at most Tries times
\* (FMAN_EHASH_SYNC_TRIES).
TypeOK ==
    /\ \A b \in Buckets : /\ ToSet(bidx[b]) \subseteq Recs
                          /\ ToSet(cu[b]) \subseteq Nodes
                          /\ pub[b] \subseteq Recs
                          /\ head[b] \in Recs \cup Nodes \cup {None}
    /\ recKey \in [Recs -> Keys \cup {None}]
    /\ kept \subseteq Recs \cup Nodes
    /\ step \in {"idle", "record", "nodes", "publish", "sync", "poll", "free"}
    /\ x \in Recs \cup {None}
    /\ ToSet(fresh) \cup ToSet(old) \subseteq Nodes
    /\ try < Tries
    /\ waiting \subseteq Walkers

Live(b) == (b \in Recs /\ recKey[b] # None) \/ (b \in Nodes /\ nodeMem[b] # None)

Targets(b) == IF b \in Nodes THEN (ToSet(nodeMem[b].recs) \cup {nodeMem[b].next}) \ {None} ELSE {}

\* A lookup never holds, and never finds in the node it is at, a pointer to a
\* block that was freed: replaced nodes and deleted records outlive every
\* lookup that read the old head.
NoUseAfterFree ==
    \A w \in InFlight :
        /\ Live(walk[w].at)
        /\ \A t \in Targets(walk[w].at) : Live(t)

\* A lookup answers what the table promised when it read the bucket head,
\* however the bucket is rebuilt meanwhile: present keys hit their own record,
\* deleted ones miss.
LookupExact == wrong = {}

\* No block is lost: what is allocated is in the index, in a published bucket,
\* in the driver's hands or given up, and what was given up stays allocated.
BlocksAccounted ==
    /\ {r \in Recs : recKey[r] # None} =
           (UNION {ToSet(bidx[b]) : b \in Buckets}) \cup ({x} \ {None}) \cup (kept \cap Recs)
    /\ {n \in Nodes : nodeMem[n] # None} =
           (UNION {ToSet(cu[b]) : b \in Buckets}) \cup ToSet(fresh) \cup ToSet(old)
              \cup (kept \cap Nodes)

\* Between calls every bucket is published whole or left to software whole, and
\* no key has two records.
IndexPublished ==
    step = "idle" =>
        \A b \in Buckets :
            /\ pub[b] = ToSet(bidx[b]) \/ (pub[b] = {} /\ head[b] = None)
            /\ \A r, s \in ToSet(bidx[b]) : recKey[r] = recKey[s] => r = s
=============================================================================
