-------------------------- MODULE EhashTableProofs --------------------------
(***************************************************************************)
(* Theorems about EhashTable, for any keys, buckets, pools, lookups and    *)
(* node sizes.                                                             *)
(***************************************************************************)
EXTENDS EhashTable, SequenceTheorems, TLAPS

(* Sequences without repetition *)

Distinct(s) == \A i, j \in 1..Len(s) : s[i] = s[j] => i = j

LEMMA ToSetDef ==
    ASSUME NEW S, NEW s \in Seq(S)
    PROVE  /\ \A e : e \in ToSet(s) <=> \E i \in 1..Len(s) : s[i] = e
           /\ ToSet(s) \subseteq S
  <1>1. DOMAIN s = 1..Len(s) /\ s \in [1..Len(s) -> S]
    BY LenProperties
  <1>2. QED
    BY <1>1 DEF ToSet

LEMMA ToSetEmpty == ToSet(<<>>) = {} /\ Distinct(<<>>)
  BY DEF ToSet, Distinct

LEMMA ToSetNonEmpty ==
    ASSUME NEW S, NEW s \in Seq(S), ToSet(s) = {}
    PROVE  s = <<>>
  <1>1. SUFFICES ASSUME s # <<>> PROVE FALSE
    OBVIOUS
  <1>2. Len(s) \in Nat \ {0}
    BY <1>1, EmptySeq
  <1>3. 1 \in 1..Len(s)
    BY <1>2
  <1>4. QED
    BY <1>3, ToSetDef

LEMMA ConsFacts ==
    ASSUME NEW S, NEW s \in Seq(S), NEW e \in S
    PROVE  LET t == <<e>> \o s IN
           /\ t \in Seq(S) /\ t # <<>> /\ Head(t) = e /\ Tail(t) = s
           /\ ToSet(t) = {e} \cup ToSet(s)
           /\ Distinct(s) /\ e \notin ToSet(s) => Distinct(t)
  <1> DEFINE t == <<e>> \o s
  <1>1. /\ t \in Seq(S) /\ Len(t) = Len(s) + 1 /\ Len(s) \in Nat
        /\ t[1] = e
        /\ \A i \in 1..Len(s) : t[i + 1] = s[i]
    OBVIOUS
  <1>2. Head(t) = e /\ t # <<>> /\ Tail(t) = s
    OBVIOUS
  <1> HIDE DEF t
  <1>3. \A i \in 1..Len(t) : i = 1 \/ (i - 1 \in 1..Len(s) /\ t[i] = s[i - 1])
    BY <1>1
  <1>4. ToSet(t) = {e} \cup ToSet(s)
    <2>1. ASSUME NEW a \in ToSet(t) PROVE a \in {e} \cup ToSet(s)
      BY <2>1, <1>1, <1>3, ToSetDef
    <2>2. ASSUME NEW a \in ToSet(s) PROVE a \in ToSet(t)
      <3>1. PICK i \in 1..Len(s) : s[i] = a
        BY <2>2, ToSetDef
      <3>2. i + 1 \in 1..Len(t) /\ t[i + 1] = a
        BY <3>1, <1>1
      <3>3. QED
        BY <3>2, <1>1, ToSetDef
    <2>3. e \in ToSet(t)
      <3>1. 1 \in 1..Len(t)
        BY <1>1
      <3>2. QED
        BY <3>1, <1>1, ToSetDef
    <2>4. QED
      BY <2>1, <2>2, <2>3
  <1>5. ASSUME Distinct(s), e \notin ToSet(s) PROVE Distinct(t)
    <2>1. \A i \in 1..Len(s) : s[i] # e
      BY <1>5, ToSetDef
    <2>2. SUFFICES ASSUME NEW i \in 1..Len(t), NEW j \in 1..Len(t), t[i] = t[j]
                   PROVE  i = j
      BY DEF Distinct
    <2>3. CASE i = 1 \/ j = 1
      BY <2>1, <2>2, <2>3, <1>1, <1>3
    <2>4. CASE i # 1 /\ j # 1
      <3>1. /\ i - 1 \in 1..Len(s) /\ j - 1 \in 1..Len(s)
            /\ s[i - 1] = s[j - 1]
        BY <2>2, <2>4, <1>3
      <3>2. i - 1 = j - 1
        BY <3>1, <1>5 DEF Distinct
      <3>3. QED
        BY <3>2
    <2>5. QED
      BY <2>3, <2>4
  <1>6. QED
    BY <1>1, <1>2, <1>4, <1>5 DEF t

LEMMA HeadTailFacts ==
    ASSUME NEW S, NEW s \in Seq(S), s # <<>>, Distinct(s)
    PROVE  /\ Head(s) \in S /\ Tail(s) \in Seq(S) /\ Distinct(Tail(s))
           /\ ToSet(s) = {Head(s)} \cup ToSet(Tail(s))
           /\ Head(s) \notin ToSet(Tail(s))
  <1> DEFINE t == Tail(s)
  <1>1. /\ Head(s) \in S /\ t \in Seq(S) /\ Len(t) = Len(s) - 1 /\ Len(s) \in Nat \ {0}
        /\ Head(s) = s[1]
        /\ \A i \in 1..Len(t) : t[i] = s[i + 1]
    OBVIOUS
  <1> HIDE DEF t
  <1>2. \A i \in 1..Len(s) : i = 1 \/ (i - 1 \in 1..Len(t) /\ s[i] = t[i - 1])
    BY <1>1
  <1>3. \A i \in 1..Len(t) : i + 1 \in 1..Len(s) /\ i + 1 # 1
    BY <1>1
  <1>4. 1 \in 1..Len(s)
    BY <1>1
  <1>5. Distinct(t)
    BY <1>1, <1>3 DEF Distinct
  <1>6. Head(s) \notin ToSet(t)
    BY <1>1, <1>3, <1>4, ToSetDef DEF Distinct
  <1>7. ToSet(s) = {Head(s)} \cup ToSet(t)
    <2>1. ASSUME NEW a \in ToSet(s) PROVE a \in {Head(s)} \cup ToSet(t)
      BY <2>1, <1>1, <1>2, ToSetDef
    <2>2. ASSUME NEW a \in ToSet(t) PROVE a \in ToSet(s)
      BY <2>2, <1>1, <1>3, ToSetDef
    <2>3. Head(s) \in ToSet(s)
      BY <1>1, <1>4, ToSetDef
    <2>4. QED
      BY <2>1, <2>2, <2>3
  <1>8. QED
    BY <1>1, <1>5, <1>6, <1>7 DEF t

LEMMA AppendFacts ==
    ASSUME NEW S, NEW s \in Seq(S), NEW e \in S
    PROVE  /\ Append(s, e) \in Seq(S)
           /\ ToSet(Append(s, e)) = ToSet(s) \cup {e}
           /\ Distinct(s) /\ e \notin ToSet(s) => Distinct(Append(s, e))
  <1> DEFINE t == Append(s, e)
  <1>1. /\ t \in Seq(S) /\ Len(t) = Len(s) + 1 /\ Len(s) \in Nat /\ t[Len(s) + 1] = e
        /\ \A i \in 1..Len(s) : t[i] = s[i]
    OBVIOUS
  <1> HIDE DEF t
  <1>2. \A i \in 1..Len(t) : i = Len(s) + 1 \/ i \in 1..Len(s)
    BY <1>1
  <1>3. \A i \in 1..Len(s) : i \in 1..Len(t)
    BY <1>1
  <1>4. Len(s) + 1 \in 1..Len(t)
    BY <1>1
  <1>5. ToSet(t) = ToSet(s) \cup {e}
    <2>1. ASSUME NEW a \in ToSet(t) PROVE a \in ToSet(s) \cup {e}
      BY <2>1, <1>1, <1>2, ToSetDef
    <2>2. ASSUME NEW a \in ToSet(s) PROVE a \in ToSet(t)
      BY <2>2, <1>1, <1>3, ToSetDef
    <2>3. e \in ToSet(t)
      BY <1>1, <1>4, ToSetDef
    <2>4. QED
      BY <2>1, <2>2, <2>3
  <1>6. ASSUME Distinct(s), e \notin ToSet(s) PROVE Distinct(t)
    <2>1. \A i \in 1..Len(s) : s[i] # e
      BY <1>6, ToSetDef
    <2>2. QED
      BY <2>1, <1>1, <1>2, <1>6 DEF Distinct
  <1>7. QED
    BY <1>1, <1>5, <1>6 DEF t

\* What is left of a sequence without repetition when an element is removed.
LEMMA RemoveFacts ==
    ASSUME NEW S, NEW s \in Seq(S), Distinct(s), NEW e
    PROVE  LET t == RemoveFirst(s, e) IN
           /\ t \in Seq(S) /\ Distinct(t)
           /\ ToSet(t) = ToSet(s) \ {e}
           /\ e \notin ToSet(s) => t = s
  <1> DEFINE t == RemoveFirst(s, e)
  <1>1. CASE e \notin ToSet(s)
    <2>1. ~\E i \in 1..Len(s) : s[i] = e
      BY <1>1, ToSetDef
    <2>2. t = s
      BY <2>1 DEF RemoveFirst
    <2>3. QED
      BY <2>2, <1>1
  <1>2. CASE e \in ToSet(s)
    <2>1. PICK i \in 1..Len(s) : s[i] = e
      BY <1>2, ToSetDef
    <2>2. {j \in 1..Len(s) : s[j] = e} = {i}
      BY <2>1 DEF Distinct
    <2>3. Min({i}) = i
      BY DEF Min
    <2>4. SelectInSeq(s, LAMBDA v : v = e) = i
      BY <2>2, <2>3 DEF SelectInSeq
    <2>5. t = RemoveAt(s, i)
      BY <2>1, <2>4 DEF RemoveFirst
    <2> DEFINE a == SubSeq(s, 1, i - 1)
               b == SubSeq(s, i + 1, Len(s))
    <2>6. /\ a \in Seq(S) /\ Len(a) = i - 1 /\ \A j \in 1..(i - 1) : a[j] = s[j]
      OBVIOUS
    <2>7. /\ b \in Seq(S) /\ Len(b) = Len(s) - i
          /\ \A j \in 1..(Len(s) - i) : b[j] = s[j + i]
      <3>1. i + 1 \in Int /\ Len(s) \in Nat /\ \A j \in (i + 1)..Len(s) : s[j] \in S
        OBVIOUS
      <3>2. /\ b \in Seq(S) /\ Len(b) = IF i + 1 <= Len(s) THEN Len(s) - (i + 1) + 1 ELSE 0
            /\ \A j \in 1..(Len(s) - (i + 1) + 1) : b[j] = s[(i + 1) + j - 1]
        BY <3>1, SubSeqProperties
      <3> HIDE DEF b
      <3>3. Len(s) - (i + 1) + 1 = Len(s) - i /\ i <= Len(s)
        BY <3>1
      <3>4. Len(b) = Len(s) - i
        BY <3>1, <3>2
      <3>5. ASSUME NEW j \in 1..(Len(s) - i) PROVE b[j] = s[j + i]
        <4>1. (i + 1) + j - 1 = j + i
          BY <3>1
        <4>2. QED
          BY <4>1, <3>2, <3>3
      <3>6. QED
        BY <3>2, <3>4, <3>5
    <2> HIDE DEF a, b
    <2>8. t = a \o b
      BY <2>5 DEF RemoveAt, a, b
    <2>9. /\ t \in Seq(S) /\ Len(t) = Len(s) - 1 /\ Len(s) \in Nat
          /\ \A j \in 1..Len(t) : t[j] = IF j < i THEN s[j] ELSE s[j + 1]
      <3> HIDE DEF t
      <3>1. /\ a \o b \in Seq(S) /\ Len(a \o b) = Len(a) + Len(b)
            /\ \A j \in 1..(Len(a) + Len(b)) :
                 (a \o b)[j] = IF j <= Len(a) THEN a[j] ELSE b[j - Len(a)]
        BY <2>6, <2>7, ConcatProperties
      <3>2. Len(s) \in Nat /\ i \in 1..Len(s) /\ Len(a) + Len(b) = Len(s) - 1
        BY <2>6, <2>7
      <3>3. ASSUME NEW j \in 1..(Len(s) - 1)
            PROVE  (a \o b)[j] = IF j < i THEN s[j] ELSE s[j + 1]
        <4>1. CASE j < i
          BY <4>1, <3>1, <3>2, <3>3, <2>6
        <4>2. CASE ~(j < i)
          <5>1. j - Len(a) \in 1..(Len(s) - i) /\ j - Len(a) + i = j + 1 /\ ~(j <= Len(a))
            BY <4>2, <3>2, <3>3, <2>6
          <5>2. QED
            BY <4>2, <5>1, <3>1, <3>2, <2>7
        <4>3. QED
          BY <4>1, <4>2
      <3>4. QED
        BY <3>1, <3>2, <3>3, <2>8
    <2> HIDE DEF t
    <2>10. Distinct(t)
      <3>1. SUFFICES ASSUME NEW j \in 1..Len(t), NEW k \in 1..Len(t), t[j] = t[k]
                     PROVE  j = k
        BY DEF Distinct
      <3> DEFINE p == IF j < i THEN j ELSE j + 1
                 q == IF k < i THEN k ELSE k + 1
      <3>2. p \in 1..Len(s) /\ q \in 1..Len(s) /\ s[p] = s[q]
        BY <3>1, <2>9
      <3>3. p = q
        BY <3>2 DEF Distinct
      <3>4. QED
        BY <3>3
    <2>11. ToSet(t) \subseteq ToSet(s) \ {e}
      <3>1. SUFFICES ASSUME NEW j \in 1..Len(t) PROVE t[j] \in ToSet(s) \ {e}
        BY <2>9, ToSetDef
      <3> DEFINE p == IF j < i THEN j ELSE j + 1
      <3>2. p \in 1..Len(s) /\ t[j] = s[p] /\ p # i
        BY <3>1, <2>9
      <3>3. QED
        BY <3>2, <2>1, ToSetDef DEF Distinct
    <2>12. ToSet(s) \ {e} \subseteq ToSet(t)
      <3>1. SUFFICES ASSUME NEW p \in 1..Len(s), s[p] # e PROVE s[p] \in ToSet(t)
        BY ToSetDef
      <3> DEFINE j == IF p < i THEN p ELSE p - 1
      <3>2. p # i /\ p \in Nat /\ i \in Nat
        BY <3>1, <2>1
      <3>3. j \in 1..Len(t) /\ t[j] = s[p]
        BY <3>2, <2>9
      <3>4. QED
        BY <3>3, <2>9, ToSetDef
    <2>13. QED
      BY <2>9, <2>10, <2>11, <2>12, <1>2 DEF t
  <1>3. QED
    BY <1>1, <1>2

-----------------------------------------------------------------------------
(* The inductive invariant, in three layers *)

NodeRecord ==
    {m \in [keys : Seq(Keys), recs : Seq(Recs), next : Nodes \cup {None}] :
        Len(m.keys) = Len(m.recs)}

WalkRecordType == [key : Keys \cup {None}, at : Recs \cup Nodes \cup {None},
                   want : Recs \cup {None}]

Steps == {"idle", "record", "nodes", "publish", "sync", "poll", "free"}

Types ==
    /\ bidx \in [Buckets -> Seq(Recs)]
    /\ head \in [Buckets -> Recs \cup Nodes \cup {None}]
    /\ cu \in [Buckets -> Seq(Nodes)]
    /\ pub \in [Buckets -> SUBSET Recs]
    /\ recKey \in [Recs -> Keys \cup {None}]
    /\ nodeMem \in [Nodes -> NodeRecord \cup {None}]
    /\ kept \subseteq Recs \cup Nodes
    /\ step \in Steps
    /\ key \in Keys \cup {None}
    /\ x \in Recs \cup {None}
    /\ fresh \in Seq(Nodes) /\ old \in Seq(Nodes)
    /\ try \in Nat /\ try < Tries
    /\ waiting \subseteq Walkers
    /\ walk \in [Walkers -> WalkRecordType]

\* The bucket of the call is being rebuilt; it has been switched.
Building == step \in {"nodes", "publish"}
Unlinked == step \in {"sync", "poll", "free"}

CallOK ==
    /\ step # "idle" => key \in Keys
    /\ step \in {"idle", "record"} => x = None /\ fresh = <<>> /\ old = <<>>
    /\ Building => /\ old = <<>>
                   /\ IF x = None THEN bidx[Bucket] # <<>> ELSE x \in ToSet(bidx[Bucket])
    /\ Unlinked => fresh = <<>>

\* A record has one place: in the index under its key, in the hands of the
\* delete, or among the blocks given up.
RecsOK ==
    /\ \A b \in Buckets :
          /\ Distinct(bidx[b])
          /\ \A r \in ToSet(bidx[b]) : /\ recKey[r] \in Keys /\ BucketOf[recKey[r]] = b
                                       /\ r \notin kept
          /\ \A r, s \in ToSet(bidx[b]) : recKey[r] = recKey[s] => r = s
    /\ x # None => recKey[x] = key /\ x \notin kept
    /\ Unlinked => \A b \in Buckets : x \notin ToSet(bidx[b])
    /\ step = "record" \/ (Unlinked /\ x # None) =>
          \A r \in ToSet(bidx[Bucket]) : recKey[r] # key

\* So has a node: in one chain, being built, just replaced, or given up.
NodesOK ==
    /\ \A b \in Buckets : ToSet(cu[b]) \cap (kept \cup ToSet(fresh) \cup ToSet(old)) = {}
    /\ \A b, c \in Buckets : b # c => ToSet(cu[b]) \cap ToSet(cu[c]) = {}
    /\ kept \cap (ToSet(fresh) \cup ToSet(old)) = {}
    /\ Distinct(fresh)

\* BlocksAccounted, block by block.
Accounted ==
    /\ \A r \in Recs : recKey[r] # None <=>
           (\E b \in Buckets : r \in ToSet(bidx[b])) \/ r = x \/ r \in kept
    /\ \A n \in Nodes : nodeMem[n] # None <=>
           \/ \E b \in Buckets : n \in ToSet(cu[b])
           \/ n \in ToSet(fresh) \cup ToSet(old) \cup kept

Owned == Types /\ CallOK /\ RecsOK /\ NodesOK /\ Accounted

\* The nodes c are linked in this order, hold records of R only, each with its
\* key, and every record of R is allocated.
Chain(c, R, nm, rk) ==
    /\ \A r \in R : rk[r] # None
    /\ \A i \in 1..Len(c) :
          /\ nm[c[i]] \in NodeRecord
          /\ ToSet(nm[c[i]].recs) \subseteq R
          /\ \A j \in 1..Len(nm[c[i]].recs) : nm[c[i]].keys[j] = rk[nm[c[i]].recs[j]]
          /\ nm[c[i]].next = IF i < Len(c) THEN c[i + 1] ELSE None

\* The head leads to exactly the published records.
HeadOK(h, c, R, nm) ==
    \/ h = None /\ R = {} /\ c = <<>>
    \/ h \in Recs /\ R = {h} /\ c = <<>>
    \/ /\ c # <<>> /\ h = c[1]
       /\ \A r \in R : \E j \in 1..Len(c) : r \in ToSet(nm[c[j]].recs)

\* The index without the record an insert has not published yet.
Listed(b) == IF Building /\ x = None /\ b = Bucket THEN Tail(bidx[b]) ELSE bidx[b]

BucketOK(b) ==
    /\ Chain(cu[b], pub[b], nodeMem, recKey)
    /\ HeadOK(head[b], cu[b], pub[b], nodeMem)
    /\ pub[b] = ToSet(Listed(b)) \/ (pub[b] = {} /\ head[b] = None)

Filled ==
    step = "publish" =>
        /\ Len(fresh) = Needed
        /\ \A i \in 1..Len(fresh) : nodeMem[fresh[i]] = Node(i)

Published == (\A b \in Buckets : BucketOK(b)) /\ Filled

\* A lookup wk stands on the chain c before the record it must find, and R holds
\* no other record with its key.
OnChain(c, R, nm, rk, wk) ==
    /\ wk.at \in ToSet(c) \cup R
    /\ \A r \in R : rk[r] = wk.key <=> r = wk.want
    /\ wk.want # None =>
          \/ wk.at = wk.want
          \/ \E i, j \in 1..Len(c) : wk.at = c[i] /\ i <= j /\ wk.want \in ToSet(nm[c[j]].recs)

\* Blocks only the driver knows; blocks it is about to free.
Private == ToSet(fresh) \cup
           (IF Building /\ x = None THEN {Head(bidx[Bucket])} ELSE {})
Doomed == ToSet(old) \cup ({x} \ {None})

\* The SYNC does not wait for w (any more).
Cleared(w) == step = "free" \/ (step = "poll" /\ w \notin waiting)

Safe(w) ==
    \E c \in Seq(Nodes), R \in SUBSET Recs :
        /\ Chain(c, R, nodeMem, recKey)
        /\ OnChain(c, R, nodeMem, recKey, walk[w])
        /\ (ToSet(c) \cup R) \cap Private = {}
        /\ Cleared(w) => (ToSet(c) \cup R) \cap Doomed = {}

Lookups == (\A w \in InFlight : Safe(w)) /\ wrong = {}

Inv == Owned /\ Published /\ Lookups

-----------------------------------------------------------------------------
(* Ownership of the blocks *)

LEMMA RestFacts ==
    ASSUME Owned, key \in Keys
    PROVE  /\ Bucket \in Buckets /\ bidx[Bucket] \in Seq(Recs)
           /\ Rest \in Seq(Recs) /\ Distinct(Rest)
           /\ ToSet(Rest) = ToSet(bidx[Bucket]) \ {x}
           /\ x = None => Rest = bidx[Bucket]
  <1>1. Bucket \in Buckets
    BY TableAssumption DEF Bucket
  <1>2. bidx[Bucket] \in Seq(Recs) /\ Distinct(bidx[Bucket])
    BY <1>1 DEF Owned, Types, RecsOK
  <1>3. x = None => x \notin ToSet(bidx[Bucket])
    BY <1>2, ToSetDef, TableAssumption
  <1>4. QED
    BY <1>1, <1>2, <1>3, RemoveFacts DEF Rest

LEMMA FindFacts ==
    ASSUME Owned, NEW k \in Keys
    PROVE  /\ Find(k) \in Recs \cup {None}
           /\ Find(k) # None => /\ Find(k) \in ToSet(bidx[BucketOf[k]])
                                /\ recKey[Find(k)] = k
           /\ Find(k) = None => \A r \in ToSet(bidx[BucketOf[k]]) : recKey[r] # k
  <1>1. BucketOf[k] \in Buckets
    BY TableAssumption
  <1>2. ToSet(bidx[BucketOf[k]]) \subseteq Recs
    BY <1>1, ToSetDef DEF Owned, Types
  <1>3. QED
    BY <1>2, TableAssumption DEF Find

\* Steps that leave the table and the call alone.
LEMMA LookOwned ==
    ASSUME Owned, UNCHANGED <<tableVars, callVars>>,
           waiting' \subseteq Walkers, walk' \in [Walkers -> WalkRecordType]
    PROVE  Owned'
  <1>1. Types'
    BY DEF Owned, Types, tableVars, callVars
  <1>2. CallOK' /\ NodesOK' /\ Accounted'
    BY DEF Owned, CallOK, NodesOK, Accounted, Building, Unlinked, Bucket, tableVars, callVars
  <1>3. RecsOK'
    BY DEF Owned, RecsOK, Unlinked, Bucket, tableVars, callVars
  <1>4. QED
    BY <1>1, <1>2, <1>3 DEF Owned

LEMMA AddKeyOwned ==
    ASSUME Owned, NEW k \in Keys, AddKey(k)
    PROVE  Owned'
  <1>1. /\ Find(k) \in Recs \cup {None}
        /\ Find(k) # None => /\ Find(k) \in ToSet(bidx[BucketOf[k]])
                             /\ recKey[Find(k)] = k
        /\ Find(k) = None => \A r \in ToSet(bidx[BucketOf[k]]) : recKey[r] # k
    BY FindFacts
  <1>2. BucketOf[k] \in Buckets
    BY TableAssumption
  <1>a. /\ step = "idle" /\ key' = k /\ x' = Find(k)
        /\ step' = IF Find(k) = None THEN "record" ELSE "nodes"
        /\ UNCHANGED <<bidx, head, cu, pub, recKey, nodeMem, kept, fresh, old, try, waiting, walk>>
    BY DEF AddKey, tableVars, lookVars
  <1>b. x = None /\ fresh = <<>> /\ old = <<>>
    BY <1>a DEF Owned, CallOK
  <1> HIDE DEF Find
  <1>3. Types'
    BY <1>1, <1>a DEF Owned, Types, Steps
  <1>4. CallOK'
    BY <1>1, <1>2, <1>a, <1>b, ToSetEmpty DEF Owned, CallOK, Building, Unlinked, Bucket
  <1>5. RecsOK'
    BY <1>1, <1>2, <1>a DEF Owned, RecsOK, Building, Unlinked, Bucket
  <1>6. NodesOK'
    BY <1>a DEF Owned, NodesOK
  <1>7. Accounted'
    BY <1>1, <1>2, <1>a, <1>b, TableAssumption DEF Owned, Accounted
  <1>8. QED
    BY <1>3, <1>4, <1>5, <1>6, <1>7 DEF Owned

LEMMA DelKeyOwned ==
    ASSUME Owned, NEW k \in Keys, DelKey(k)
    PROVE  Owned'
  <1>1. /\ Find(k) \in Recs /\ Find(k) \in ToSet(bidx[BucketOf[k]])
        /\ recKey[Find(k)] = k /\ Find(k) # None
    BY FindFacts DEF DelKey
  <1>2. BucketOf[k] \in Buckets
    BY TableAssumption
  <1>a. /\ step = "idle" /\ key' = k /\ x' = Find(k) /\ step' = "nodes"
        /\ UNCHANGED <<bidx, head, cu, pub, recKey, nodeMem, kept, fresh, old, try, waiting, walk>>
    BY DEF DelKey, tableVars, lookVars
  <1>b. x = None /\ fresh = <<>> /\ old = <<>>
    BY <1>a DEF Owned, CallOK
  <1> HIDE DEF Find
  <1>3. Types'
    BY <1>1, <1>a DEF Owned, Types, Steps
  <1>4. CallOK'
    BY <1>1, <1>2, <1>a, <1>b, ToSetEmpty DEF Owned, CallOK, Building, Unlinked, Bucket
  <1>5. RecsOK'
    BY <1>1, <1>2, <1>a DEF Owned, RecsOK, Building, Unlinked, Bucket
  <1>6. NodesOK'
    BY <1>a DEF Owned, NodesOK
  <1>7. Accounted'
    BY <1>1, <1>2, <1>a, <1>b, TableAssumption DEF Owned, Accounted
  <1>8. QED
    BY <1>3, <1>4, <1>5, <1>6, <1>7 DEF Owned

LEMMA AllocRecordOwned ==
    ASSUME Owned, AllocRecord
    PROVE  Owned'
  <1>a. /\ step = "record" /\ step' = "nodes"
        /\ UNCHANGED <<head, cu, pub, nodeMem, kept, key, x, fresh, old, try, waiting, walk>>
    BY DEF AllocRecord, lookVars
  <1>b. PICK r \in FreeRecs : /\ recKey' = [recKey EXCEPT ![r] = key]
                              /\ bidx' = [bidx EXCEPT ![Bucket] = <<r>> \o @]
    BY DEF AllocRecord
  <1>c. x = None /\ fresh = <<>> /\ old = <<>> /\ key \in Keys /\ Bucket \in Buckets
    BY <1>a, TableAssumption DEF Owned, CallOK, Bucket
  <1>d. r \in Recs /\ recKey[r] = None /\ bidx[Bucket] \in Seq(Recs) /\ key # None
    BY <1>b, <1>c, TableAssumption DEF FreeRecs, Owned, Types
  <1>e. r \notin kept /\ \A b \in Buckets : r \notin ToSet(bidx[b])
    BY <1>d DEF Owned, Accounted
  <1> DEFINE t == <<r>> \o bidx[Bucket]
  <1>f. /\ t \in Seq(Recs) /\ t # <<>>
        /\ ToSet(t) = {r} \cup ToSet(bidx[Bucket])
        /\ Distinct(t)
    BY <1>c, <1>d, <1>e, ConsFacts DEF Owned, RecsOK
  <1> HIDE DEF t
  <1>g. /\ bidx' \in [Buckets -> Seq(Recs)] /\ bidx'[Bucket] = t /\ Bucket' = Bucket
        /\ \A b \in Buckets : b # Bucket => bidx'[b] = bidx[b]
    BY <1>a, <1>b, <1>c, <1>f DEF t, Owned, Types, Bucket
  <1>h. recKey' \in [Recs -> Keys \cup {None}] /\ recKey'[r] = key
        /\ \A s \in Recs : s # r => recKey'[s] = recKey[s]
    BY <1>b, <1>c, <1>d DEF Owned, Types
  <1>i. \A b \in Buckets : ToSet(bidx[b]) \subseteq Recs
    BY ToSetDef DEF Owned, Types
  <1>3. Types'
    BY <1>a, <1>g, <1>h DEF Owned, Types, Steps
  <1>4. CallOK'
    BY <1>a, <1>c, <1>f, <1>g DEF Owned, CallOK, Building, Unlinked
  <1>5. RecsOK'
    <2>1. ASSUME NEW b \in Buckets
          PROVE  /\ Distinct(bidx'[b])
                 /\ \A s \in ToSet(bidx'[b]) : /\ recKey'[s] \in Keys /\ BucketOf[recKey'[s]] = b
                                               /\ s \notin kept'
                 /\ \A s, u \in ToSet(bidx'[b]) : recKey'[s] = recKey'[u] => s = u
      <3>1. CASE b # Bucket
        BY <3>1, <1>a, <1>e, <1>g, <1>h, <1>i DEF Owned, RecsOK
      <3>2. CASE b = Bucket
        <4>1. \A s \in ToSet(bidx[Bucket]) : recKey[s] # key
          BY <1>a DEF Owned, RecsOK
        <4>2. BucketOf[key] = Bucket
          BY DEF Bucket
        <4>3. \A s \in ToSet(bidx[Bucket]) :
                 /\ s # r /\ s \in Recs /\ recKey'[s] = recKey[s] /\ recKey[s] \in Keys
                 /\ BucketOf[recKey[s]] = Bucket /\ s \notin kept
          BY <1>c, <1>e, <1>h, <1>i DEF Owned, RecsOK
        <4>4. \A s, u \in ToSet(bidx[Bucket]) : recKey[s] = recKey[u] => s = u
          BY <1>c DEF Owned, RecsOK
        <4>5. \A s \in ToSet(bidx'[b]) : s = r \/ s \in ToSet(bidx[Bucket])
          BY <3>2, <1>f, <1>g
        <4>6. \A s \in ToSet(bidx'[b]) : /\ recKey'[s] \in Keys /\ BucketOf[recKey'[s]] = b
                                         /\ s \notin kept'
          BY <3>2, <4>2, <4>3, <4>5, <1>a, <1>c, <1>e, <1>h
        <4>7. \A s, u \in ToSet(bidx'[b]) : recKey'[s] = recKey'[u] => s = u
          BY <4>1, <4>3, <4>4, <4>5, <1>h
        <4>8. QED
          BY <3>2, <4>6, <4>7, <1>f, <1>g
      <3>3. QED
        BY <3>1, <3>2
    <2>2. QED
      BY <2>1, <1>a, <1>c DEF RecsOK, Unlinked
  <1>6. NodesOK'
    BY <1>a DEF Owned, NodesOK
  <1>7. Accounted'
    BY <1>a, <1>c, <1>d, <1>f, <1>g, <1>h DEF Owned, Accounted
  <1>8. QED
    BY <1>3, <1>4, <1>5, <1>6, <1>7 DEF Owned

LEMMA NoneNotNode == None \notin NodeRecord
  BY TableAssumption, Zenon DEF NodeRecord

LEMMA ReturnFacts ==
    ASSUME Return
    PROVE  /\ x' = None /\ fresh' = <<>> /\ old' = <<>> /\ try' = 0
           /\ \/ step' = "record" /\ key' = key /\ x # None
              \/ step' = "idle" /\ key' = None
  BY DEF Return

\* The end of a call leaves it in order, and the index too when the evicted key
\* is gone from it.
LEMMA ReturnOwned ==
    ASSUME Owned, Return, step # "idle",
           step = "record" \/ (Unlinked /\ x # None) \/ x = None
    PROVE  /\ step' \in Steps /\ key' \in Keys \cup {None} /\ x' \in Recs \cup {None}
           /\ fresh' \in Seq(Nodes) /\ old' \in Seq(Nodes) /\ try' \in Nat /\ try' < Tries
           /\ CallOK'
           /\ Distinct(fresh') /\ ToSet(fresh') = {} /\ ToSet(old') = {}
           /\ step' = "record" => Unlinked /\ x # None
  <1>1. /\ x' = None /\ fresh' = <<>> /\ old' = <<>> /\ try' = 0
        /\ \/ step' = "record" /\ key' = key /\ x # None
           \/ step' = "idle" /\ key' = None
    BY ReturnFacts
  <1>2. key \in Keys
    BY DEF Owned, CallOK
  <1>3. <<>> \in Seq(Nodes) /\ 0 \in Nat /\ 0 < Tries
    BY TableAssumption
  <1>4. CallOK'
    BY <1>1, <1>2 DEF CallOK, Building, Unlinked
  <1>5. step' = "record" => Unlinked /\ x # None
    BY <1>1 DEF Owned, CallOK
  <1>6. QED
    BY <1>1, <1>2, <1>3, <1>4, <1>5, ToSetEmpty DEF Steps

LEMMA AllocRecordFailsOwned ==
    ASSUME Owned, AllocRecordFails
    PROVE  Owned'
  <1>a. /\ step = "record" /\ Return
        /\ UNCHANGED <<bidx, head, cu, pub, recKey, nodeMem, kept, waiting, walk>>
    BY DEF AllocRecordFails, tableVars, lookVars
  <1>b. x = None /\ fresh = <<>> /\ old = <<>>
    BY <1>a DEF Owned, CallOK
  <1>c. /\ x' = None /\ step' = "idle"
    BY <1>a, <1>b, ReturnFacts
  <1>d. /\ step' \in Steps /\ key' \in Keys \cup {None} /\ x' \in Recs \cup {None}
        /\ fresh' \in Seq(Nodes) /\ old' \in Seq(Nodes) /\ try' \in Nat /\ try' < Tries
        /\ CallOK'
        /\ Distinct(fresh') /\ ToSet(fresh') = {} /\ ToSet(old') = {}
    BY <1>a, ReturnOwned
  <1>1. Types'
    BY <1>a, <1>d DEF Owned, Types
  <1>2. RecsOK'
    BY <1>a, <1>c DEF Owned, RecsOK, Unlinked
  <1>3. NodesOK'
    BY <1>a, <1>d DEF Owned, NodesOK
  <1>4. Accounted'
    BY <1>a, <1>b, <1>c, <1>d, ToSetEmpty DEF Owned, Accounted
  <1>5. QED
    BY <1>d, <1>1, <1>2, <1>3, <1>4 DEF Owned

LEMMA AllocNodeOwned ==
    ASSUME Owned, AllocNode
    PROVE  Owned'
  <1>a. /\ step = "nodes"
        /\ UNCHANGED <<bidx, head, cu, pub, recKey, kept, step, key, x, old, try, waiting, walk>>
    BY DEF AllocNode, lookVars
  <1>b. PICK n \in FreeNodes : /\ nodeMem' = [nodeMem EXCEPT ![n] = Blank]
                               /\ fresh' = Append(fresh, n)
    BY DEF AllocNode
  <1>c. n \in Nodes /\ nodeMem[n] = None
    BY <1>b DEF FreeNodes
  <1>d. Blank \in NodeRecord /\ Blank # None
    <2>1. Blank \in NodeRecord
      BY DEF Blank, NodeRecord
    <2>2. QED
      BY <2>1, NoneNotNode
  <1>e. /\ nodeMem' \in [Nodes -> NodeRecord \cup {None}] /\ nodeMem'[n] # None
        /\ \A m \in Nodes : m # n => nodeMem'[m] = nodeMem[m]
    BY <1>b, <1>c, <1>d DEF Owned, Types
  <1>f. n \notin kept \cup ToSet(fresh) \cup ToSet(old) /\ \A b \in Buckets : n \notin ToSet(cu[b])
    BY <1>c DEF Owned, Accounted
  <1>g. /\ fresh' \in Seq(Nodes) /\ ToSet(fresh') = ToSet(fresh) \cup {n} /\ Distinct(fresh')
    BY <1>b, <1>c, <1>f, AppendFacts DEF Owned, Types, NodesOK
  <1>1. Types'
    BY <1>a, <1>e, <1>g DEF Owned, Types
  <1>2. CallOK'
    BY <1>a DEF Owned, CallOK, Building, Unlinked, Bucket
  <1>3. RecsOK'
    BY <1>a DEF Owned, RecsOK, Unlinked, Bucket
  <1>4. NodesOK'
    BY <1>a, <1>f, <1>g DEF Owned, NodesOK
  <1>5. Accounted'
    BY <1>a, <1>c, <1>e, <1>f, <1>g DEF Owned, Accounted
  <1>6. QED
    BY <1>1, <1>2, <1>3, <1>4, <1>5 DEF Owned

LEMMA WithNodesFacts ==
    ASSUME Owned, NEW s \in Seq(Nodes), nodeMem' = WithNodes(s, None)
    PROVE  /\ nodeMem' \in [Nodes -> NodeRecord \cup {None}]
           /\ \A n \in Nodes : n \in ToSet(s) => nodeMem'[n] = None
           /\ \A n \in Nodes : n \notin ToSet(s) => nodeMem'[n] = nodeMem[n]
  BY DEF WithNodes, Owned, Types

LEMMA InsertUndoneOwned ==
    ASSUME Owned, AllocNodeFails, InsertUndone
    PROVE  Owned'
  <1>a. /\ step = "nodes" /\ x = None /\ Return /\ nodeMem' = WithNodes(fresh, None)
        /\ UNCHANGED <<head, cu, pub, kept, waiting, walk>>
        /\ recKey' = [recKey EXCEPT ![Head(bidx[Bucket])] = None]
        /\ bidx' = [bidx EXCEPT ![Bucket] = Tail(@)]
    BY DEF AllocNodeFails, InsertUndone, lookVars
  <1>b. /\ key \in Keys /\ bidx[Bucket] # <<>> /\ old = <<>> /\ fresh \in Seq(Nodes)
        /\ bidx[Bucket] \in Seq(Recs) /\ Bucket \in Buckets /\ Distinct(bidx[Bucket])
    BY <1>a, RestFacts DEF Owned, CallOK, Building, Types, RecsOK
  <1>c. x' = None /\ step' = "idle"
    BY <1>a, ReturnFacts
  <1>d. /\ step' \in Steps /\ key' \in Keys \cup {None} /\ x' \in Recs \cup {None}
        /\ fresh' \in Seq(Nodes) /\ old' \in Seq(Nodes) /\ try' \in Nat /\ try' < Tries
        /\ CallOK'
        /\ Distinct(fresh') /\ ToSet(fresh') = {} /\ ToSet(old') = {}
    BY <1>a, ReturnOwned
  <1> DEFINE r == Head(bidx[Bucket])
             t == Tail(bidx[Bucket])
  <1>e. /\ r \in Recs /\ t \in Seq(Recs) /\ Distinct(t)
        /\ ToSet(bidx[Bucket]) = {r} \cup ToSet(t) /\ r \notin ToSet(t)
    BY <1>b, HeadTailFacts
  <1> HIDE DEF r, t
  <1>f. /\ bidx' \in [Buckets -> Seq(Recs)] /\ bidx'[Bucket] = t
        /\ \A b \in Buckets : b # Bucket => bidx'[b] = bidx[b]
    BY <1>a, <1>b, <1>e DEF t, Owned, Types
  <1>g. /\ recKey' \in [Recs -> Keys \cup {None}] /\ recKey'[r] = None
        /\ \A s \in Recs : s # r => recKey'[s] = recKey[s]
    BY <1>a, <1>e DEF r, Owned, Types
  <1>h. /\ nodeMem' \in [Nodes -> NodeRecord \cup {None}]
        /\ \A n \in Nodes : n \in ToSet(fresh) => nodeMem'[n] = None
        /\ \A n \in Nodes : n \notin ToSet(fresh) => nodeMem'[n] = nodeMem[n]
    BY <1>a, <1>b, WithNodesFacts
  <1>i. \A b \in Buckets : ToSet(bidx[b]) \subseteq Recs
    BY ToSetDef DEF Owned, Types
  <1>j. \A b \in Buckets : ToSet(bidx'[b]) \subseteq ToSet(bidx[b]) \ {r}
    <2>1. ASSUME NEW b \in Buckets, b # Bucket PROVE r \notin ToSet(bidx[b])
      BY <2>1, <1>b, <1>e DEF Owned, RecsOK
    <2>2. QED
      BY <2>1, <1>e, <1>f
  <1>k. r \notin kept
    BY <1>b, <1>e DEF Owned, RecsOK
  <1>1. Types'
    BY <1>a, <1>d, <1>f, <1>g, <1>h DEF Owned, Types
  <1>2. RecsOK'
    <2>1. \A b \in Buckets : Distinct(bidx'[b])
      BY <1>b, <1>e, <1>f DEF Owned, RecsOK
    <2>2. \A b \in Buckets : \A s \in ToSet(bidx'[b]) : s \in Recs /\ recKey'[s] = recKey[s]
      BY <1>g, <1>i, <1>j
    <2>3. \A b \in Buckets : \A s \in ToSet(bidx'[b]) : s \in ToSet(bidx[b])
      BY <1>j
    <2>4. ASSUME NEW b \in Buckets
          PROVE  /\ \A s \in ToSet(bidx'[b]) : /\ recKey'[s] \in Keys /\ BucketOf[recKey'[s]] = b
                                               /\ s \notin kept'
                 /\ \A s, u \in ToSet(bidx'[b]) : recKey'[s] = recKey'[u] => s = u
      BY <2>2, <2>3, <1>a DEF Owned, RecsOK
    <2>5. QED
      BY <2>1, <2>4, <1>c DEF RecsOK, Unlinked
  <1>3. NodesOK'
    BY <1>a, <1>d DEF Owned, NodesOK
  <1>4. Accounted'
    <2>1. ASSUME NEW s \in Recs
          PROVE  recKey'[s] # None <=>
                   (\E b \in Buckets : s \in ToSet(bidx'[b])) \/ s = x' \/ s \in kept'
      <3>1. CASE s = r
        BY <3>1, <1>a, <1>c, <1>g, <1>j, <1>k, <1>e, TableAssumption
      <3>2. CASE s # r
        <4>1. (\E b \in Buckets : s \in ToSet(bidx'[b])) <=> (\E b \in Buckets : s \in ToSet(bidx[b]))
          BY <3>2, <1>b, <1>e, <1>f
        <4>2. QED
          BY <3>2, <4>1, <1>a, <1>c, <1>g DEF Owned, Accounted
      <3>3. QED
        BY <3>1, <3>2
    <2>2. ASSUME NEW n \in Nodes
          PROVE  nodeMem'[n] # None <=>
                   \/ \E b \in Buckets : n \in ToSet(cu'[b])
                   \/ n \in ToSet(fresh') \cup ToSet(old') \cup kept'
      BY <1>a, <1>b, <1>d, <1>h, ToSetEmpty DEF Owned, Accounted, NodesOK
    <2>3. QED
      BY <2>1, <2>2 DEF Accounted
  <1>5. QED
    BY <1>d, <1>1, <1>2, <1>3, <1>4 DEF Owned

\* The index after the bucket was switched: the deleted record is gone.
LEMMA SwitchFacts ==
    ASSUME Owned, Building, bidx' = [bidx EXCEPT ![Bucket] = Rest]
    PROVE  /\ key \in Keys /\ Bucket \in Buckets /\ old = <<>>
           /\ bidx' \in [Buckets -> Seq(Recs)] /\ bidx'[Bucket] = Rest
           /\ \A b \in Buckets : /\ b # Bucket => bidx'[b] = bidx[b]
                                 /\ Distinct(bidx'[b])
                                 /\ ToSet(bidx'[b]) = ToSet(bidx[b]) \ {x}
  <1>1. key \in Keys /\ old = <<>>
    BY DEF Owned, CallOK, Building
  <1>2. /\ Bucket \in Buckets /\ Rest \in Seq(Recs) /\ Distinct(Rest)
        /\ ToSet(Rest) = ToSet(bidx[Bucket]) \ {x}
    BY <1>1, RestFacts
  <1>3. /\ bidx' \in [Buckets -> Seq(Recs)] /\ bidx'[Bucket] = Rest
        /\ \A b \in Buckets : b # Bucket => bidx'[b] = bidx[b]
    BY <1>2 DEF Owned, Types
  <1>4. ASSUME NEW b \in Buckets, b # Bucket PROVE x \notin ToSet(bidx[b])
    <2>1. CASE x = None
      BY <2>1, ToSetDef, TableAssumption DEF Owned, Types
    <2>2. CASE x # None
      BY <2>2, <1>2, <1>4 DEF Owned, CallOK, RecsOK
    <2>3. QED
      BY <2>1, <2>2
  <1>5. QED
    BY <1>1, <1>2, <1>3, <1>4 DEF Owned, RecsOK

LEMMA SwitchRecsOK ==
    ASSUME Owned, Building, bidx' = [bidx EXCEPT ![Bucket] = Rest],
           UNCHANGED <<recKey, kept>>,
           \/ step' = "sync" /\ UNCHANGED <<x, key>>
           \/ step' = "idle" /\ x' = None
    PROVE  RecsOK'
  <1>1. /\ key \in Keys /\ Bucket \in Buckets
        /\ \A b \in Buckets : /\ Distinct(bidx'[b])
                              /\ ToSet(bidx'[b]) = ToSet(bidx[b]) \ {x}
    BY SwitchFacts
  <1>2. ASSUME NEW b \in Buckets
        PROVE  /\ Distinct(bidx'[b])
               /\ \A s \in ToSet(bidx'[b]) : /\ recKey'[s] \in Keys /\ BucketOf[recKey'[s]] = b
                                             /\ s \notin kept'
               /\ \A s, u \in ToSet(bidx'[b]) : recKey'[s] = recKey'[u] => s = u
    BY <1>1 DEF Owned, RecsOK
  <1>3. x' # None => recKey'[x'] = key' /\ x' \notin kept'
    BY DEF Owned, RecsOK
  <1>4. Unlinked' => \A b \in Buckets : x' \notin ToSet(bidx'[b])
    BY <1>1 DEF Unlinked
  <1>5. ASSUME Unlinked' /\ x' # None, NEW s \in ToSet(bidx'[Bucket'])
        PROVE  recKey'[s] # key'
    <2>1. x' = x /\ key' = key /\ Bucket' = Bucket /\ x # None
      BY <1>5 DEF Unlinked, Bucket
    <2>2. x \in ToSet(bidx[Bucket]) /\ recKey[x] = key
      BY <2>1 DEF Owned, CallOK, RecsOK
    <2>3. s \in ToSet(bidx[Bucket]) /\ s # x
      BY <2>1, <1>1, <1>5
    <2>4. QED
      BY <2>1, <2>2, <2>3, <1>1 DEF Owned, RecsOK
  <1>6. QED
    BY <1>2, <1>3, <1>4, <1>5 DEF RecsOK

LEMMA BucketClearedOwned ==
    ASSUME Owned, AllocNodeFails, BucketCleared
    PROVE  Owned'
  <1>a. /\ step = "nodes" /\ x # None /\ nodeMem' = WithNodes(fresh, None)
        /\ head' = [head EXCEPT ![Bucket] = None]
        /\ old' = cu[Bucket]
        /\ cu' = [cu EXCEPT ![Bucket] = <<>>]
        /\ pub' = [pub EXCEPT ![Bucket] = {}]
        /\ bidx' = [bidx EXCEPT ![Bucket] = Rest]
        /\ fresh' = <<>> /\ step' = "sync"
        /\ UNCHANGED <<recKey, kept, key, x, try, waiting, walk>>
    BY DEF AllocNodeFails, BucketCleared, lookVars
  <1>b. Building
    BY <1>a DEF Building
  <1>c. /\ key \in Keys /\ Bucket \in Buckets /\ old = <<>>
        /\ bidx' \in [Buckets -> Seq(Recs)]
        /\ \A b \in Buckets : ToSet(bidx'[b]) = ToSet(bidx[b]) \ {x}
    BY <1>a, <1>b, SwitchFacts
  <1>d. fresh \in Seq(Nodes) /\ cu[Bucket] \in Seq(Nodes) /\ <<>> \in Seq(Nodes)
    BY <1>c DEF Owned, Types
  <1>e. /\ cu' \in [Buckets -> Seq(Nodes)] /\ cu'[Bucket] = <<>>
        /\ \A b \in Buckets : b # Bucket => cu'[b] = cu[b]
        /\ head' \in [Buckets -> Recs \cup Nodes \cup {None}]
        /\ pub' \in [Buckets -> SUBSET Recs]
    BY <1>a, <1>c, <1>d DEF Owned, Types
  <1>f. /\ nodeMem' \in [Nodes -> NodeRecord \cup {None}]
        /\ \A n \in Nodes : n \in ToSet(fresh) => nodeMem'[n] = None
        /\ \A n \in Nodes : n \notin ToSet(fresh) => nodeMem'[n] = nodeMem[n]
    BY <1>a, <1>d, WithNodesFacts
  <1>g. ToSet(fresh') = {} /\ Distinct(fresh') /\ ToSet(old) = {} /\ ToSet(cu'[Bucket]) = {}
    BY <1>a, <1>c, <1>e, ToSetEmpty
  <1>1. Types'
    BY <1>a, <1>c, <1>d, <1>e, <1>f DEF Owned, Types, Steps
  <1>2. CallOK'
    BY <1>a, <1>c DEF CallOK, Building, Unlinked
  <1>3. RecsOK'
    BY <1>a, <1>b, SwitchRecsOK
  <1>4. NodesOK'
    BY <1>a, <1>c, <1>e, <1>g DEF Owned, NodesOK
  <1>5. Accounted'
    <2>1. ASSUME NEW s \in Recs
          PROVE  recKey'[s] # None <=>
                   (\E b \in Buckets : s \in ToSet(bidx'[b])) \/ s = x' \/ s \in kept'
      BY <1>a, <1>c DEF Owned, Accounted
    <2>2. ASSUME NEW n \in Nodes
          PROVE  nodeMem'[n] # None <=>
                   \/ \E b \in Buckets : n \in ToSet(cu'[b])
                   \/ n \in ToSet(fresh') \cup ToSet(old') \cup kept'
      <3>1. CASE n \in ToSet(fresh)
        BY <3>1, <1>a, <1>c, <1>e, <1>f, <1>g DEF Owned, NodesOK
      <3>2. CASE n \notin ToSet(fresh)
        <4>1. (\E b \in Buckets : n \in ToSet(cu[b])) <=>
              (n \in ToSet(old') \/ \E b \in Buckets : n \in ToSet(cu'[b]))
          BY <1>a, <1>c, <1>e, <1>g
        <4>2. QED
          BY <3>2, <4>1, <1>a, <1>f, <1>g DEF Owned, Accounted
      <3>3. QED
        BY <3>1, <3>2
    <2>3. QED
      BY <2>1, <2>2 DEF Accounted
  <1>6. QED
    BY <1>1, <1>2, <1>3, <1>4, <1>5 DEF Owned

LEMMA PublishOwned ==
    ASSUME Owned, Publish
    PROVE  Owned'
  <1>a. /\ step = "publish"
        /\ head' = [head EXCEPT ![Bucket] = NewHead]
        /\ pub' = [pub EXCEPT ![Bucket] = ToSet(Rest)]
        /\ cu' = [cu EXCEPT ![Bucket] = fresh]
        /\ bidx' = [bidx EXCEPT ![Bucket] = Rest]
        /\ UNCHANGED <<recKey, nodeMem, kept, waiting, walk>>
    BY DEF Publish, lookVars
  <1>b. \/ x = None /\ cu[Bucket] = <<>> /\ Return
        \/ step' = "sync" /\ old' = cu[Bucket] /\ fresh' = <<>> /\ UNCHANGED <<key, x, try>>
    BY DEF Publish
  <1>c. Building
    BY <1>a DEF Building
  <1>d. /\ key \in Keys /\ Bucket \in Buckets /\ old = <<>>
        /\ bidx' \in [Buckets -> Seq(Recs)]
        /\ \A b \in Buckets : ToSet(bidx'[b]) = ToSet(bidx[b]) \ {x}
    BY <1>a, <1>c, SwitchFacts
  <1>e. /\ fresh \in Seq(Nodes) /\ cu[Bucket] \in Seq(Nodes) /\ <<>> \in Seq(Nodes)
        /\ Rest \in Seq(Recs)
    BY <1>d, RestFacts DEF Owned, Types
  <1>f. NewHead \in Recs \cup Nodes \cup {None} /\ ToSet(Rest) \subseteq Recs
    <2>1. ASSUME Rest # <<>> PROVE Rest[1] \in Recs
      BY <2>1, <1>e
    <2>2. ASSUME fresh # <<>> PROVE fresh[1] \in Nodes
      BY <2>2, <1>e
    <2>3. QED
      BY <2>1, <2>2, <1>e, ToSetDef DEF NewHead
  <1>g. /\ cu' \in [Buckets -> Seq(Nodes)] /\ cu'[Bucket] = fresh
        /\ \A b \in Buckets : b # Bucket => cu'[b] = cu[b]
        /\ head' \in [Buckets -> Recs \cup Nodes \cup {None}]
        /\ pub' \in [Buckets -> SUBSET Recs]
    BY <1>a, <1>d, <1>e, <1>f DEF Owned, Types
  <1>h. /\ step' \in Steps /\ key' \in Keys \cup {None} /\ x' \in Recs \cup {None}
        /\ fresh' \in Seq(Nodes) /\ old' \in Seq(Nodes) /\ try' \in Nat /\ try' < Tries
        /\ CallOK'
        /\ Distinct(fresh') /\ ToSet(fresh') = {} /\ ToSet(old') = ToSet(cu[Bucket]) /\ x' = x
        /\ \/ step' = "sync" /\ UNCHANGED <<x, key>>
           \/ step' = "idle" /\ x' = None
    <2>1. CASE x = None /\ cu[Bucket] = <<>> /\ Return
      <3>1. x' = None /\ step' = "idle"
        BY <2>1, ReturnFacts
      <3>2. QED
        BY <2>1, <3>1, <1>a, ReturnOwned, ToSetEmpty
    <2>2. CASE step' = "sync" /\ old' = cu[Bucket] /\ fresh' = <<>> /\ UNCHANGED <<key, x, try>>
      <3>1. CallOK'
        BY <2>2, <1>d DEF CallOK, Building, Unlinked
      <3>2. QED
        BY <2>2, <3>1, <1>d, <1>e, ToSetEmpty DEF Owned, Types, Steps
    <2>3. QED
      BY <1>b, <2>1, <2>2
  <1>1. Types'
    BY <1>a, <1>d, <1>g, <1>h DEF Owned, Types
  <1>2. RecsOK'
    BY <1>a, <1>c, <1>h, SwitchRecsOK
  <1>3. NodesOK'
    BY <1>a, <1>d, <1>g, <1>h DEF Owned, NodesOK
  <1>4. Accounted'
    <2>1. ASSUME NEW s \in Recs
          PROVE  recKey'[s] # None <=>
                   (\E b \in Buckets : s \in ToSet(bidx'[b])) \/ s = x' \/ s \in kept'
      BY <1>a, <1>d, <1>h DEF Owned, Accounted
    <2>2. ASSUME NEW n \in Nodes
          PROVE  nodeMem'[n] # None <=>
                   \/ \E b \in Buckets : n \in ToSet(cu'[b])
                   \/ n \in ToSet(fresh') \cup ToSet(old') \cup kept'
      <3>1. (n \in ToSet(fresh) \/ \E b \in Buckets : n \in ToSet(cu[b])) <=>
            (n \in ToSet(old') \/ \E b \in Buckets : n \in ToSet(cu'[b]))
        BY <1>d, <1>g, <1>h
      <3>2. ToSet(old) = {}
        BY <1>d, ToSetEmpty
      <3>3. QED
        BY <3>1, <3>2, <1>a, <1>h DEF Owned, Accounted
    <2>3. QED
      BY <2>1, <2>2 DEF Accounted
  <1>5. QED
    BY <1>h, <1>1, <1>2, <1>3, <1>4 DEF Owned

\* The i-th share of the bucket is a part of it, in place.
LEMMA ShareFacts ==
    ASSUME Rest \in Seq(Recs), NEW i \in Nat \ {0}
    PROVE  /\ Share(i) \in Seq(Recs)
           /\ ToSet(Share(i)) \subseteq ToSet(Rest)
           /\ \A p \in 1..Len(Rest) :
                (i - 1) * PerNode < p /\ p <= i * PerNode => Rest[p] \in ToSet(Share(i))
  <1> DEFINE lo == (i - 1) * PerNode
             hi == IF i * PerNode < Len(Rest) THEN i * PerNode ELSE Len(Rest)
             s  == Share(i)
  <1>1. lo \in Nat /\ hi \in Nat /\ Len(Rest) \in Nat /\ hi <= Len(Rest)
        /\ i * PerNode \in Nat
    BY TableAssumption
  <1>2. s = SubSeq(Rest, lo + 1, hi)
    BY DEF Share
  <1> HIDE DEF lo, s
  <1>3. \A j \in (lo + 1)..hi : j \in 1..Len(Rest) /\ Rest[j] \in Recs
    BY <1>1
  <1>4. lo + 1 \in Int /\ hi \in Int
    BY <1>1
  <1> HIDE DEF hi
  <1>5. /\ s \in Seq(Recs)
        /\ Len(s) = IF lo + 1 <= hi THEN hi - (lo + 1) + 1 ELSE 0
        /\ \A j \in 1..(hi - (lo + 1) + 1) : s[j] = Rest[(lo + 1) + j - 1]
    BY <1>2, <1>3, <1>4, SubSeqProperties
  <1>6. ASSUME NEW j \in 1..Len(s)
        PROVE  s[j] = Rest[lo + j] /\ lo + j \in 1..Len(Rest)
    <2>1. j \in 1..(hi - (lo + 1) + 1) /\ (lo + 1) + j - 1 = lo + j
          /\ lo + j \in (lo + 1)..hi
      BY <1>1, <1>5, <1>6
    <2>2. QED
      BY <2>1, <1>3, <1>5
  <1>7. ToSet(s) \subseteq ToSet(Rest)
    <2>1. \A e \in ToSet(s) : \E j \in 1..Len(s) : s[j] = e
      BY <1>5, ToSetDef
    <2>2. QED
      BY <2>1, <1>6, ToSetDef
  <1>8. ASSUME NEW p \in 1..Len(Rest), lo < p /\ p <= i * PerNode
        PROVE  Rest[p] \in ToSet(s)
    <2>1. p <= hi
      BY <1>1, <1>8 DEF hi
    <2>2. p - lo \in 1..Len(s) /\ lo + (p - lo) = p
      BY <2>1, <1>1, <1>5, <1>8
    <2>3. s[p - lo] = Rest[p]
      BY <2>2, <1>6
    <2>4. QED
      BY <2>2, <2>3, <1>5, ToSetDef
  <1>9. QED
    BY <1>5, <1>7, <1>8 DEF lo, s

LEMMA NodeFacts ==
    ASSUME Owned, key \in Keys, Len(fresh) = Needed, NEW i \in 1..Len(fresh)
    PROVE  /\ Node(i) \in NodeRecord
           /\ Node(i).recs = Share(i)
           /\ Len(Node(i).keys) = Len(Share(i))
           /\ \A j \in 1..Len(Share(i)) : Node(i).keys[j] = recKey[Share(i)[j]]
           /\ Node(i).next = IF i < Len(fresh) THEN fresh[i + 1] ELSE None
  <1>1. /\ Rest \in Seq(Recs) /\ Bucket \in Buckets
        /\ ToSet(Rest) = ToSet(bidx[Bucket]) \ {x}
    BY RestFacts
  <1>2. fresh \in Seq(Nodes) /\ i \in Nat \ {0} /\ Len(fresh) \in Nat
    BY DEF Owned, Types
  <1>3. Share(i) \in Seq(Recs) /\ ToSet(Share(i)) \subseteq ToSet(Rest)
    BY <1>1, <1>2, ShareFacts
  <1> DEFINE s == Share(i)
             ks == [j \in DOMAIN s |-> recKey[s[j]]]
             nx == IF i < Len(fresh) THEN fresh[i + 1] ELSE None
  <1>4. Node(i) = [keys |-> ks, recs |-> s, next |-> nx]
    BY DEF Node
  <1> HIDE DEF s
  <1>5. DOMAIN s = 1..Len(s) /\ Len(s) \in Nat
    BY <1>3 DEF s
  <1>6. \A j \in 1..Len(s) : recKey[s[j]] \in Keys
    BY <1>1, <1>3, ToSetDef DEF s, Owned, RecsOK
  <1>7. ks \in Seq(Keys) /\ Len(ks) = Len(s) /\ \A j \in 1..Len(s) : ks[j] = recKey[s[j]]
    BY <1>5, <1>6
  <1>8. nx \in Nodes \cup {None}
    <2>1. CASE i < Len(fresh)
      <3>1. i + 1 \in 1..Len(fresh)
        BY <2>1, <1>2
      <3>2. QED
        BY <3>1, <1>2, <2>1
    <2>2. QED
      BY <2>1
  <1> HIDE DEF ks, nx
  <1>9. Node(i) \in NodeRecord
    BY <1>3, <1>4, <1>7, <1>8 DEF NodeRecord, s
  <1>10. QED
    BY <1>4, <1>7, <1>9 DEF s, nx

LEMMA FillFacts ==
    ASSUME Owned, FillNodes
    PROVE  /\ key \in Keys
           /\ \A i \in 1..Len(fresh) : nodeMem'[fresh[i]] = Node(i)
           /\ \A n \in Nodes : n \notin ToSet(fresh) => nodeMem'[n] = nodeMem[n]
           /\ nodeMem' \in [Nodes -> NodeRecord \cup {None}]
           /\ \A n \in ToSet(fresh) : nodeMem'[n] \in NodeRecord
  <1>1. /\ step = "nodes" /\ Len(fresh) = Needed
        /\ nodeMem' = [n \in Nodes |-> IF \E i \in DOMAIN fresh : fresh[i] = n
                                       THEN Node(CHOOSE i \in DOMAIN fresh : fresh[i] = n)
                                       ELSE nodeMem[n]]
    BY DEF FillNodes
  <1>2. key \in Keys
    BY <1>1 DEF Owned, CallOK
  <1>3. fresh \in Seq(Nodes) /\ DOMAIN fresh = 1..Len(fresh) /\ Distinct(fresh)
    BY DEF Owned, Types, NodesOK
  <1>4. ASSUME NEW i \in 1..Len(fresh) PROVE nodeMem'[fresh[i]] = Node(i)
    <2>1. fresh[i] \in Nodes
      BY <1>3
    <2>2. (CHOOSE j \in DOMAIN fresh : fresh[j] = fresh[i]) = i
      BY <1>3 DEF Distinct
    <2>3. \E j \in DOMAIN fresh : fresh[j] = fresh[i]
      BY <1>3
    <2>4. QED
      BY <1>1, <2>1, <2>2, <2>3
  <1>5. ASSUME NEW n \in Nodes, n \notin ToSet(fresh) PROVE nodeMem'[n] = nodeMem[n]
    <2>1. ~\E i \in DOMAIN fresh : fresh[i] = n
      BY <1>3, <1>5, ToSetDef
    <2>2. QED
      BY <1>1, <2>1
  <1>6. ASSUME NEW n \in ToSet(fresh) PROVE n \in Nodes /\ nodeMem'[n] \in NodeRecord
    <2>1. PICK i \in 1..Len(fresh) : fresh[i] = n
      BY <1>3, ToSetDef
    <2>2. Node(i) \in NodeRecord
      BY <1>1, <1>2, NodeFacts
    <2>3. QED
      BY <2>1, <2>2, <1>3, <1>4
  <1>7. nodeMem' \in [Nodes -> NodeRecord \cup {None}]
    <2>1. ASSUME NEW n \in Nodes PROVE nodeMem'[n] \in NodeRecord \cup {None}
      BY <1>5, <1>6 DEF Owned, Types
    <2>2. QED
      BY <1>1, <2>1
  <1>8. QED
    BY <1>2, <1>4, <1>5, <1>6, <1>7

LEMMA FillNodesOwned ==
    ASSUME Owned, FillNodes
    PROVE  Owned'
  <1>a. /\ step = "nodes" /\ step' = "publish"
        /\ UNCHANGED <<bidx, head, cu, pub, recKey, kept, key, x, fresh, old, try, waiting, walk>>
    BY DEF FillNodes, lookVars
  <1>b. /\ \A n \in Nodes : n \notin ToSet(fresh) => nodeMem'[n] = nodeMem[n]
        /\ nodeMem' \in [Nodes -> NodeRecord \cup {None}]
        /\ \A n \in ToSet(fresh) : nodeMem'[n] # None
    BY FillFacts, NoneNotNode
  <1>1. Types'
    BY <1>a, <1>b DEF Owned, Types, Steps
  <1>2. CallOK'
    BY <1>a DEF Owned, CallOK, Building, Unlinked, Bucket
  <1>3. RecsOK'
    BY <1>a DEF Owned, RecsOK, Unlinked, Bucket
  <1>4. NodesOK'
    BY <1>a DEF Owned, NodesOK
  <1>5. Accounted'
    BY <1>a, <1>b DEF Owned, Accounted
  <1>6. QED
    BY <1>1, <1>2, <1>3, <1>4, <1>5 DEF Owned

\* Arm, SyncDone and a SYNC that is tried again.
LEMMA SyncStepOwned ==
    ASSUME Owned, Unlinked, step' \in {"sync", "poll", "free"},
           try' \in Nat, try' < Tries, waiting' \subseteq Walkers,
           UNCHANGED <<tableVars, key, x, fresh, old, walk>>
    PROVE  Owned'
  <1>1. Types'
    BY DEF Owned, Types, tableVars, Steps
  <1>2. CallOK'
    BY DEF Owned, CallOK, Building, Unlinked, Bucket, tableVars
  <1>3. RecsOK'
    BY DEF Owned, RecsOK, Unlinked, Bucket, tableVars
  <1>4. NodesOK' /\ Accounted'
    BY DEF Owned, NodesOK, Accounted, tableVars
  <1>5. QED
    BY <1>1, <1>2, <1>3, <1>4 DEF Owned

LEMMA GiveUpOwned ==
    ASSUME Owned, Unlinked, Return, waiting' \subseteq Walkers,
           kept' = kept \cup ToSet(old) \cup ({x} \ {None}),
           UNCHANGED <<bidx, head, cu, pub, recKey, nodeMem, walk>>
    PROVE  Owned'
  <1>a. fresh = <<>> /\ step # "idle" /\ step # "record"
    BY DEF Owned, CallOK, Unlinked
  <1>b. /\ x' = None
        /\ \/ step' = "record" /\ key' = key /\ x # None
           \/ step' = "idle" /\ key' = None
    BY ReturnFacts
  <1>c. /\ step' \in Steps /\ key' \in Keys \cup {None} /\ x' \in Recs \cup {None}
        /\ fresh' \in Seq(Nodes) /\ old' \in Seq(Nodes) /\ try' \in Nat /\ try' < Tries
        /\ CallOK'
        /\ Distinct(fresh') /\ ToSet(fresh') = {} /\ ToSet(old') = {}
    BY <1>a, ReturnOwned
  <1>d. ToSet(fresh) = {} /\ ToSet(old) \subseteq Nodes /\ Recs \cap Nodes = {}
    BY <1>a, ToSetEmpty, ToSetDef, TableAssumption DEF Owned, Types
  <1>e. \A b \in Buckets : ToSet(bidx[b]) \subseteq Recs /\ ToSet(cu[b]) \subseteq Nodes
    BY ToSetDef DEF Owned, Types
  <1>f. x \in Recs \cup {None}
    BY DEF Owned, Types
  <1>1. Types'
    BY <1>c, <1>d, <1>f DEF Owned, Types
  <1>2. RecsOK'
    <2>1. ASSUME NEW b \in Buckets
          PROVE  \A s \in ToSet(bidx'[b]) : s \notin kept'
      BY <1>d, <1>e DEF Owned, RecsOK
    <2>2. step' = "record" => \A s \in ToSet(bidx'[Bucket']) : recKey'[s] # key'
      BY <1>b DEF Owned, RecsOK, Bucket
    <2>3. ~Unlinked'
      BY <1>b DEF Unlinked
    <2>4. QED
      BY <2>1, <2>2, <2>3, <1>b DEF Owned, RecsOK
  <1>3. NodesOK'
    <2>1. ASSUME NEW b \in Buckets PROVE ToSet(cu'[b]) \cap kept' = {}
      BY <1>d, <1>e, <1>f, TableAssumption DEF Owned, NodesOK
    <2>2. QED
      BY <2>1, <1>c DEF Owned, NodesOK
  <1>4. Accounted'
    <2>1. ASSUME NEW s \in Recs
          PROVE  s \in kept' <=> s \in kept \/ s = x
      BY <1>d, TableAssumption
    <2>2. ASSUME NEW n \in Nodes
          PROVE  n \in kept' <=> n \in kept \/ n \in ToSet(old)
      BY <1>d, <1>f, TableAssumption
    <2>3. \A s \in Recs : s # x'
      BY <1>b, TableAssumption
    <2>4. QED
      BY <2>1, <2>2, <2>3, <1>c, <1>d DEF Owned, Accounted
  <1>5. QED
    BY <1>c, <1>1, <1>2, <1>3, <1>4 DEF Owned

LEMMA SyncTimeoutOwned ==
    ASSUME Owned, SyncTimeout
    PROVE  Owned'
  <1>a. /\ step = "poll" /\ waiting' = {}
        /\ UNCHANGED <<bidx, head, cu, pub, recKey, nodeMem, walk>>
    BY DEF SyncTimeout, lookVars
  <1>b. Unlinked
    BY <1>a DEF Unlinked
  <1>c. \/ /\ try + 1 < Tries /\ step' = "sync" /\ try' = try + 1
           /\ UNCHANGED <<key, x, fresh, old, kept, wedged>>
        \/ kept' = kept \cup ToSet(old) \cup ({x} \ {None}) /\ Return
    BY DEF SyncTimeout
  <1>1. CASE /\ try + 1 < Tries /\ step' = "sync" /\ try' = try + 1
             /\ UNCHANGED <<key, x, fresh, old, kept, wedged>>
    <2>1. try' \in Nat /\ try' < Tries
      BY <1>1 DEF Owned, Types
    <2>2. QED
      BY <2>1, <1>1, <1>a, <1>b, SyncStepOwned DEF tableVars
  <1>2. CASE kept' = kept \cup ToSet(old) \cup ({x} \ {None}) /\ Return
    BY <1>2, <1>a, <1>b, GiveUpOwned
  <1>3. QED
    BY <1>c, <1>1, <1>2

LEMMA FreeOldOwned ==
    ASSUME Owned, FreeOld
    PROVE  Owned'
  <1>a. /\ step = "free" /\ Return /\ nodeMem' = WithNodes(old, None)
        /\ recKey' = [r \in Recs |-> IF r = x THEN None ELSE recKey[r]]
        /\ UNCHANGED <<bidx, head, cu, pub, kept, waiting, walk>>
    BY DEF FreeOld, lookVars
  <1>b. Unlinked /\ fresh = <<>>
    BY <1>a DEF Owned, CallOK, Unlinked
  <1>c. /\ x' = None
        /\ \/ step' = "record" /\ key' = key /\ x # None
           \/ step' = "idle" /\ key' = None
    BY <1>a, ReturnFacts
  <1>d. /\ step' \in Steps /\ key' \in Keys \cup {None} /\ x' \in Recs \cup {None}
        /\ fresh' \in Seq(Nodes) /\ old' \in Seq(Nodes) /\ try' \in Nat /\ try' < Tries
        /\ CallOK'
        /\ Distinct(fresh') /\ ToSet(fresh') = {} /\ ToSet(old') = {}
    BY <1>a, <1>b, ReturnOwned
  <1>e. /\ nodeMem' \in [Nodes -> NodeRecord \cup {None}]
        /\ \A n \in Nodes : n \in ToSet(old) => nodeMem'[n] = None
        /\ \A n \in Nodes : n \notin ToSet(old) => nodeMem'[n] = nodeMem[n]
    BY <1>a, WithNodesFacts DEF Owned, Types
  <1>f. \A b \in Buckets : ToSet(bidx[b]) \subseteq Recs \ {x}
    BY <1>b, ToSetDef DEF Owned, Types, RecsOK
  <1>g. /\ recKey' \in [Recs -> Keys \cup {None}]
        /\ \A r \in Recs : r # x => recKey'[r] = recKey[r]
        /\ \A r \in Recs : r = x => recKey'[r] = None
    BY <1>a DEF Owned, Types
  <1>1. Types'
    BY <1>a, <1>d, <1>e, <1>g DEF Owned, Types
  <1>2. RecsOK'
    <2>1. \A b \in Buckets : \A s \in ToSet(bidx[b]) : recKey'[s] = recKey[s]
      BY <1>f, <1>g
    <2>2. step' = "record" => \A s \in ToSet(bidx'[Bucket']) : recKey'[s] # key'
      <3>1. CASE step' = "record"
        <4>1. Bucket' = Bucket /\ key' = key /\ x # None /\ Bucket \in Buckets
          BY <3>1, <1>c, <1>d, TableAssumption DEF Bucket, CallOK
        <4>2. \A s \in ToSet(bidx[Bucket]) : recKey[s] # key
          BY <4>1, <1>b DEF Owned, RecsOK
        <4>3. QED
          BY <4>1, <4>2, <2>1, <1>a
      <3>2. QED
        BY <3>1
    <2>3. ~Unlinked'
      BY <1>c DEF Unlinked
    <2>4. QED
      BY <2>1, <2>2, <2>3, <1>a, <1>c DEF Owned, RecsOK
  <1>3. NodesOK'
    BY <1>a, <1>d DEF Owned, NodesOK
  <1>4. Accounted'
    <2>1. ASSUME NEW s \in Recs
          PROVE  recKey'[s] # None <=>
                   (\E b \in Buckets : s \in ToSet(bidx'[b])) \/ s = x' \/ s \in kept'
      <3>1. s # x'
        BY <1>c, TableAssumption
      <3>2. CASE s = x
        BY <3>1, <3>2, <1>a, <1>f, <1>g, TableAssumption DEF Owned, RecsOK
      <3>3. CASE s # x
        BY <3>1, <3>3, <1>a, <1>g DEF Owned, Accounted
      <3>4. QED
        BY <3>2, <3>3
    <2>2. ASSUME NEW n \in Nodes
          PROVE  nodeMem'[n] # None <=>
                   \/ \E b \in Buckets : n \in ToSet(cu'[b])
                   \/ n \in ToSet(fresh') \cup ToSet(old') \cup kept'
      BY <1>a, <1>b, <1>d, <1>e, ToSetEmpty DEF Owned, Accounted, NodesOK
    <2>3. QED
      BY <2>1, <2>2 DEF Accounted
  <1>5. QED
    BY <1>d, <1>1, <1>2, <1>3, <1>4 DEF Owned

LEMMA DrainOwned ==
    ASSUME Owned, Drain
    PROVE  Owned'
  <1>a. /\ step = "idle" /\ head' = [b \in Buckets |-> None] /\ pub' = [b \in Buckets |-> {}]
        /\ recKey' = [r \in Recs |-> IF r \in kept THEN recKey[r] ELSE None]
        /\ nodeMem' = [n \in Nodes |-> IF n \in kept THEN nodeMem[n] ELSE None]
        /\ bidx' = [b \in Buckets |-> <<>>] /\ cu' = [b \in Buckets |-> <<>>]
        /\ UNCHANGED <<kept, step, key, x, fresh, old, try, waiting, walk>>
    BY DEF Drain, callVars, lookVars
  <1>b. x = None /\ fresh = <<>> /\ old = <<>>
    BY <1>a DEF Owned, CallOK
  <1>c. \A b \in Buckets : ToSet(bidx'[b]) = {} /\ ToSet(cu'[b]) = {} /\ Distinct(bidx'[b])
    BY <1>a, ToSetEmpty
  <1>1. Types'
    BY <1>a DEF Owned, Types
  <1>2. CallOK'
    BY <1>a, <1>b DEF CallOK, Building, Unlinked
  <1>3. RecsOK'
    BY <1>a, <1>b, <1>c DEF RecsOK, Unlinked
  <1>4. NodesOK'
    BY <1>a, <1>c DEF Owned, NodesOK
  <1>5. Accounted'
    BY <1>a, <1>b, <1>c, ToSetEmpty, TableAssumption DEF Owned, Accounted
  <1>6. QED
    BY <1>1, <1>2, <1>3, <1>4, <1>5 DEF Owned

LEMMA WalkStepTypes ==
    ASSUME Owned, NEW w \in Walkers,
           WalkRecord(w) \/ WalkNode(w) \/ \E k \in Keys : WalkStart(w, k)
    PROVE  /\ UNCHANGED <<tableVars, callVars>>
           /\ waiting' \subseteq Walkers /\ walk' \in [Walkers -> WalkRecordType]
           /\ \A v \in Walkers : v # w => walk'[v] = walk[v]
  <1>a. waiting \subseteq Walkers /\ walk \in [Walkers -> WalkRecordType]
    BY DEF Owned, Types
  <1>b. NoWalk \in WalkRecordType
    BY DEF NoWalk, WalkRecordType
  <1>1. CASE WalkRecord(w)
    BY <1>1, <1>a, <1>b DEF WalkRecord, Ends
  <1>2. CASE WalkNode(w)
    <2> DEFINE m == nodeMem[walk[w].at]
               hits == IF m = None THEN {} ELSE {i \in DOMAIN m.keys : m.keys[i] = walk[w].key}
               on == IF hits # {} THEN m.recs[CHOOSE i \in hits : TRUE]
                     ELSE IF m = None THEN None ELSE m.next
    <2>1. /\ IF on # None
             THEN walk' = [walk EXCEPT ![w].at = on] /\ UNCHANGED <<waiting, wrong>>
             ELSE Ends(w, None)
          /\ UNCHANGED <<tableVars, callVars, attached>>
          /\ walk[w].at \in Nodes
      BY <1>2 DEF WalkNode
    <2>2. CASE Ends(w, None)
      BY <2>1, <2>2, <1>a, <1>b DEF Ends
    <2>3. CASE walk' = [walk EXCEPT ![w].at = on] /\ UNCHANGED <<waiting, wrong>>
      <3>1. ASSUME hits # {} PROVE on \in Recs
        <4> DEFINE i == CHOOSE j \in hits : TRUE
        <4>1. i \in hits /\ m # None
          BY <3>1
        <4>2. m \in NodeRecord
          BY <4>1, <2>1 DEF Owned, Types
        <4>3. m.keys \in Seq(Keys) /\ m.recs \in Seq(Recs) /\ Len(m.keys) = Len(m.recs)
          BY <4>2 DEF NodeRecord
        <4>4. i \in DOMAIN m.keys
          BY <4>1
        <4> HIDE DEF i, m
        <4>5. m.recs[i] \in Recs
          BY <4>3, <4>4
        <4>6. QED
          BY <4>5, <3>1 DEF i
      <3>2. ASSUME hits = {} PROVE on \in Nodes \cup {None}
        <4>1. CASE m # None
          <5>1. m \in NodeRecord
            BY <4>1, <2>1 DEF Owned, Types
          <5>2. m.next \in Nodes \cup {None}
            BY <5>1 DEF NodeRecord
          <5>3. QED
            BY <5>2, <3>2
        <4>2. QED
          BY <4>1, <3>2
      <3>3. on \in Recs \cup Nodes \cup {None}
        BY <3>1, <3>2
      <3> HIDE DEF on
      <3>4. [walk[w] EXCEPT !.at = on] \in WalkRecordType
        BY <3>3, <1>a DEF WalkRecordType
      <3>5. walk' = [walk EXCEPT ![w] = [walk[w] EXCEPT !.at = on]]
        BY <2>3, <1>a
      <3>6. QED
        BY <3>4, <3>5, <2>1, <2>3, <1>a
    <2>4. QED
      BY <2>1, <2>2, <2>3
  <1>3. ASSUME NEW k \in Keys, WalkStart(w, k)
        PROVE  /\ UNCHANGED <<tableVars, callVars, waiting>>
               /\ walk' \in [Walkers -> WalkRecordType]
               /\ \A v \in Walkers : v # w => walk'[v] = walk[v]
    <2>1. Promised(k) \in Recs \cup {None} /\ head[BucketOf[k]] \in Recs \cup Nodes \cup {None}
      BY TableAssumption DEF Promised, Owned, Types
    <2>2. [key |-> k, at |-> head[BucketOf[k]], want |-> Promised(k)] \in WalkRecordType
      BY <2>1 DEF WalkRecordType
    <2>3. QED
      BY <2>2, <1>3, <1>a DEF WalkStart
  <1>4. QED
    BY <1>1, <1>2, <1>3, <1>a

LEMMA InitOwned == Init => Owned
  <1> SUFFICES ASSUME Init PROVE Owned
    OBVIOUS
  <1>1. \A b \in Buckets : ToSet(bidx[b]) = {} /\ ToSet(cu[b]) = {} /\ Distinct(bidx[b])
    BY ToSetEmpty DEF Init
  <1>2. ToSet(fresh) = {} /\ ToSet(old) = {} /\ Distinct(fresh)
    BY ToSetEmpty DEF Init
  <1>3. Types
    <2>1. NoWalk \in WalkRecordType
      BY DEF NoWalk, WalkRecordType
    <2>2. QED
      BY <2>1, TableAssumption DEF Init, Types, Steps
  <1>4. CallOK /\ NodesOK
    BY <1>1, <1>2 DEF Init, CallOK, NodesOK, Building, Unlinked
  <1>5. RecsOK
    BY <1>1 DEF Init, RecsOK, Unlinked
  <1>6. Accounted
    BY <1>1, <1>2, TableAssumption DEF Init, Accounted
  <1>7. QED
    BY <1>3, <1>4, <1>5, <1>6 DEF Owned

LEMMA OwnedStep ==
    ASSUME Owned, [Next]_vars
    PROVE  Owned'
  <1>a. waiting \subseteq Walkers /\ walk \in [Walkers -> WalkRecordType]
        /\ try \in Nat /\ try < Tries
    BY DEF Owned, Types
  <1>1. ASSUME NEW k \in Keys, AddKey(k) \/ DelKey(k) PROVE Owned'
    BY <1>1, AddKeyOwned, DelKeyOwned
  <1>2. CASE AllocRecord \/ AllocRecordFails \/ AllocNode \/ FillNodes
    BY <1>2, AllocRecordOwned, AllocRecordFailsOwned, AllocNodeOwned, FillNodesOwned
  <1>3. CASE AllocNodeFails
    <2>1. InsertUndone \/ BucketCleared
      BY <1>3 DEF AllocNodeFails
    <2>2. QED
      BY <2>1, <1>3, InsertUndoneOwned, BucketClearedOwned
  <1>4. CASE Publish \/ SyncTimeout \/ FreeOld \/ Drain
    BY <1>4, PublishOwned, SyncTimeoutOwned, FreeOldOwned, DrainOwned
  <1>5. CASE Arm
    <2>1. Unlinked /\ InFlight \subseteq Walkers
      BY <1>5 DEF Arm, Unlinked, InFlight
    <2>2. QED
      BY <2>1, <1>5, <1>a, SyncStepOwned DEF Arm, lookVars
  <1>6. CASE SyncDone
    <2>1. Unlinked
      BY <1>6 DEF SyncDone, Unlinked
    <2>2. QED
      BY <2>1, <1>6, <1>a, SyncStepOwned DEF SyncDone, lookVars
  <1>7. ASSUME NEW w \in Walkers,
               WalkRecord(w) \/ WalkNode(w) \/ \E k \in Keys : WalkStart(w, k)
        PROVE  Owned'
    BY <1>7, WalkStepTypes, LookOwned
  <1>8. CASE Detach \/ Attach \/ UNCHANGED vars
    <2>1. UNCHANGED <<tableVars, callVars, waiting, walk>>
      BY <1>8 DEF Detach, Attach, vars, lookVars
    <2>2. QED
      BY <2>1, <1>a, LookOwned
  <1>9. QED
    BY <1>1, <1>2, <1>3, <1>4, <1>5, <1>6, <1>7, <1>8 DEF Next, Driver

-----------------------------------------------------------------------------
(* What the heads lead to *)

\* A chain stays one while its own nodes and records are left alone.
LEMMA ChainKept ==
    ASSUME NEW c, NEW R, NEW nm, NEW rk, NEW nm2, NEW rk2,
           Chain(c, R, nm, rk),
           \A i \in 1..Len(c) : nm2[c[i]] = nm[c[i]],
           \A r \in R : rk2[r] = rk[r]
    PROVE  Chain(c, R, nm2, rk2)
  <1>1. \A r \in R : rk2[r] # None
    BY DEF Chain
  <1>2. ASSUME NEW i \in 1..Len(c)
        PROVE  /\ nm2[c[i]] \in NodeRecord
               /\ ToSet(nm2[c[i]].recs) \subseteq R
               /\ \A j \in 1..Len(nm2[c[i]].recs) : nm2[c[i]].keys[j] = rk2[nm2[c[i]].recs[j]]
               /\ nm2[c[i]].next = IF i < Len(c) THEN c[i + 1] ELSE None
    <2> DEFINE m == nm[c[i]]
    <2>1. nm2[c[i]] = m
      OBVIOUS
    <2>2. /\ m \in NodeRecord /\ ToSet(m.recs) \subseteq R
          /\ \A j \in 1..Len(m.recs) : m.keys[j] = rk[m.recs[j]]
          /\ m.next = IF i < Len(c) THEN c[i + 1] ELSE None
      BY DEF Chain
    <2> HIDE DEF m
    <2>3. m.recs \in Seq(Recs)
      BY <2>2 DEF NodeRecord
    <2>4. \A j \in 1..Len(m.recs) : m.recs[j] \in R
      BY <2>2, <2>3, ToSetDef
    <2>5. \A j \in 1..Len(m.recs) : m.keys[j] = rk2[m.recs[j]]
      BY <2>2, <2>4
    <2>6. QED
      BY <2>1, <2>2, <2>5
  <1>3. QED
    BY <1>1, <1>2 DEF Chain

LEMMA HeadKept ==
    ASSUME NEW h, NEW c, NEW R, NEW nm, NEW nm2,
           HeadOK(h, c, R, nm),
           \A i \in 1..Len(c) : nm2[c[i]] = nm[c[i]]
    PROVE  HeadOK(h, c, R, nm2)
  BY DEF HeadOK

\* Published records are in the index, and none of them is still private.
LEMMA PubIndexed ==
    ASSUME Owned, NEW b \in Buckets, BucketOK(b)
    PROVE  /\ pub[b] \subseteq ToSet(bidx[b])
           /\ (pub[b] \cup ToSet(cu[b])) \cap Private = {}
  <1>a. bidx[b] \in Seq(Recs) /\ Distinct(bidx[b]) /\ ToSet(bidx[b]) \subseteq Recs
        /\ ToSet(cu[b]) \subseteq Nodes /\ ToSet(fresh) \subseteq Nodes
    BY ToSetDef DEF Owned, Types, RecsOK
  <1>b. pub[b] \subseteq ToSet(Listed(b)) /\ pub[b] \subseteq Recs
    BY DEF BucketOK, Owned, Types
  <1>c. Recs \cap Nodes = {} /\ ToSet(cu[b]) \cap ToSet(fresh) = {}
    BY TableAssumption DEF Owned, NodesOK
  <1>1. CASE Building /\ x = None
    <2>1. /\ key \in Keys /\ Bucket \in Buckets /\ bidx[Bucket] # <<>>
          /\ bidx[Bucket] \in Seq(Recs) /\ Distinct(bidx[Bucket])
      BY <1>1, TableAssumption DEF Owned, CallOK, Building, Bucket, Types, RecsOK
    <2>2. /\ Head(bidx[Bucket]) \in Recs
          /\ ToSet(bidx[Bucket]) = {Head(bidx[Bucket])} \cup ToSet(Tail(bidx[Bucket]))
          /\ Head(bidx[Bucket]) \notin ToSet(Tail(bidx[Bucket]))
      BY <2>1, HeadTailFacts
    <2>3. Private = ToSet(fresh) \cup {Head(bidx[Bucket])}
      BY <1>1 DEF Private
    <2>4. CASE b = Bucket
      <3>1. Listed(b) = Tail(bidx[Bucket])
        BY <1>1, <2>4 DEF Listed
      <3>2. QED
        BY <3>1, <2>2, <2>3, <2>4, <1>a, <1>b, <1>c
    <2>5. CASE b # Bucket
      <3>1. Listed(b) = bidx[b]
        BY <2>5 DEF Listed
      <3>2. Head(bidx[Bucket]) \notin ToSet(bidx[b])
        BY <2>1, <2>2, <2>5 DEF Owned, RecsOK
      <3>3. QED
        BY <3>1, <3>2, <2>2, <2>3, <1>a, <1>b, <1>c
    <2>6. QED
      BY <2>4, <2>5
  <1>2. CASE ~(Building /\ x = None)
    <2>1. Listed(b) = bidx[b] /\ Private = ToSet(fresh)
      BY <1>2 DEF Listed, Private
    <2>2. QED
      BY <2>1, <1>a, <1>b, <1>c
  <1>3. QED
    BY <1>1, <1>2

LEMMA BucketKept ==
    ASSUME Owned, NEW b \in Buckets, BucketOK(b),
           cu'[b] = cu[b], pub'[b] = pub[b], head'[b] = head[b],
           \A n \in ToSet(cu[b]) : nodeMem'[n] = nodeMem[n],
           \A r \in pub[b] : recKey'[r] = recKey[r],
           ToSet(Listed(b)') = ToSet(Listed(b))
    PROVE  BucketOK(b)'
  <1>1. \A i \in 1..Len(cu[b]) : nodeMem'[cu[b][i]] = nodeMem[cu[b][i]]
    BY ToSetDef DEF Owned, Types
  <1>2. Chain(cu[b], pub[b], nodeMem', recKey')
    BY <1>1, ChainKept DEF BucketOK
  <1>3. HeadOK(head[b], cu[b], pub[b], nodeMem')
    BY <1>1, HeadKept DEF BucketOK
  <1>4. pub[b] = ToSet(Listed(b)) \/ (pub[b] = {} /\ head[b] = None)
    BY DEF BucketOK
  <1>5. QED
    BY <1>2, <1>3, <1>4 DEF BucketOK

\* The nodes that were filled form a chain with all the flows of the bucket.
LEMMA BuiltChain ==
    ASSUME Owned, Filled, step = "publish"
    PROVE  /\ Chain(fresh, ToSet(Rest), nodeMem, recKey)
           /\ HeadOK(NewHead, fresh, ToSet(Rest), nodeMem)
  <1>a. key \in Keys
    BY DEF Owned, CallOK
  <1>b. /\ Bucket \in Buckets /\ Rest \in Seq(Recs)
        /\ ToSet(Rest) = ToSet(bidx[Bucket]) \ {x}
    BY <1>a, RestFacts
  <1>c. fresh \in Seq(Nodes) /\ Len(fresh) \in Nat /\ Len(fresh) = Needed
    BY DEF Owned, Types, Filled
  <1>d. ASSUME NEW i \in 1..Len(fresh)
        PROVE  /\ nodeMem[fresh[i]] \in NodeRecord
               /\ nodeMem[fresh[i]].recs = Share(i)
               /\ \A j \in 1..Len(Share(i)) : nodeMem[fresh[i]].keys[j] = recKey[Share(i)[j]]
               /\ nodeMem[fresh[i]].next = IF i < Len(fresh) THEN fresh[i + 1] ELSE None
    BY <1>a, <1>c, NodeFacts DEF Filled
  <1>e. \A i \in 1..Len(fresh) : ToSet(Share(i)) \subseteq ToSet(Rest)
    BY <1>b, <1>c, ShareFacts
  <1>1. Chain(fresh, ToSet(Rest), nodeMem, recKey)
    <2>1. \A r \in ToSet(Rest) : recKey[r] # None
      BY <1>b, TableAssumption DEF Owned, RecsOK
    <2>2. QED
      BY <2>1, <1>d, <1>e DEF Chain
  <1>2. HeadOK(NewHead, fresh, ToSet(Rest), nodeMem)
    <2>1. CASE Len(Rest) > 1
      <3> DEFINE L == Len(Rest)
      <3>1. Needed = (L + PerNode - 1) \div PerNode /\ L \in Nat /\ PerNode \in Nat \ {0}
        BY <2>1, <1>b, TableAssumption DEF Needed
      <3>2. ASSUME NEW p \in 1..L
            PROVE  \E i \in 1..Len(fresh) : Rest[p] \in ToSet(Share(i))
        <4> DEFINE q == (p - 1) \div PerNode
                   N == (L + PerNode - 1) \div PerNode
        <4>1. p - 1 \in Nat /\ L + PerNode - 1 \in Nat
          BY <3>1
        <4>2. q \in Nat /\ PerNode * q <= p - 1 /\ p - 1 < PerNode * q + PerNode
          BY <4>1, <3>1
        <4>3. N \in Nat /\ L + PerNode - 1 < PerNode * N + PerNode
          BY <4>1, <3>1
        <4> HIDE DEF q, N
        <4>4. PerNode * q < PerNode * N
          BY <4>1, <4>2, <4>3, <3>1, <3>2
        <4>5. q < N
          BY <4>2, <4>3, <4>4, <3>1
        <4>6. q + 1 \in 1..Len(fresh) /\ q + 1 \in Nat \ {0} /\ (q + 1) - 1 = q
          BY <4>2, <4>3, <4>5, <3>1, <1>c DEF N
        <4>7. q * PerNode < p /\ p <= (q + 1) * PerNode
          BY <4>2, <3>1, <3>2
        <4>8. Rest[p] \in ToSet(Share(q + 1))
          BY <4>6, <4>7, <3>2, <1>b, ShareFacts
        <4>9. QED
          BY <4>6, <4>8
      <3>3. Rest # <<>> /\ \E p \in 1..L : p = 1
        BY <2>1, <3>1
      <3>4. fresh # <<>>
        BY <3>2, <3>3
      <3>5. \A r \in ToSet(Rest) : \E i \in 1..Len(fresh) : r \in ToSet(nodeMem[fresh[i]].recs)
        BY <3>2, <1>b, <1>d, ToSetDef
      <3>6. QED
        BY <3>3, <3>4, <3>5 DEF HeadOK, NewHead
    <2>2. CASE ~(Len(Rest) > 1)
      <3>1. fresh = <<>>
        BY <2>2, <1>c DEF Needed
      <3>2. CASE Rest = <<>>
        BY <3>1, <3>2, ToSetEmpty DEF HeadOK, NewHead
      <3>3. CASE Rest # <<>>
        <4>1. Len(Rest) = 1 /\ Rest[1] \in Recs
          <5>1. Len(Rest) \in Nat /\ Len(Rest) # 0
            BY <3>3, <1>b, EmptySeq
          <5>2. Len(Rest) = 1
            <6> DEFINE n == Len(Rest)
            <6>1. n \in Nat /\ n # 0 /\ ~(n > 1)
              BY <5>1, <2>2
            <6> HIDE DEF n
            <6>2. n = 1
              BY <6>1
            <6> QED
              BY <6>2 DEF n
          <5>3. 1 \in 1..Len(Rest)
            BY <5>2
          <5>4. QED
            BY <5>2, <5>3, <1>b, ElementOfSeq
        <4>2. ToSet(Rest) = {Rest[1]}
          <5>1. \A e : e \in ToSet(Rest) <=> \E i \in 1..Len(Rest) : Rest[i] = e
            BY <1>b, ToSetDef
          <5>2. 1..Len(Rest) = {1}
            BY <4>1
          <5>3. QED
            BY <5>1, <5>2
        <4>3. QED
          BY <4>1, <4>2, <3>1, <3>3 DEF HeadOK, NewHead
      <3>4. QED
        BY <3>2, <3>3
    <2>3. QED
      BY <2>1, <2>2
  <1>3. QED
    BY <1>1, <1>2

\* Steps that leave the index, the heads, the chains and what is published alone,
\* and write at most to blocks outside them.
LEMMA BucketsKept ==
    ASSUME Owned, Published, UNCHANGED <<bidx, head, cu, pub>>,
           \A b \in Buckets : \A n \in ToSet(cu[b]) : nodeMem'[n] = nodeMem[n],
           \A b \in Buckets : \A r \in ToSet(bidx[b]) : recKey'[r] = recKey[r],
           \A b \in Buckets : ToSet(Listed(b)') = ToSet(Listed(b))
    PROVE  \A b \in Buckets : BucketOK(b)'
  <1>1. SUFFICES ASSUME NEW b \in Buckets PROVE BucketOK(b)'
    OBVIOUS
  <1>2. BucketOK(b)
    BY DEF Published
  <1>3. \A r \in pub[b] : recKey'[r] = recKey[r]
    BY <1>2, PubIndexed
  <1>4. QED
    BY <1>2, <1>3, BucketKept

LEMMA LookPublished ==
    ASSUME Owned, Published, UNCHANGED <<tableVars, callVars>>
    PROVE  Published'
  <1>1. \A b \in Buckets : Listed(b)' = Listed(b)
    BY DEF Listed, Building, Bucket, tableVars, callVars
  <1>2. \A b \in Buckets : BucketOK(b)'
    BY <1>1, BucketsKept DEF tableVars
  <1>3. Filled'
    <2>1. Needed' = Needed /\ \A i : Node(i)' = Node(i)
      BY DEF Needed, Node, Share, Rest, Bucket, tableVars, callVars
    <2>2. QED
      BY <2>1 DEF Published, Filled, tableVars, callVars
  <1>4. QED
    BY <1>2, <1>3 DEF Published

\* Between calls, before the record is there and after the switch.
LEMMA QuietPublished ==
    ASSUME Owned, Published, UNCHANGED <<bidx, head, cu, pub>>,
           \A b \in Buckets : \A n \in ToSet(cu[b]) : nodeMem'[n] = nodeMem[n],
           \A b \in Buckets : \A r \in ToSet(bidx[b]) : recKey'[r] = recKey[r],
           ~Building \/ x # None,
           step' # "publish", ~Building' \/ x' # None
    PROVE  Published'
  <1>1. \A b \in Buckets : Listed(b)' = bidx[b] /\ Listed(b) = bidx[b]
    BY DEF Listed
  <1>2. \A b \in Buckets : BucketOK(b)'
    BY <1>1, BucketsKept
  <1>3. QED
    BY <1>2 DEF Published, Filled

LEMMA CallPublished ==
    ASSUME Owned, Published, NEW k \in Keys, AddKey(k) \/ DelKey(k)
    PROVE  Published'
  <1>1. /\ step = "idle" /\ UNCHANGED <<bidx, head, cu, pub, nodeMem, recKey>>
        /\ step' # "publish" /\ (step' = "nodes" => x' # None)
    BY DEF AddKey, DelKey, tableVars
  <1>2. ~Building /\ (~Building' \/ x' # None)
    BY <1>1 DEF Building
  <1>3. QED
    BY <1>1, <1>2, QuietPublished

LEMMA AllocRecordPublished ==
    ASSUME Owned, Published, AllocRecord
    PROVE  Published'
  <1>a. /\ step = "record" /\ step' = "nodes"
        /\ UNCHANGED <<head, cu, pub, nodeMem, key, x>>
    BY DEF AllocRecord
  <1>b. PICK r \in FreeRecs : /\ recKey' = [recKey EXCEPT ![r] = key]
                              /\ bidx' = [bidx EXCEPT ![Bucket] = <<r>> \o @]
    BY DEF AllocRecord
  <1>c. x = None /\ key \in Keys /\ Bucket \in Buckets /\ Bucket' = Bucket
    BY <1>a, TableAssumption DEF Owned, CallOK, Bucket
  <1>d. r \in Recs /\ recKey[r] = None /\ bidx[Bucket] \in Seq(Recs)
    BY <1>b, <1>c DEF FreeRecs, Owned, Types
  <1>e. \A b \in Buckets : r \notin ToSet(bidx[b])
    BY <1>d DEF Owned, Accounted
  <1>f. /\ Tail(bidx'[Bucket]) = bidx[Bucket]
        /\ \A b \in Buckets : b # Bucket => bidx'[b] = bidx[b]
    <2>1. Tail(<<r>> \o bidx[Bucket]) = bidx[Bucket]
      BY <1>d, ConsFacts
    <2>2. QED
      BY <2>1, <1>b, <1>c DEF Owned, Types
  <1>1. ASSUME NEW b \in Buckets PROVE BucketOK(b)'
    <2>1. BucketOK(b)
      BY DEF Published
    <2>2. \A s \in pub[b] : recKey'[s] = recKey[s]
      <3>1. pub[b] \subseteq ToSet(bidx[b])
        BY <2>1, PubIndexed
      <3>2. pub[b] \subseteq Recs /\ recKey \in [Recs -> Keys \cup {None}]
        BY DEF Owned, Types
      <3>3. QED
        BY <3>1, <3>2, <1>b, <1>e
    <2>3. Listed(b)' = Listed(b)
      BY <1>a, <1>c, <1>f DEF Listed, Building
    <2>4. QED
      BY <2>1, <2>2, <2>3, <1>a, BucketKept
  <1>2. QED
    BY <1>1, <1>a DEF Published, Filled

LEMMA AllocNodePublished ==
    ASSUME Owned, Published, AllocNode
    PROVE  Published'
  <1>a. /\ step = "nodes"
        /\ UNCHANGED <<bidx, head, cu, pub, recKey, step, key, x>>
    BY DEF AllocNode
  <1>b. PICK n \in FreeNodes : nodeMem' = [nodeMem EXCEPT ![n] = Blank]
    BY DEF AllocNode
  <1>c. \A b \in Buckets : n \notin ToSet(cu[b]) /\ ToSet(cu[b]) \subseteq Nodes
    BY <1>b, ToSetDef DEF FreeNodes, Owned, Accounted, Types
  <1>d. \A b \in Buckets : \A m \in ToSet(cu[b]) : nodeMem'[m] = nodeMem[m]
    BY <1>b, <1>c DEF Owned, Types
  <1>e. \A b \in Buckets : Listed(b)' = Listed(b)
    BY <1>a DEF Listed, Building, Bucket
  <1>f. \A b \in Buckets : BucketOK(b)'
    BY <1>a, <1>d, <1>e, BucketsKept
  <1>1. QED
    BY <1>a, <1>f DEF Published, Filled

LEMMA FillNodesPublished ==
    ASSUME Owned, Published, FillNodes
    PROVE  Published'
  <1>a. /\ step = "nodes" /\ step' = "publish" /\ Len(fresh) = Needed
        /\ UNCHANGED <<bidx, head, cu, pub, recKey, key, x, fresh>>
    BY DEF FillNodes
  <1>b. /\ \A i \in 1..Len(fresh) : nodeMem'[fresh[i]] = Node(i)
        /\ \A n \in Nodes : n \notin ToSet(fresh) => nodeMem'[n] = nodeMem[n]
    BY FillFacts
  <1>c. \A b \in Buckets : ToSet(cu[b]) \subseteq Nodes /\ ToSet(cu[b]) \cap ToSet(fresh) = {}
    BY ToSetDef DEF Owned, Types, NodesOK
  <1>d. \A b \in Buckets : \A m \in ToSet(cu[b]) : nodeMem'[m] = nodeMem[m]
    BY <1>b, <1>c
  <1>e. \A b \in Buckets : Listed(b)' = Listed(b)
    BY <1>a DEF Listed, Building, Bucket
  <1>f. \A b \in Buckets : BucketOK(b)'
    BY <1>a, <1>d, <1>e, BucketsKept
  <1>g. Needed' = Needed /\ \A i : Node(i)' = Node(i)
    BY <1>a DEF Needed, Node, Share, Rest, Bucket
  <1>1. QED
    BY <1>a, <1>b, <1>f, <1>g DEF Published, Filled

LEMMA InsertUndonePublished ==
    ASSUME Owned, Published, AllocNodeFails, InsertUndone
    PROVE  Published'
  <1>a. /\ step = "nodes" /\ x = None /\ Return /\ nodeMem' = WithNodes(fresh, None)
        /\ UNCHANGED <<head, cu, pub>>
        /\ recKey' = [recKey EXCEPT ![Head(bidx[Bucket])] = None]
        /\ bidx' = [bidx EXCEPT ![Bucket] = Tail(@)]
    BY DEF AllocNodeFails, InsertUndone
  <1>b. /\ key \in Keys /\ Bucket \in Buckets /\ fresh \in Seq(Nodes) /\ Building
    BY <1>a, RestFacts DEF Owned, CallOK, Building, Types
  <1>c. step' = "idle" /\ ~Building'
    BY <1>a, ReturnFacts DEF Building
  <1>d. Private = ToSet(fresh) \cup {Head(bidx[Bucket])}
    BY <1>a, <1>b DEF Private
  <1>e. \A n \in Nodes : n \notin ToSet(fresh) => nodeMem'[n] = nodeMem[n]
    BY <1>a, <1>b, WithNodesFacts
  <1>1. ASSUME NEW b \in Buckets PROVE BucketOK(b)'
    <2>1. BucketOK(b)
      BY DEF Published
    <2>2. (pub[b] \cup ToSet(cu[b])) \cap Private = {}
      BY <2>1, PubIndexed
    <2>3. pub[b] \subseteq Recs /\ ToSet(cu[b]) \subseteq Nodes /\ recKey \in [Recs -> Keys \cup {None}]
      BY ToSetDef DEF Owned, Types
    <2>4. \A s \in pub[b] : recKey'[s] = recKey[s]
      BY <2>2, <2>3, <1>a, <1>d
    <2>5. \A n \in ToSet(cu[b]) : nodeMem'[n] = nodeMem[n]
      BY <2>2, <2>3, <1>d, <1>e
    <2>6. Listed(b)' = Listed(b)
      BY <1>a, <1>b, <1>c DEF Listed, Owned, Types
    <2>7. QED
      BY <2>1, <2>4, <2>5, <2>6, <1>a, BucketKept
  <1>2. QED
    BY <1>1, <1>c DEF Published, Filled

LEMMA BucketClearedPublished ==
    ASSUME Owned, Published, AllocNodeFails, BucketCleared
    PROVE  Published'
  <1>a. /\ step = "nodes" /\ x # None /\ nodeMem' = WithNodes(fresh, None)
        /\ head' = [head EXCEPT ![Bucket] = None]
        /\ cu' = [cu EXCEPT ![Bucket] = <<>>]
        /\ pub' = [pub EXCEPT ![Bucket] = {}]
        /\ bidx' = [bidx EXCEPT ![Bucket] = Rest]
        /\ step' = "sync" /\ UNCHANGED recKey
    BY DEF AllocNodeFails, BucketCleared
  <1>b. Building /\ ~Building'
    BY <1>a DEF Building
  <1>c. /\ key \in Keys /\ Bucket \in Buckets
        /\ \A b \in Buckets : b # Bucket => bidx'[b] = bidx[b]
    BY <1>a, <1>b, SwitchFacts
  <1>d. /\ cu'[Bucket] = <<>> /\ head'[Bucket] = None /\ pub'[Bucket] = {}
        /\ \A b \in Buckets : b # Bucket =>
              cu'[b] = cu[b] /\ head'[b] = head[b] /\ pub'[b] = pub[b]
    BY <1>a, <1>c DEF Owned, Types
  <1>e. \A n \in Nodes : n \notin ToSet(fresh) => nodeMem'[n] = nodeMem[n]
    BY <1>a, WithNodesFacts DEF Owned, Types
  <1>1. ASSUME NEW b \in Buckets PROVE BucketOK(b)'
    <2>1. CASE b = Bucket
      <3>1. Chain(<<>>, {}, nodeMem', recKey') /\ HeadOK(None, <<>>, {}, nodeMem')
        BY DEF Chain, HeadOK
      <3>2. QED
        BY <2>1, <3>1, <1>d DEF BucketOK
    <2>2. CASE b # Bucket
      <3>1. BucketOK(b)
        BY DEF Published
      <3>2. ToSet(cu[b]) \subseteq Nodes /\ ToSet(cu[b]) \cap ToSet(fresh) = {}
        BY ToSetDef DEF Owned, Types, NodesOK
      <3>3. \A n \in ToSet(cu[b]) : nodeMem'[n] = nodeMem[n]
        BY <3>2, <1>e
      <3>4. Listed(b)' = Listed(b)
        BY <2>2, <1>b, <1>c DEF Listed
      <3>5. QED
        BY <2>2, <3>1, <3>3, <3>4, <1>a, <1>d, BucketKept
    <2>3. QED
      BY <2>1, <2>2
  <1>2. QED
    BY <1>1, <1>a DEF Published, Filled

LEMMA PublishPublished ==
    ASSUME Owned, Published, Publish
    PROVE  Published'
  <1>a. /\ step = "publish"
        /\ head' = [head EXCEPT ![Bucket] = NewHead]
        /\ pub' = [pub EXCEPT ![Bucket] = ToSet(Rest)]
        /\ cu' = [cu EXCEPT ![Bucket] = fresh]
        /\ bidx' = [bidx EXCEPT ![Bucket] = Rest]
        /\ UNCHANGED <<recKey, nodeMem>>
    BY DEF Publish
  <1>b. step' \in {"idle", "sync"}
    <2>1. (x = None /\ Return) \/ step' = "sync"
      BY DEF Publish
    <2>2. QED
      BY <2>1, ReturnFacts
  <1>c. Building /\ ~Building' /\ step' # "publish"
    BY <1>a, <1>b DEF Building
  <1>d. /\ key \in Keys /\ Bucket \in Buckets /\ bidx'[Bucket] = Rest
        /\ \A b \in Buckets : b # Bucket => bidx'[b] = bidx[b]
    BY <1>a, <1>c, SwitchFacts
  <1>e. /\ cu'[Bucket] = fresh /\ head'[Bucket] = NewHead /\ pub'[Bucket] = ToSet(Rest)
        /\ \A b \in Buckets : b # Bucket =>
              cu'[b] = cu[b] /\ head'[b] = head[b] /\ pub'[b] = pub[b]
    BY <1>a, <1>d DEF Owned, Types
  <1>1. ASSUME NEW b \in Buckets PROVE BucketOK(b)'
    <2>1. CASE b = Bucket
      <3>1. Chain(fresh, ToSet(Rest), nodeMem', recKey') /\ HeadOK(NewHead, fresh, ToSet(Rest), nodeMem')
        BY <1>a, BuiltChain DEF Published
      <3>2. Listed(b)' = Rest
        BY <2>1, <1>c, <1>d DEF Listed
      <3>3. QED
        BY <2>1, <3>1, <3>2, <1>e DEF BucketOK
    <2>2. CASE b # Bucket
      <3>1. BucketOK(b)
        BY DEF Published
      <3>2. Listed(b)' = Listed(b)
        BY <2>2, <1>c, <1>d DEF Listed
      <3>3. QED
        BY <2>2, <3>1, <3>2, <1>a, <1>e, BucketKept
    <2>3. QED
      BY <2>1, <2>2
  <1>2. QED
    BY <1>1, <1>c DEF Published, Filled

\* The SYNC and the end of a call: nothing that is published is freed.
LEMMA SyncPublished ==
    ASSUME Owned, Published, AllocRecordFails \/ Arm \/ SyncDone \/ SyncTimeout
    PROVE  Published'
  <1>1. /\ step \in {"record", "sync", "poll"} /\ UNCHANGED <<bidx, head, cu, pub, nodeMem, recKey>>
        /\ step' \in {"poll", "free", "sync"} \/ Return
    BY DEF AllocRecordFails, Arm, SyncDone, SyncTimeout, tableVars
  <1>2. step' \in {"poll", "free", "sync", "record", "idle"}
    BY <1>1, ReturnFacts
  <1>3. ~Building /\ ~Building' /\ step' # "publish"
    BY <1>1, <1>2 DEF Building
  <1>4. QED
    BY <1>1, <1>3, QuietPublished

LEMMA FreeOldPublished ==
    ASSUME Owned, Published, FreeOld
    PROVE  Published'
  <1>a. /\ step = "free" /\ Return /\ nodeMem' = WithNodes(old, None)
        /\ recKey' = [r \in Recs |-> IF r = x THEN None ELSE recKey[r]]
        /\ UNCHANGED <<bidx, head, cu, pub>>
    BY DEF FreeOld
  <1>b. Unlinked /\ ~Building /\ ~Building' /\ step' # "publish"
    BY <1>a, ReturnFacts DEF Unlinked, Building
  <1>c. \A n \in Nodes : n \notin ToSet(old) => nodeMem'[n] = nodeMem[n]
    BY <1>a, WithNodesFacts DEF Owned, Types
  <1>d. \A b \in Buckets : ToSet(cu[b]) \subseteq Nodes /\ ToSet(cu[b]) \cap ToSet(old) = {}
    BY ToSetDef DEF Owned, Types, NodesOK
  <1>e. \A b \in Buckets : ToSet(bidx[b]) \subseteq Recs /\ x \notin ToSet(bidx[b])
    BY <1>b, ToSetDef DEF Owned, Types, RecsOK
  <1>f. \A b \in Buckets : \A n \in ToSet(cu[b]) : nodeMem'[n] = nodeMem[n]
    BY <1>c, <1>d
  <1>g. \A b \in Buckets : \A r \in ToSet(bidx[b]) : recKey'[r] = recKey[r]
    BY <1>a, <1>e
  <1>1. QED
    BY <1>a, <1>b, <1>f, <1>g, QuietPublished

\* A table of empty buckets.
LEMMA EmptyPublished ==
    ASSUME step = "idle", bidx = [b \in Buckets |-> <<>>], head = [b \in Buckets |-> None],
           cu = [b \in Buckets |-> <<>>], pub = [b \in Buckets |-> {}]
    PROVE  Published
  <1>1. Chain(<<>>, {}, nodeMem, recKey) /\ HeadOK(None, <<>>, {}, nodeMem)
    BY DEF Chain, HeadOK
  <1>2. QED
    BY <1>1 DEF Published, BucketOK, Filled

LEMMA DrainPublished ==
    ASSUME Drain
    PROVE  Published'
  <1>1. /\ step' = "idle" /\ head' = [b \in Buckets |-> None] /\ pub' = [b \in Buckets |-> {}]
        /\ bidx' = [b \in Buckets |-> <<>>] /\ cu' = [b \in Buckets |-> <<>>]
    BY DEF Drain, callVars
  <1>2. Chain(<<>>, {}, nodeMem', recKey') /\ HeadOK(None, <<>>, {}, nodeMem')
    BY DEF Chain, HeadOK
  <1>3. QED
    BY <1>1, <1>2 DEF Published, BucketOK, Filled

LEMMA PublishedStep ==
    ASSUME Owned, Published, [Next]_vars
    PROVE  Published'
  <1>1. ASSUME NEW k \in Keys, AddKey(k) \/ DelKey(k) PROVE Published'
    BY <1>1, CallPublished
  <1>2. CASE AllocRecord \/ AllocNode \/ FillNodes \/ Publish
    BY <1>2, AllocRecordPublished, AllocNodePublished, FillNodesPublished, PublishPublished
  <1>3. CASE AllocNodeFails
    <2>1. InsertUndone \/ BucketCleared
      BY <1>3 DEF AllocNodeFails
    <2>2. QED
      BY <2>1, <1>3, InsertUndonePublished, BucketClearedPublished
  <1>4. CASE AllocRecordFails \/ Arm \/ SyncDone \/ SyncTimeout \/ FreeOld \/ Drain
    BY <1>4, SyncPublished, FreeOldPublished, DrainPublished
  <1>5. ASSUME NEW w \in Walkers,
               WalkRecord(w) \/ WalkNode(w) \/ \E k \in Keys : WalkStart(w, k)
        PROVE  Published'
    BY <1>5, WalkStepTypes, LookPublished
  <1>6. CASE Detach \/ Attach \/ UNCHANGED vars
    <2>1. UNCHANGED <<tableVars, callVars>>
      BY <1>6 DEF Detach, Attach, vars
    <2>2. QED
      BY <2>1, LookPublished
  <1>7. QED
    BY <1>1, <1>2, <1>3, <1>4, <1>5, <1>6 DEF Next, Driver

-----------------------------------------------------------------------------
(* The lookups in flight *)

\* A step of the driver is harmless to a lookup when every block the lookup may
\* reach keeps its contents and is neither taken by the driver nor doomed.
LEMMA SafeStep ==
    ASSUME Owned, NEW w \in Walkers, Safe(w), walk'[w] = walk[w],
           \A n \in Nodes :
              nodeMem[n] # None /\ n \notin Private /\ (Cleared(w) => n \notin Doomed) =>
                 nodeMem'[n] = nodeMem[n] /\ n \notin Private' /\ (Cleared(w)' => n \notin Doomed'),
           \A r \in Recs :
              recKey[r] # None /\ r \notin Private /\ (Cleared(w) => r \notin Doomed) =>
                 recKey'[r] = recKey[r] /\ r \notin Private' /\ (Cleared(w)' => r \notin Doomed')
    PROVE  Safe(w)'
  <1>1. PICK c \in Seq(Nodes), R \in SUBSET Recs :
                /\ Chain(c, R, nodeMem, recKey)
                /\ OnChain(c, R, nodeMem, recKey, walk[w])
                /\ (ToSet(c) \cup R) \cap Private = {}
                /\ Cleared(w) => (ToSet(c) \cup R) \cap Doomed = {}
    BY DEF Safe
  <1>2. ASSUME NEW n \in ToSet(c) PROVE n \in Nodes /\ nodeMem[n] # None
    <2>1. PICK i \in 1..Len(c) : c[i] = n
      BY <1>2, ToSetDef
    <2>2. nodeMem[n] \in NodeRecord /\ n \in Nodes
      BY <2>1, <1>1 DEF Chain
    <2>3. QED
      BY <2>2, NoneNotNode
  <1>3. \A n \in ToSet(c) : /\ nodeMem'[n] = nodeMem[n] /\ n \notin Private'
                            /\ Cleared(w)' => n \notin Doomed'
    BY <1>1, <1>2
  <1>4. \A r \in R : /\ recKey'[r] = recKey[r] /\ r \notin Private'
                     /\ Cleared(w)' => r \notin Doomed'
    BY <1>1 DEF Chain
  <1>5. \A i \in 1..Len(c) : nodeMem'[c[i]] = nodeMem[c[i]]
    BY <1>3, ToSetDef
  <1>6. Chain(c, R, nodeMem', recKey')
    BY <1>1, <1>4, <1>5, ChainKept
  <1>7. OnChain(c, R, nodeMem', recKey', walk'[w])
    BY <1>1, <1>4, <1>5 DEF OnChain
  <1>8. QED
    BY <1>3, <1>4, <1>6, <1>7 DEF Safe

\* A driver step that is harmless to every lookup in flight.
LEMMA DriverLookups ==
    ASSUME Owned, Lookups, UNCHANGED <<walk, wrong>>,
           \A w \in InFlight : \A n \in Nodes :
              nodeMem[n] # None /\ n \notin Private /\ (Cleared(w) => n \notin Doomed) =>
                 nodeMem'[n] = nodeMem[n] /\ n \notin Private' /\ (Cleared(w)' => n \notin Doomed'),
           \A w \in InFlight : \A r \in Recs :
              recKey[r] # None /\ r \notin Private /\ (Cleared(w) => r \notin Doomed) =>
                 recKey'[r] = recKey[r] /\ r \notin Private' /\ (Cleared(w)' => r \notin Doomed')
    PROVE  Lookups'
  <1>1. InFlight' = InFlight /\ InFlight \subseteq Walkers
    BY DEF InFlight
  <1>2. ASSUME NEW w \in InFlight PROVE Safe(w)'
    BY <1>1, SafeStep DEF Lookups
  <1>3. QED
    BY <1>1, <1>2 DEF Lookups

LEMMA CallLookups ==
    ASSUME Owned, Lookups, NEW k \in Keys, AddKey(k) \/ DelKey(k)
    PROVE  Lookups'
  <1>1. /\ step = "idle" /\ UNCHANGED <<recKey, nodeMem, fresh, walk, wrong>>
        /\ step' \in {"record", "nodes"} /\ (step' = "nodes" => x' # None)
    BY DEF AddKey, DelKey, tableVars, lookVars
  <1>2. fresh = <<>>
    BY <1>1 DEF Owned, CallOK
  <1>3. Private' = {}
    BY <1>1, <1>2, ToSetEmpty DEF Private, Building
  <1>4. \A w \in InFlight : ~Cleared(w)'
    BY <1>1 DEF Cleared
  <1>5. QED
    BY <1>1, <1>3, <1>4, DriverLookups

LEMMA AllocRecordLookups ==
    ASSUME Owned, Lookups, AllocRecord
    PROVE  Lookups'
  <1>a. /\ step = "record" /\ step' = "nodes"
        /\ UNCHANGED <<nodeMem, key, x, fresh, walk, wrong>>
    BY DEF AllocRecord, lookVars
  <1>b. PICK r \in FreeRecs : /\ recKey' = [recKey EXCEPT ![r] = key]
                              /\ bidx' = [bidx EXCEPT ![Bucket] = <<r>> \o @]
    BY DEF AllocRecord
  <1>c. x = None /\ fresh = <<>> /\ key \in Keys /\ Bucket \in Buckets /\ Bucket' = Bucket
    BY <1>a, TableAssumption DEF Owned, CallOK, Bucket
  <1>d. r \in Recs /\ recKey[r] = None /\ bidx[Bucket] \in Seq(Recs)
    BY <1>b, <1>c DEF FreeRecs, Owned, Types
  <1>e. Head(bidx'[Bucket]) = r
    <2>1. Head(<<r>> \o bidx[Bucket]) = r
      BY <1>d, ConsFacts
    <2>2. QED
      BY <2>1, <1>b, <1>c DEF Owned, Types
  <1>f. Private' = {r}
    BY <1>a, <1>c, <1>e, ToSetEmpty DEF Private, Building
  <1>g. \A w \in InFlight : ~Cleared(w)'
    BY <1>a DEF Cleared
  <1>h. \A s \in Recs : recKey[s] # None => s # r /\ recKey'[s] = recKey[s]
    BY <1>b, <1>d DEF Owned, Types
  <1>i. \A n \in Nodes : n # r
    BY <1>d, TableAssumption
  <1>1. QED
    BY <1>a, <1>f, <1>g, <1>h, <1>i, DriverLookups

LEMMA AllocNodeLookups ==
    ASSUME Owned, Lookups, AllocNode
    PROVE  Lookups'
  <1>a. /\ step = "nodes"
        /\ UNCHANGED <<bidx, recKey, step, key, x, old, walk, wrong>>
    BY DEF AllocNode, lookVars
  <1>b. PICK n \in FreeNodes : nodeMem' = [nodeMem EXCEPT ![n] = Blank] /\ fresh' = Append(fresh, n)
    BY DEF AllocNode
  <1>c. n \in Nodes /\ nodeMem[n] = None /\ fresh \in Seq(Nodes)
    BY <1>b DEF FreeNodes, Owned, Types
  <1>d. ToSet(fresh') = ToSet(fresh) \cup {n}
    BY <1>b, <1>c, AppendFacts
  <1>e. Private' = Private \cup {n}
    BY <1>a, <1>d DEF Private, Building, Bucket
  <1>f. \A w \in InFlight : ~Cleared(w)'
    BY <1>a DEF Cleared
  <1>g. \A m \in Nodes : nodeMem[m] # None => m # n /\ nodeMem'[m] = nodeMem[m]
    BY <1>b, <1>c DEF Owned, Types
  <1>h. \A r \in Recs : r # n
    BY <1>c, TableAssumption
  <1>1. QED
    BY <1>a, <1>e, <1>f, <1>g, <1>h, DriverLookups

LEMMA FillNodesLookups ==
    ASSUME Owned, Lookups, FillNodes
    PROVE  Lookups'
  <1>a. /\ step = "nodes" /\ step' = "publish"
        /\ UNCHANGED <<bidx, recKey, key, x, fresh, walk, wrong>>
    BY DEF FillNodes, lookVars
  <1>b. \A n \in Nodes : n \notin ToSet(fresh) => nodeMem'[n] = nodeMem[n]
    BY FillFacts
  <1>c. Private' = Private /\ ToSet(fresh) \subseteq Private
    BY <1>a DEF Private, Building, Bucket
  <1>d. \A w \in InFlight : ~Cleared(w)'
    BY <1>a DEF Cleared
  <1>1. QED
    BY <1>a, <1>b, <1>c, <1>d, DriverLookups

LEMMA AllocNodeFailsLookups ==
    ASSUME Owned, Lookups, AllocNodeFails
    PROVE  Lookups'
  <1>a. /\ step = "nodes" /\ nodeMem' = WithNodes(fresh, None) /\ UNCHANGED <<walk, wrong>>
        /\ InsertUndone \/ BucketCleared
    BY DEF AllocNodeFails, lookVars
  <1>b. \A n \in Nodes : n \notin ToSet(fresh) => nodeMem'[n] = nodeMem[n]
    BY <1>a, WithNodesFacts DEF Owned, Types
  <1>c. ToSet(fresh) \subseteq Private
    BY DEF Private
  <1>1. CASE InsertUndone
    <2>1. /\ x = None /\ recKey' = [recKey EXCEPT ![Head(bidx[Bucket])] = None] /\ Return
      BY <1>1 DEF InsertUndone
    <2>2. Head(bidx[Bucket]) \in Private
      BY <2>1, <1>a DEF Private, Building
    <2>3. \A r \in Recs : r \notin Private => recKey'[r] = recKey[r]
      BY <2>1, <2>2 DEF Owned, Types
    <2>4. step' = "idle" /\ fresh' = <<>>
      BY <2>1, ReturnFacts
    <2>5. Private' = {} /\ \A w \in InFlight : ~Cleared(w)'
      BY <2>4, ToSetEmpty DEF Private, Building, Cleared
    <2>6. QED
      BY <2>3, <2>5, <1>a, <1>b, <1>c, DriverLookups
  <1>2. CASE BucketCleared
    <2>1. step' = "sync" /\ fresh' = <<>> /\ UNCHANGED recKey
      BY <1>2 DEF BucketCleared
    <2>2. Private' = {} /\ \A w \in InFlight : ~Cleared(w)'
      BY <2>1, ToSetEmpty DEF Private, Building, Cleared
    <2>3. QED
      BY <2>1, <2>2, <1>a, <1>b, <1>c, DriverLookups
  <1>3. QED
    BY <1>a, <1>1, <1>2

\* Steps that write to no block and end in a state with nothing private or doomed.
LEMMA QuietLookups ==
    ASSUME Owned, Lookups, UNCHANGED <<recKey, nodeMem, walk, wrong>>,
           fresh' = <<>>, step' \in {"idle", "record", "sync"}
    PROVE  Lookups'
  <1>1. Private' = {} /\ \A w \in InFlight : ~Cleared(w)'
    BY ToSetEmpty DEF Private, Building, Cleared
  <1>2. QED
    BY <1>1, DriverLookups

\* The SYNC waits for every lookup in flight when it is armed.
LEMMA ArmLookups ==
    ASSUME Owned, Lookups, Arm
    PROVE  Lookups'
  <1>1. /\ step = "sync" /\ step' = "poll" /\ waiting' = InFlight
        /\ UNCHANGED <<recKey, nodeMem, fresh, walk, wrong>>
    BY DEF Arm, tableVars, lookVars
  <1>2. fresh = <<>>
    BY <1>1 DEF Owned, CallOK, Unlinked
  <1>3. Private' = {} /\ \A w \in InFlight : ~Cleared(w)'
    BY <1>1, <1>2, ToSetEmpty DEF Private, Building, Cleared
  <1>4. QED
    BY <1>1, <1>3, DriverLookups

\* So none of them reaches a doomed block when it is over.
LEMMA SyncDoneLookups ==
    ASSUME Owned, Lookups, SyncDone
    PROVE  Lookups'
  <1>1. /\ step = "poll" /\ step' = "free" /\ waiting = {}
        /\ UNCHANGED <<recKey, nodeMem, x, fresh, old, walk, wrong>>
    BY DEF SyncDone, tableVars, lookVars
  <1>2. fresh = <<>>
    BY <1>1 DEF Owned, CallOK, Unlinked
  <1>3. Private' = {} /\ Doomed' = Doomed /\ \A w \in InFlight : Cleared(w)
    BY <1>1, <1>2, ToSetEmpty DEF Private, Building, Cleared, Doomed
  <1>4. QED
    BY <1>1, <1>3, DriverLookups

LEMMA FreeOldLookups ==
    ASSUME Owned, Lookups, FreeOld
    PROVE  Lookups'
  <1>a. /\ step = "free" /\ Return /\ nodeMem' = WithNodes(old, None)
        /\ recKey' = [r \in Recs |-> IF r = x THEN None ELSE recKey[r]]
        /\ UNCHANGED <<walk, wrong>>
    BY DEF FreeOld, lookVars
  <1>b. step' \in {"idle", "record"} /\ fresh' = <<>>
    BY <1>a, ReturnFacts
  <1>c. Private' = {} /\ \A w \in InFlight : Cleared(w) /\ ~Cleared(w)'
    BY <1>a, <1>b, ToSetEmpty DEF Private, Building, Cleared
  <1>d. \A n \in Nodes : n \notin Doomed => nodeMem'[n] = nodeMem[n]
    BY <1>a, WithNodesFacts DEF Owned, Types, Doomed
  <1>e. \A r \in Recs : r \notin Doomed => recKey'[r] = recKey[r]
    BY <1>a, TableAssumption DEF Doomed
  <1>1. QED
    BY <1>a, <1>c, <1>d, <1>e, DriverLookups

\* A step of one lookup leaves the others where they are.
LEMMA OtherLookup ==
    ASSUME Owned, NEW w \in Walkers, NEW v \in Walkers, v # w, Safe(v),
           UNCHANGED <<tableVars, callVars>>, walk'[v] = walk[v],
           waiting' = waiting \/ waiting' = waiting \ {w}
    PROVE  Safe(v)'
  <1>1. /\ Private' = Private /\ Doomed' = Doomed /\ Cleared(v)' = Cleared(v)
        /\ nodeMem' = nodeMem /\ recKey' = recKey
    BY DEF Private, Doomed, Cleared, Building, Bucket, tableVars, callVars
  <1>2. QED
    BY <1>1, SafeStep

\* A lookup starts on the published chain of its bucket.
LEMMA WalkStartSafe ==
    ASSUME Owned, Published, NEW w \in Walkers, NEW k \in Keys, WalkStart(w, k)
    PROVE  Safe(w)'
  <1> DEFINE b == BucketOf[k]
             c == cu[b]
             R == pub[b]
             wk == [key |-> k, at |-> head[b], want |-> Promised(k)]
  <1>a. b \in Buckets
    BY TableAssumption
  <1>b. /\ head[b] # None /\ UNCHANGED <<tableVars, callVars, waiting>>
        /\ walk' = [walk EXCEPT ![w] = wk]
    BY DEF WalkStart
  <1>c. c \in Seq(Nodes) /\ R \in SUBSET Recs /\ ToSet(c) \subseteq Nodes
    BY <1>a, ToSetDef DEF Owned, Types
  <1>d. BucketOK(b)
    BY <1>a DEF Published
  <1>e. Chain(c, R, nodeMem, recKey) /\ HeadOK(head[b], c, R, nodeMem)
    BY <1>d DEF BucketOK
  <1>f. R \subseteq ToSet(bidx[b]) /\ (ToSet(c) \cup R) \cap Private = {}
    BY <1>a, <1>d, PubIndexed
  <1>g. \A r, s \in R : recKey[r] = recKey[s] => r = s
    BY <1>a, <1>f DEF Owned, RecsOK
  <1>h. /\ \A r \in R : recKey[r] = k <=> r = Promised(k)
        /\ Promised(k) # None => Promised(k) \in R
    <2>1. CASE \E r \in R : recKey[r] = k
      <3>1. Promised(k) \in R /\ recKey[Promised(k)] = k
        BY <2>1 DEF Promised
      <3>2. QED
        BY <3>1, <1>g
    <2>2. CASE ~(\E r \in R : recKey[r] = k)
      <3>1. Promised(k) = None /\ None \notin R
        BY <2>2, <1>c, TableAssumption DEF Promised
      <3>2. QED
        BY <2>2, <3>1
    <2>3. QED
      BY <2>1, <2>2
  <1>i. Cleared(w) => (ToSet(c) \cup R) \cap Doomed = {}
    <2>1. SUFFICES ASSUME Cleared(w) PROVE (ToSet(c) \cup R) \cap Doomed = {}
      OBVIOUS
    <2>2. Unlinked
      BY <2>1 DEF Cleared, Unlinked
    <2>3. ToSet(c) \cap ToSet(old) = {} /\ x \notin ToSet(bidx[b])
      BY <2>2, <1>a DEF Owned, NodesOK, RecsOK
    <2>4. ToSet(old) \subseteq Nodes /\ {x} \ {None} \subseteq Recs
      BY ToSetDef DEF Owned, Types
    <2>5. QED
      BY <2>3, <2>4, <1>c, <1>f, TableAssumption DEF Doomed
  <1>j. walk'[w] = wk
    BY <1>b DEF Owned, Types
  <1> HIDE DEF b, c, R
  <1>k. wk.at = head[b] /\ wk.key = k /\ wk.want = Promised(k)
    OBVIOUS
  <1> HIDE DEF wk
  <1>1. OnChain(c, R, nodeMem, recKey, wk)
    <2>1. CASE head[b] \in Recs /\ R = {head[b]} /\ c = <<>>
      BY <2>1, <1>h, <1>k DEF OnChain
    <2>2. CASE /\ c # <<>> /\ head[b] = c[1]
               /\ \A r \in R : \E j \in 1..Len(c) : r \in ToSet(nodeMem[c[j]].recs)
      <3>1. 1 \in 1..Len(c) /\ c[1] \in ToSet(c)
        BY <2>2, <1>c, EmptySeq, ToSetDef
      <3>2. \A j \in 1..Len(c) : 1 <= j
        BY <1>c
      <3>3. QED
        BY <2>2, <3>1, <3>2, <1>h, <1>k DEF OnChain
    <2>3. QED
      BY <2>1, <2>2, <1>b, <1>e DEF HeadOK
  <1>2. /\ Private' = Private /\ Doomed' = Doomed /\ Cleared(w)' = Cleared(w)
        /\ nodeMem' = nodeMem /\ recKey' = recKey
    BY <1>b DEF Private, Doomed, Cleared, Building, Bucket, tableVars, callVars
  <1>3. QED
    BY <1>1, <1>2, <1>c, <1>e, <1>f, <1>i, <1>j DEF Safe

\* At a record: it has the key of the lookup exactly when it was promised.
LEMMA WalkRecordExact ==
    ASSUME Owned, NEW w \in Walkers, Safe(w), walk[w].at \in Recs
    PROVE  (IF recKey[walk[w].at] = walk[w].key THEN walk[w].at ELSE None) = walk[w].want
  <1>1. PICK c \in Seq(Nodes), R \in SUBSET Recs : OnChain(c, R, nodeMem, recKey, walk[w])
    BY DEF Safe
  <1>2. walk[w].at \notin Nodes /\ ToSet(c) \subseteq Nodes /\ \A i \in 1..Len(c) : c[i] \in Nodes
    BY ToSetDef, TableAssumption
  <1>3. walk[w].at \in R
    BY <1>1, <1>2 DEF OnChain
  <1>4. QED
    BY <1>1, <1>2, <1>3 DEF OnChain

\* At a node: where it stands on its chain, and that a hit is the promised record.
LEMMA WalkNodeFacts ==
    ASSUME Owned, NEW w \in Walkers, Safe(w), walk[w].at \in Nodes
    PROVE  \E c \in Seq(Nodes), R \in SUBSET Recs, i \in Nat :
             /\ Chain(c, R, nodeMem, recKey)
             /\ (ToSet(c) \cup R) \cap Private = {}
             /\ Cleared(w) => (ToSet(c) \cup R) \cap Doomed = {}
             /\ \A r \in R : recKey[r] = walk[w].key <=> r = walk[w].want
             /\ i \in 1..Len(c) /\ walk[w].at = c[i]
             /\ walk[w].want # None =>
                  \E j \in 1..Len(c) : i <= j /\ walk[w].want \in ToSet(nodeMem[c[j]].recs)
  <1>1. PICK c \in Seq(Nodes), R \in SUBSET Recs :
                /\ Chain(c, R, nodeMem, recKey)
                /\ OnChain(c, R, nodeMem, recKey, walk[w])
                /\ (ToSet(c) \cup R) \cap Private = {}
                /\ Cleared(w) => (ToSet(c) \cup R) \cap Doomed = {}
    BY DEF Safe
  <1>2. walk[w].at \notin Recs /\ walk[w].want \in Recs \cup {None}
    BY TableAssumption DEF Owned, Types, WalkRecordType
  <1>3. walk[w].at # walk[w].want
    BY <1>2, TableAssumption
  <1>4. \E i \in 1..Len(c) :
           /\ walk[w].at = c[i]
           /\ walk[w].want # None =>
                \E j \in 1..Len(c) : i <= j /\ walk[w].want \in ToSet(nodeMem[c[j]].recs)
    <2>1. CASE walk[w].want = None
      <3>1. walk[w].at \in ToSet(c)
        BY <1>1, <1>2 DEF OnChain
      <3>2. QED
        BY <2>1, <3>1, ToSetDef
    <2>2. CASE walk[w].want # None
      BY <2>2, <1>1, <1>3 DEF OnChain
    <2>3. QED
      BY <2>1, <2>2
  <1>5. PICK i \in 1..Len(c) :
           /\ walk[w].at = c[i]
           /\ walk[w].want # None =>
                \E j \in 1..Len(c) : i <= j /\ walk[w].want \in ToSet(nodeMem[c[j]].recs)
    BY <1>4
  <1>6. \A r \in R : recKey[r] = walk[w].key <=> r = walk[w].want
    BY <1>1 DEF OnChain
  <1>7. i \in Nat
    OBVIOUS
  <1>8. QED
    BY <1>1, <1>5, <1>6, <1>7

\* A lookup goes from a node to the promised record, to the next node of its
\* chain, or ends with the miss it was promised.
LEMMA WalkNodeLookup ==
    ASSUME Owned, NEW w \in Walkers, Safe(w), WalkNode(w)
    PROVE  /\ wrong' = wrong /\ (waiting' = waiting \/ waiting' = waiting \ {w})
           /\ walk'[w].at # None => Safe(w)'
  <1> DEFINE m == nodeMem[walk[w].at]
             hits == IF m = None THEN {} ELSE {i \in DOMAIN m.keys : m.keys[i] = walk[w].key}
             on == IF hits # {} THEN m.recs[CHOOSE i \in hits : TRUE]
                   ELSE IF m = None THEN None ELSE m.next
  <1>a. /\ IF on # None
           THEN walk' = [walk EXCEPT ![w].at = on] /\ UNCHANGED <<waiting, wrong>>
           ELSE Ends(w, None)
        /\ UNCHANGED <<tableVars, callVars, attached>>
        /\ walk[w].at \in Nodes
    BY DEF WalkNode
  <1>b. PICK c \in Seq(Nodes), R \in SUBSET Recs, i \in Nat :
             /\ Chain(c, R, nodeMem, recKey)
             /\ (ToSet(c) \cup R) \cap Private = {}
             /\ Cleared(w) => (ToSet(c) \cup R) \cap Doomed = {}
             /\ \A r \in R : recKey[r] = walk[w].key <=> r = walk[w].want
             /\ i \in 1..Len(c) /\ walk[w].at = c[i]
             /\ walk[w].want # None =>
                  \E j \in 1..Len(c) : i <= j /\ walk[w].want \in ToSet(nodeMem[c[j]].recs)
    BY <1>a, WalkNodeFacts
  <1>c. /\ m \in NodeRecord /\ ToSet(m.recs) \subseteq R
        /\ \A j \in 1..Len(m.recs) : m.keys[j] = recKey[m.recs[j]]
        /\ m.next = IF i < Len(c) THEN c[i + 1] ELSE None
    BY <1>b DEF Chain
  <1>d. m # None
    BY <1>c, NoneNotNode
  <1>e. hits = {j \in DOMAIN m.keys : m.keys[j] = walk[w].key}
    BY <1>d
  <1>f. on = IF hits # {} THEN m.recs[CHOOSE j \in hits : TRUE] ELSE m.next
    BY <1>d
  <1>g. m.recs \in Seq(Recs) /\ m.keys \in Seq(Keys) /\ Len(m.keys) = Len(m.recs)
    BY <1>c DEF NodeRecord
  <1>h. m = nodeMem[c[i]]
    BY <1>b
  <1>i. walk[w] \in WalkRecordType /\ walk \in [Walkers -> WalkRecordType]
    BY DEF Owned, Types
  <1> HIDE DEF m, hits, on
  <1>j. DOMAIN m.keys = 1..Len(m.recs)
    BY <1>g
  <1>k. /\ Private' = Private /\ Doomed' = Doomed /\ nodeMem' = nodeMem /\ recKey' = recKey
        /\ waiting' = waiting => Cleared(w)' = Cleared(w)
    BY <1>a DEF Private, Doomed, Cleared, Building, Bucket, tableVars, callVars
  <1>1. CASE hits # {}
    <2> DEFINE j == CHOOSE q \in hits : TRUE
    <2>1. j \in hits
      BY <1>1
    <2> HIDE DEF j
    <2>2. j \in 1..Len(m.recs) /\ m.keys[j] = walk[w].key
      BY <2>1, <1>e, <1>j
    <2>3. m.recs[j] \in R /\ m.recs[j] \in Recs /\ recKey[m.recs[j]] = walk[w].key
      BY <2>2, <1>c, <1>g, ToSetDef
    <2>4. m.recs[j] = walk[w].want
      BY <2>3, <1>b
    <2>5. on = walk[w].want /\ on \in R /\ on # None
      BY <2>3, <2>4, <1>1, <1>f, TableAssumption DEF j
    <2>6. /\ walk' = [walk EXCEPT ![w].at = on] /\ UNCHANGED <<waiting, wrong>>
      BY <2>5, <1>a
    <2>7. walk'[w].at = on /\ walk'[w].key = walk[w].key /\ walk'[w].want = walk[w].want
      BY <2>6, <1>i DEF WalkRecordType
    <2>8. OnChain(c, R, nodeMem, recKey, walk'[w])
      BY <2>5, <2>7, <1>b DEF OnChain
    <2>9. QED
      BY <2>6, <2>8, <1>b, <1>k DEF Safe
  <1>2. CASE hits = {}
    <2>1. walk[w].want \notin ToSet(m.recs)
      <3>1. SUFFICES ASSUME walk[w].want \in ToSet(m.recs) PROVE FALSE
        OBVIOUS
      <3>2. PICK j \in 1..Len(m.recs) : m.recs[j] = walk[w].want
        BY <3>1, <1>g, ToSetDef
      <3>3. walk[w].want \in R
        BY <3>1, <1>c
      <3>4. m.keys[j] = walk[w].key
        BY <3>2, <3>3, <1>b, <1>c
      <3>5. QED
        BY <3>2, <3>4, <1>2, <1>e, <1>j
    <2>2. on = IF i < Len(c) THEN c[i + 1] ELSE None
      BY <1>2, <1>c, <1>f
    <2>3. ASSUME walk[w].want # None
          PROVE  /\ i < Len(c)
                 /\ \E j \in 1..Len(c) : i + 1 <= j /\ walk[w].want \in ToSet(nodeMem[c[j]].recs)
      <3>1. PICK j \in 1..Len(c) : i <= j /\ walk[w].want \in ToSet(nodeMem[c[j]].recs)
        BY <2>3, <1>b
      <3>2. j # i
        BY <3>1, <2>1, <1>h
      <3>3. Len(c) \in Nat
        BY <1>b
      <3>4. i + 1 <= j /\ i < Len(c)
        BY <3>1, <3>2, <3>3, <1>b
      <3>5. QED
        BY <3>1, <3>4
    <2>4. CASE i < Len(c)
      <3>1. i + 1 \in 1..Len(c)
        BY <2>4, <1>b
      <3>2. on = c[i + 1] /\ on \in Nodes /\ on \in ToSet(c) /\ on # None
        BY <3>1, <2>2, <2>4, <1>b, ToSetDef, TableAssumption
      <3>3. walk' = [walk EXCEPT ![w].at = on] /\ UNCHANGED <<waiting, wrong>>
        BY <3>2, <1>a
      <3>4. walk'[w].at = on /\ walk'[w].key = walk[w].key /\ walk'[w].want = walk[w].want
        BY <3>3, <1>i DEF WalkRecordType
      <3>5. OnChain(c, R, nodeMem, recKey, walk'[w])
        BY <3>1, <3>2, <3>4, <2>3, <1>b DEF OnChain
      <3>6. QED
        BY <3>3, <3>5, <1>b, <1>k DEF Safe
    <2>5. CASE ~(i < Len(c))
      <3>1. on = None /\ walk[w].want = None
        BY <2>2, <2>3, <2>5
      <3>2. Ends(w, None)
        BY <3>1, <1>a
      <3>3. walk'[w].at = None /\ wrong' = wrong /\ waiting' = waiting \ {w}
        BY <3>1, <3>2, <1>i DEF Ends, NoWalk
      <3>4. QED
        BY <3>3
    <2>6. QED
      BY <2>4, <2>5
  <1>3. QED
    BY <1>1, <1>2

LEMMA WalkLookups ==
    ASSUME Owned, Published, Lookups, NEW w \in Walkers,
           WalkRecord(w) \/ WalkNode(w) \/ \E k \in Keys : WalkStart(w, k)
    PROVE  Lookups'
  <1>a. /\ UNCHANGED <<tableVars, callVars>>
        /\ \A v \in Walkers : v # w => walk'[v] = walk[v]
    BY WalkStepTypes
  <1>b. walk[w] \in WalkRecordType /\ walk \in [Walkers -> WalkRecordType]
    BY DEF Owned, Types
  <1>c. /\ wrong' = wrong /\ (waiting' = waiting \/ waiting' = waiting \ {w})
        /\ walk'[w].at # None => Safe(w)'
    <2>1. CASE WalkRecord(w)
      <3>1. walk[w].at \in Recs /\ w \in InFlight
        BY <2>1, TableAssumption DEF WalkRecord, InFlight
      <3>2. (IF recKey[walk[w].at] = walk[w].key THEN walk[w].at ELSE None) = walk[w].want
        BY <3>1, WalkRecordExact DEF Lookups
      <3>3. Ends(w, walk[w].want)
        BY <2>1, <3>2 DEF WalkRecord
      <3>4. QED
        BY <3>3, <1>b DEF Ends, NoWalk
    <2>2. CASE WalkNode(w)
      <3>1. w \in InFlight
        BY <2>2, TableAssumption DEF WalkNode, InFlight
      <3>2. QED
        BY <2>2, <3>1, WalkNodeLookup DEF Lookups
    <2>3. ASSUME NEW k \in Keys, WalkStart(w, k)
          PROVE  wrong' = wrong /\ waiting' = waiting /\ Safe(w)'
      BY <2>3, WalkStartSafe DEF WalkStart
    <2>4. QED
      BY <2>1, <2>2, <2>3
  <1>1. ASSUME NEW v \in InFlight' PROVE Safe(v)'
    <2>1. v \in Walkers /\ walk'[v].at # None
      BY <1>1 DEF InFlight
    <2>2. CASE v = w
      BY <2>1, <2>2, <1>c
    <2>3. CASE v # w
      <3>1. v \in InFlight
        BY <2>1, <2>3, <1>a DEF InFlight
      <3>2. Safe(v) /\ walk'[v] = walk[v]
        BY <3>1, <2>1, <2>3, <1>a DEF Lookups
      <3>3. QED
        BY <3>2, <2>1, <2>3, <1>a, <1>c, OtherLookup
    <2>4. QED
      BY <2>2, <2>3
  <1>2. QED
    BY <1>1, <1>c DEF Lookups

LEMMA LookupsStep ==
    ASSUME Owned, Published, Lookups, [Next]_vars
    PROVE  Lookups'
  <1>1. ASSUME NEW k \in Keys, AddKey(k) \/ DelKey(k) PROVE Lookups'
    BY <1>1, CallLookups
  <1>2. CASE AllocRecord \/ AllocNode \/ AllocNodeFails \/ FillNodes
    BY <1>2, AllocRecordLookups, AllocNodeLookups, AllocNodeFailsLookups, FillNodesLookups
  <1>3. CASE AllocRecordFails
    <2>1. UNCHANGED <<recKey, nodeMem, walk, wrong>> /\ Return
      BY <1>3 DEF AllocRecordFails, tableVars, lookVars
    <2>2. QED
      BY <2>1, ReturnFacts, QuietLookups
  <1>4. CASE Publish
    <2>1. /\ UNCHANGED <<recKey, nodeMem, walk, wrong>>
          /\ Return \/ (step' = "sync" /\ fresh' = <<>>)
      BY <1>4 DEF Publish, lookVars
    <2>2. QED
      BY <2>1, ReturnFacts, QuietLookups
  <1>5. CASE SyncTimeout
    <2>1. /\ step = "poll" /\ UNCHANGED <<recKey, nodeMem, walk, wrong>>
          /\ Return \/ (step' = "sync" /\ fresh' = fresh)
      BY <1>5 DEF SyncTimeout, lookVars
    <2>2. fresh = <<>>
      BY <2>1 DEF Owned, CallOK, Unlinked
    <2>3. QED
      BY <2>1, <2>2, ReturnFacts, QuietLookups
  <1>6. CASE Arm \/ SyncDone \/ FreeOld
    BY <1>6, ArmLookups, SyncDoneLookups, FreeOldLookups
  <1>7. CASE Drain
    BY <1>7 DEF Drain, Lookups, InFlight, lookVars
  <1>8. ASSUME NEW w \in Walkers,
               WalkRecord(w) \/ WalkNode(w) \/ \E k \in Keys : WalkStart(w, k)
        PROVE  Lookups'
    BY <1>8, WalkLookups
  <1>9. CASE Detach \/ Attach \/ UNCHANGED vars
    <2>1. UNCHANGED <<tableVars, callVars, waiting, walk, wrong>>
      BY <1>9 DEF Detach, Attach, vars, lookVars
    <2>2. /\ Private' = Private /\ Doomed' = Doomed /\ nodeMem' = nodeMem /\ recKey' = recKey
          /\ \A w \in InFlight : Cleared(w)' = Cleared(w)
      BY <2>1 DEF Private, Doomed, Cleared, Building, Bucket, tableVars, callVars
    <2>3. QED
      BY <2>1, <2>2, DriverLookups
  <1>10. QED
    BY <1>1, <1>2, <1>3, <1>4, <1>5, <1>6, <1>7, <1>8, <1>9 DEF Next, Driver

-----------------------------------------------------------------------------
(* The theorems *)

\* Every reachable state of the table satisfies the invariant: each block of
\* rec_pool and cu_pool has one owner (Owned), each bucket head leads to exactly
\* the flows that were published (Published), and each lookup in flight stands on
\* a chain whose blocks the driver has not freed (Lookups).
THEOREM TableInvariant == Spec => []Inv
  <1>1. Init => Inv
    <2>1. Init => Owned
      BY InitOwned
    <2>2. Init => Published
      BY EmptyPublished DEF Init
    <2>3. Init => Lookups
      BY DEF Init, Lookups, InFlight, NoWalk
    <2>4. QED
      BY <2>1, <2>2, <2>3 DEF Inv
  <1>2. Inv /\ [Next]_vars => Inv'
    <2>1. SUFFICES ASSUME Inv, [Next]_vars PROVE Inv'
      OBVIOUS
    <2>2. Owned /\ Published /\ Lookups
      BY <2>1 DEF Inv
    <2>3. Owned'
      BY <2>1, <2>2, OwnedStep
    <2>4. Published'
      BY <2>1, <2>2, PublishedStep
    <2>5. Lookups'
      BY <2>1, <2>2, LookupsStep
    <2>6. QED
      BY <2>3, <2>4, <2>5 DEF Inv
  <1>3. QED
    BY <1>1, <1>2, PTL DEF Spec

\* The variables keep their types, and fman_pcd_ehash_sync arms the SYNC at most
\* FMAN_EHASH_SYNC_TRIES times.
THEOREM TableTypes == Spec => []TypeOK
  <1>1. Inv => TypeOK
    <2>1. SUFFICES ASSUME Inv PROVE TypeOK
      OBVIOUS
    <2>2. Types
      BY <2>1 DEF Inv, Owned
    <2>3. \A b \in Buckets : /\ ToSet(bidx[b]) \subseteq Recs /\ ToSet(cu[b]) \subseteq Nodes
                             /\ pub[b] \subseteq Recs
                             /\ head[b] \in Recs \cup Nodes \cup {None}
      BY <2>2, ToSetDef DEF Types
    <2>4. ToSet(fresh) \cup ToSet(old) \subseteq Nodes
      BY <2>2, ToSetDef DEF Types
    <2>5. QED
      BY <2>2, <2>3, <2>4 DEF Types, TypeOK, Steps
  <1>2. QED
    BY <1>1, TableInvariant, PTL

\* No record and no node is lost or freed twice: what is allocated is in the
\* index, in a published bucket, in the driver's hands or given up after a SYNC
\* that timed out.
THEOREM TableBlocksAccounted == Spec => []BlocksAccounted
  <1>1. Inv => BlocksAccounted
    <2>1. SUFFICES ASSUME Inv PROVE BlocksAccounted
      OBVIOUS
    <2>2. Types /\ Accounted
      BY <2>1 DEF Inv, Owned
    <2>3. \A b \in Buckets : ToSet(bidx[b]) \subseteq Recs /\ ToSet(cu[b]) \subseteq Nodes
      BY <2>2, ToSetDef DEF Types
    <2>4. ToSet(fresh) \cup ToSet(old) \subseteq Nodes
      BY <2>2, ToSetDef DEF Types
    <2>5. {r \in Recs : recKey[r] # None} =
             (UNION {ToSet(bidx[b]) : b \in Buckets}) \cup ({x} \ {None}) \cup (kept \cap Recs)
      <3>1. \A r : r \in UNION {ToSet(bidx[b]) : b \in Buckets} <=>
                     \E b \in Buckets : r \in ToSet(bidx[b])
        OBVIOUS
      <3>2. \A r \in Recs : r = x <=> r \in {x} \ {None}
        BY TableAssumption
      <3>3. {x} \ {None} \subseteq Recs
        BY <2>2 DEF Types
      <3>4. QED
        BY <3>1, <3>2, <3>3, <2>2, <2>3 DEF Accounted
    <2>6. {n \in Nodes : nodeMem[n] # None} =
             (UNION {ToSet(cu[b]) : b \in Buckets}) \cup ToSet(fresh) \cup ToSet(old)
                \cup (kept \cap Nodes)
      <3>1. \A n : n \in UNION {ToSet(cu[b]) : b \in Buckets} <=>
                     \E b \in Buckets : n \in ToSet(cu[b])
        OBVIOUS
      <3>2. QED
        BY <3>1, <2>2, <2>3, <2>4 DEF Accounted
    <2>7. QED
      BY <2>5, <2>6 DEF BlocksAccounted
  <1>2. QED
    BY <1>1, TableInvariant, PTL

\* Between two calls a bucket is published whole or left to software whole, and
\* no key has two records, whatever the pools ran out of in between.
THEOREM TableIndexPublished == Spec => []IndexPublished
  <1>1. Inv => IndexPublished
    <2>1. SUFFICES ASSUME Inv, step = "idle", NEW b \in Buckets
                   PROVE  /\ pub[b] = ToSet(bidx[b]) \/ (pub[b] = {} /\ head[b] = None)
                          /\ \A r, s \in ToSet(bidx[b]) : recKey[r] = recKey[s] => r = s
      BY DEF IndexPublished
    <2>2. Listed(b) = bidx[b]
      BY <2>1 DEF Listed, Building
    <2>3. QED
      BY <2>1, <2>2 DEF Inv, Published, BucketOK, Owned, RecsOK
  <1>2. QED
    BY <1>1, TableInvariant, PTL

\* The microcode never follows a pointer to a block the driver has freed: the SYNC
\* of fman_pcd_ehash_sync outwaits every lookup that read the old head, and a SYNC
\* that gives up keeps the blocks.
THEOREM TableNoUseAfterFree == Spec => []NoUseAfterFree
  <1>1. Inv => NoUseAfterFree
    <2>1. SUFFICES ASSUME Inv, NEW w \in InFlight
                   PROVE  Live(walk[w].at) /\ \A t \in Targets(walk[w].at) : Live(t)
      BY DEF NoUseAfterFree
    <2>2. Owned /\ Safe(w)
      BY <2>1 DEF Inv, Lookups
    <2>3. PICK c \in Seq(Nodes), R \in SUBSET Recs :
                  /\ Chain(c, R, nodeMem, recKey)
                  /\ OnChain(c, R, nodeMem, recKey, walk[w])
      BY <2>2 DEF Safe
    <2>4. \A r \in R : r \in Recs /\ Live(r)
      BY <2>3 DEF Chain, Live
    <2>5. \A i \in 1..Len(c) : c[i] \in Nodes /\ Live(c[i])
      BY <2>3, NoneNotNode DEF Chain, Live
    <2>6. CASE walk[w].at \in R
      <3>1. walk[w].at \notin Nodes
        BY <2>4, <2>6, TableAssumption
      <3>2. QED
        BY <2>4, <2>6, <3>1 DEF Targets
    <2>7. CASE walk[w].at \in ToSet(c)
      <3>1. PICK i \in 1..Len(c) : c[i] = walk[w].at
        BY <2>7, ToSetDef
      <3> DEFINE m == nodeMem[walk[w].at]
      <3>2. /\ ToSet(m.recs) \subseteq R
            /\ m.next = IF i < Len(c) THEN c[i + 1] ELSE None
        BY <2>3, <3>1 DEF Chain
      <3>3. ASSUME i < Len(c) PROVE Live(c[i + 1])
        <4>1. i + 1 \in 1..Len(c)
          BY <3>3
        <4>2. QED
          BY <4>1, <2>5
      <3>4. Targets(walk[w].at) = (ToSet(m.recs) \cup {m.next}) \ {None}
        BY <2>5, <3>1 DEF Targets
      <3>5. QED
        BY <2>4, <2>5, <3>1, <3>2, <3>3, <3>4
    <2>8. QED
      BY <2>3, <2>6, <2>7 DEF OnChain
  <1>2. QED
    BY <1>1, TableInvariant, PTL

\* Every lookup answers what the table promised at the moment it read the bucket
\* head, however often the bucket is rebuilt before the lookup ends.
THEOREM TableLookupExact == Spec => []LookupExact
  <1>1. Inv => LookupExact
    BY DEF Inv, Lookups, LookupExact
  <1>2. QED
    BY <1>1, TableInvariant, PTL
=============================================================================
