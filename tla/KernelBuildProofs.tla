------------------------- MODULE KernelBuildProofs -------------------------
(***************************************************************************)
(* Theorems about KernelBuild, for any chain of scripts and any patched    *)
(* tree that satisfy ChainAssumption.                                      *)
(***************************************************************************)
EXTENDS KernelBuild, TLAPS, WellFoundedInduction

-----------------------------------------------------------------------------
(* Induction, and what a fold computes.                                    *)

LEMMA LeastNat ==
  ASSUME NEW B \in SUBSET Nat, B # {}
  PROVE  \E m \in B : \A x \in B : m <= x
<1>1. PICK m \in B : \A y \in B : ~(<<y, m>> \in OpToRel(<, Nat))
  <2>1. \E m \in B : \A y \in B : ~(<<y, m>> \in OpToRel(<, Nat))
    BY NatLessThanWellFounded, WFMin
  <2> QED BY <2>1
<1>2. ASSUME NEW y \in B PROVE m <= y
  <2>1. <<y, m>> \in Nat \X Nat /\ ~(y < m)
    BY <1>1 DEF OpToRel
  <2> QED BY <2>1
<1> QED BY <1>2

\* Induction over the naturals for a set: a set can be named in a citation
\* where a predicate cannot.
LEMMA Induct ==
  ASSUME NEW G \in SUBSET Nat, 0 \in G, \A k \in G : k + 1 \in G
  PROVE  G = Nat
<1>1. SUFFICES ASSUME G # Nat PROVE FALSE
  OBVIOUS
<1>2. PICK m \in Nat \ G : \A x \in Nat \ G : m <= x
  <2>1. Nat \ G \in SUBSET Nat /\ Nat \ G # {}
    BY <1>1
  <2> QED BY <2>1, LeastNat
<1>3. m # 0 /\ m - 1 \in Nat /\ m - 1 < m
  BY <1>2
<1>4. m - 1 \in G
  BY <1>2, <1>3
<1>5. (m - 1) + 1 = m
  BY <1>2
<1> QED BY <1>2, <1>4, <1>5

LEMMA UpTo ==
  ASSUME NEW n \in Nat, NEW i \in 1..n
  PROVE  1..i \in SUBSET (1..n) /\ 1..i # {} /\ (1..i) \ {i} = 1..(i - 1)
<1>1. i \in 1..i
  OBVIOUS
<1>2. \A x : x \in (1..i) \ {i} <=> x \in 1..(i - 1)
  OBVIOUS
<1>3. \A x \in 1..i : x \in 1..n
  OBVIOUS
<1> QED BY <1>1, <1>2, <1>3

LEMMA MaxTop ==
  ASSUME NEW k \in Nat, NEW S \in SUBSET (1..k), k \in S
  PROVE  Max(S) = k
<1>1. \A y \in S : y \in Int /\ y <= k /\ k >= y
  OBVIOUS
<1>2. \A x \in S : (\A y \in S : x >= y) => x = k
  BY <1>1
<1> QED BY <1>1, <1>2 DEF Max

\* The edits of a stage, one after the other.
LEMMA EditFold ==
  ASSUME NEW b, NEW s, NEW n \in Nat, DOMAIN s = 1..n
  PROVE  \E g : /\ g[0] = b
                /\ \A i \in 1..n : g[i] = ApplyEdit(g[i - 1], s[i])
                /\ ApplyEdits(b, s) = g[n]
<1> DEFINE Def(g, k) == [S \in SUBSET (1..k) |->
                           IF S = {} THEN b
                           ELSE ApplyEdit(g[S \ {Max(S)}], s[Max(S)])]
           Good == {k \in Nat : \E g : g = Def(g, k)}
           h == CHOOSE g : g = Def(g, n)
           r == [i \in 0..n |-> h[1..i]]
<1>1. 0 \in Good
  <2> DEFINE g == [S \in SUBSET (1..0) |-> b]
  <2>1. SUBSET (1..0) = {{}}
    OBVIOUS
  <2>2. g = Def(g, 0)
    BY <2>1
  <2>3. \E f : f = Def(f, 0)
    BY <2>2
  <2> QED BY <2>3
<1>2. ASSUME NEW k \in Good PROVE k + 1 \in Good
  <2>0. k \in Nat
    OBVIOUS
  <2>1. PICK g : g = Def(g, k)
    OBVIOUS
  <2> DEFINE f == [S \in SUBSET (1..(k + 1)) |->
                     IF k + 1 \in S THEN ApplyEdit(g[S \ {k + 1}], s[k + 1])
                     ELSE g[S]]
  <2>2. ASSUME NEW S \in SUBSET (1..(k + 1))
        PROVE  f[S] = IF S = {} THEN b
                      ELSE ApplyEdit(f[S \ {Max(S)}], s[Max(S)])
    <3>1. CASE k + 1 \in S
      <4>1. Max(S) = k + 1
        BY <2>0, <3>1, MaxTop
      <4>2. S \ {k + 1} \in SUBSET (1..(k + 1)) /\ k + 1 \notin S \ {k + 1}
        OBVIOUS
      <4>3. f[S \ {k + 1}] = g[S \ {k + 1}]
        BY <4>2
      <4> QED BY <3>1, <4>1, <4>3
    <3>2. CASE k + 1 \notin S
      <4>1. S \in SUBSET (1..k)
        <5>1. \A x \in S : x \in 1..(k + 1) /\ x # k + 1
          BY <3>2
        <5> QED BY <2>0, <5>1
      <4>2. f[S] = g[S]
        BY <3>2
      <4>3. g[S] = IF S = {} THEN b
                   ELSE ApplyEdit(g[S \ {Max(S)}], s[Max(S)])
        BY <2>1, <4>1
      <4>4. S \ {Max(S)} \in SUBSET (1..(k + 1)) /\ k + 1 \notin S \ {Max(S)}
        BY <3>2
      <4>5. f[S \ {Max(S)}] = g[S \ {Max(S)}]
        BY <4>4
      <4> QED BY <4>2, <4>3, <4>5
    <3> QED BY <3>1, <3>2
  <2> HIDE DEF f
  <2>3. f = Def(f, k + 1)
    <3>1. f = [S \in SUBSET (1..(k + 1)) |-> f[S]]
      BY DEF f
    <3> QED BY <2>2, <3>1
  <2>4. \E q : q = Def(q, k + 1)
    BY <2>3
  <2> HIDE DEF Def
  <2> QED BY <2>0, <2>4
<1>3. Good = Nat
  <2> HIDE DEF Good
  <2>1. Good \in SUBSET Nat
    BY DEF Good
  <2> QED BY <1>1, <1>2, <2>1, Induct
<1>4. h = Def(h, n)
  <2>1. \E g : g = Def(g, n)
    BY <1>3
  <2> HIDE DEF Def
  <2> QED BY <2>1
<1>5. ApplyEdits(b, s) = h[1..n]
  BY DEF ApplyEdits, FoldLeft, MapThenFoldSet
<1> HIDE DEF h
<1>6. r[0] = b
  <2>1. 1..0 = {} /\ {} \in SUBSET (1..n)
    OBVIOUS
  <2>2. h[{}] = b
    BY <1>4, <2>1
  <2>3. r[0] = h[1..0]
    OBVIOUS
  <2> QED BY <2>1, <2>2, <2>3
<1>7. ASSUME NEW i \in 1..n PROVE r[i] = ApplyEdit(r[i - 1], s[i])
  <2>1. 1..i \in SUBSET (1..n) /\ 1..i # {} /\ (1..i) \ {i} = 1..(i - 1)
    BY UpTo
  <2>2. Max(1..i) = i
    BY MaxTop
  <2>3. h[1..i] = ApplyEdit(h[1..(i - 1)], s[i])
    BY <1>4, <2>1, <2>2
  <2>4. r[i] = h[1..i] /\ r[i - 1] = h[1..(i - 1)]
    OBVIOUS
  <2> QED BY <2>3, <2>4
<1>8. r[n] = h[1..n]
  OBVIOUS
<1> HIDE DEF r
<1> QED BY <1>5, <1>6, <1>7, <1>8

\* The stages of a script.
LEMMA StageFold ==
  ASSUME NEW b, NEW s, NEW n \in Nat, DOMAIN s = 1..n
  PROVE  \E g : /\ g[0] = b
                /\ \A i \in 1..n : g[i] = AfterStage(g[i - 1], s[i])
                /\ RunStages(b, s) = g[n]
<1> DEFINE Def(g, k) == [S \in SUBSET (1..k) |->
                           IF S = {} THEN b
                           ELSE AfterStage(g[S \ {Max(S)}], s[Max(S)])]
           Good == {k \in Nat : \E g : g = Def(g, k)}
           h == CHOOSE g : g = Def(g, n)
           r == [i \in 0..n |-> h[1..i]]
<1>1. 0 \in Good
  <2> DEFINE g == [S \in SUBSET (1..0) |-> b]
  <2>1. SUBSET (1..0) = {{}}
    OBVIOUS
  <2>2. g = Def(g, 0)
    BY <2>1
  <2>3. \E f : f = Def(f, 0)
    BY <2>2
  <2> QED BY <2>3
<1>2. ASSUME NEW k \in Good PROVE k + 1 \in Good
  <2>0. k \in Nat
    OBVIOUS
  <2>1. PICK g : g = Def(g, k)
    OBVIOUS
  <2> DEFINE f == [S \in SUBSET (1..(k + 1)) |->
                     IF k + 1 \in S THEN AfterStage(g[S \ {k + 1}], s[k + 1])
                     ELSE g[S]]
  <2>2. ASSUME NEW S \in SUBSET (1..(k + 1))
        PROVE  f[S] = IF S = {} THEN b
                      ELSE AfterStage(f[S \ {Max(S)}], s[Max(S)])
    <3>1. CASE k + 1 \in S
      <4>1. Max(S) = k + 1
        BY <2>0, <3>1, MaxTop
      <4>2. S \ {k + 1} \in SUBSET (1..(k + 1)) /\ k + 1 \notin S \ {k + 1}
        OBVIOUS
      <4>3. f[S \ {k + 1}] = g[S \ {k + 1}]
        BY <4>2
      <4> QED BY <3>1, <4>1, <4>3
    <3>2. CASE k + 1 \notin S
      <4>1. S \in SUBSET (1..k)
        <5>1. \A x \in S : x \in 1..(k + 1) /\ x # k + 1
          BY <3>2
        <5> QED BY <2>0, <5>1
      <4>2. f[S] = g[S]
        BY <3>2
      <4>3. g[S] = IF S = {} THEN b
                   ELSE AfterStage(g[S \ {Max(S)}], s[Max(S)])
        BY <2>1, <4>1
      <4>4. S \ {Max(S)} \in SUBSET (1..(k + 1)) /\ k + 1 \notin S \ {Max(S)}
        BY <3>2
      <4>5. f[S \ {Max(S)}] = g[S \ {Max(S)}]
        BY <4>4
      <4> QED BY <4>2, <4>3, <4>5
    <3> QED BY <3>1, <3>2
  <2> HIDE DEF f
  <2>3. f = Def(f, k + 1)
    <3>1. f = [S \in SUBSET (1..(k + 1)) |-> f[S]]
      BY DEF f
    <3> QED BY <2>2, <3>1
  <2>4. \E q : q = Def(q, k + 1)
    BY <2>3
  <2> HIDE DEF Def
  <2> QED BY <2>0, <2>4
<1>3. Good = Nat
  <2> HIDE DEF Good
  <2>1. Good \in SUBSET Nat
    BY DEF Good
  <2> QED BY <1>1, <1>2, <2>1, Induct
<1>4. h = Def(h, n)
  <2>1. \E g : g = Def(g, n)
    BY <1>3
  <2> HIDE DEF Def
  <2> QED BY <2>1
<1>5. RunStages(b, s) = h[1..n]
  BY DEF RunStages, FoldLeft, MapThenFoldSet
<1> HIDE DEF h
<1>6. r[0] = b
  <2>1. 1..0 = {} /\ {} \in SUBSET (1..n)
    OBVIOUS
  <2>2. h[{}] = b
    BY <1>4, <2>1
  <2>3. r[0] = h[1..0]
    OBVIOUS
  <2> QED BY <2>1, <2>2, <2>3
<1>7. ASSUME NEW i \in 1..n PROVE r[i] = AfterStage(r[i - 1], s[i])
  <2>1. 1..i \in SUBSET (1..n) /\ 1..i # {} /\ (1..i) \ {i} = 1..(i - 1)
    BY UpTo
  <2>2. Max(1..i) = i
    BY MaxTop
  <2>3. h[1..i] = AfterStage(h[1..(i - 1)], s[i])
    BY <1>4, <2>1, <2>2
  <2>4. r[i] = h[1..i] /\ r[i - 1] = h[1..(i - 1)]
    OBVIOUS
  <2> QED BY <2>3, <2>4
<1>8. r[n] = h[1..n]
  OBVIOUS
<1> HIDE DEF r
<1> QED BY <1>5, <1>6, <1>7, <1>8

\* The scripts of a chain.
LEMMA ScriptFold ==
  ASSUME NEW n \in Nat, DOMAIN Chain = 1..n
  PROVE  \E g : /\ g[0] = Patched
                /\ \A i \in 1..n : g[i] = AfterScript(g[i - 1], Chain[i])
                /\ Golden = g[n]
<1> DEFINE Def(g, k) == [S \in SUBSET (1..k) |->
                           IF S = {} THEN Patched
                           ELSE AfterScript(g[S \ {Max(S)}], Chain[Max(S)])]
           Good == {k \in Nat : \E g : g = Def(g, k)}
           h == CHOOSE g : g = Def(g, n)
           r == [i \in 0..n |-> h[1..i]]
<1>1. 0 \in Good
  <2> DEFINE g == [S \in SUBSET (1..0) |-> Patched]
  <2>1. SUBSET (1..0) = {{}}
    OBVIOUS
  <2>2. g = Def(g, 0)
    BY <2>1
  <2>3. \E f : f = Def(f, 0)
    BY <2>2
  <2> QED BY <2>3
<1>2. ASSUME NEW k \in Good PROVE k + 1 \in Good
  <2>0. k \in Nat
    OBVIOUS
  <2>1. PICK g : g = Def(g, k)
    OBVIOUS
  <2> DEFINE f == [S \in SUBSET (1..(k + 1)) |->
                     IF k + 1 \in S THEN AfterScript(g[S \ {k + 1}], Chain[k + 1])
                     ELSE g[S]]
  <2>2. ASSUME NEW S \in SUBSET (1..(k + 1))
        PROVE  f[S] = IF S = {} THEN Patched
                      ELSE AfterScript(f[S \ {Max(S)}], Chain[Max(S)])
    <3>1. CASE k + 1 \in S
      <4>1. Max(S) = k + 1
        BY <2>0, <3>1, MaxTop
      <4>2. S \ {k + 1} \in SUBSET (1..(k + 1)) /\ k + 1 \notin S \ {k + 1}
        OBVIOUS
      <4>3. f[S \ {k + 1}] = g[S \ {k + 1}]
        BY <4>2
      <4> QED BY <3>1, <4>1, <4>3
    <3>2. CASE k + 1 \notin S
      <4>1. S \in SUBSET (1..k)
        <5>1. \A x \in S : x \in 1..(k + 1) /\ x # k + 1
          BY <3>2
        <5> QED BY <2>0, <5>1
      <4>2. f[S] = g[S]
        BY <3>2
      <4>3. g[S] = IF S = {} THEN Patched
                   ELSE AfterScript(g[S \ {Max(S)}], Chain[Max(S)])
        BY <2>1, <4>1
      <4>4. S \ {Max(S)} \in SUBSET (1..(k + 1)) /\ k + 1 \notin S \ {Max(S)}
        BY <3>2
      <4>5. f[S \ {Max(S)}] = g[S \ {Max(S)}]
        BY <4>4
      <4> QED BY <4>2, <4>3, <4>5
    <3> QED BY <3>1, <3>2
  <2> HIDE DEF f
  <2>3. f = Def(f, k + 1)
    <3>1. f = [S \in SUBSET (1..(k + 1)) |-> f[S]]
      BY DEF f
    <3> QED BY <2>2, <3>1
  <2>4. \E q : q = Def(q, k + 1)
    BY <2>3
  <2> HIDE DEF Def
  <2> QED BY <2>0, <2>4
<1>3. Good = Nat
  <2> HIDE DEF Good
  <2>1. Good \in SUBSET Nat
    BY DEF Good
  <2> QED BY <1>1, <1>2, <2>1, Induct
<1>4. h = Def(h, n)
  <2>1. \E g : g = Def(g, n)
    BY <1>3
  <2> HIDE DEF Def
  <2> QED BY <2>1
<1>5. Golden = h[1..n]
  BY DEF Golden, FoldLeft, MapThenFoldSet
<1> HIDE DEF h
<1>6. r[0] = Patched
  <2>1. 1..0 = {} /\ {} \in SUBSET (1..n)
    OBVIOUS
  <2>2. h[{}] = Patched
    BY <1>4, <2>1
  <2>3. r[0] = h[1..0]
    OBVIOUS
  <2> QED BY <2>1, <2>2, <2>3
<1>7. ASSUME NEW i \in 1..n PROVE r[i] = AfterScript(r[i - 1], Chain[i])
  <2>1. 1..i \in SUBSET (1..n) /\ 1..i # {} /\ (1..i) \ {i} = 1..(i - 1)
    BY UpTo
  <2>2. Max(1..i) = i
    BY MaxTop
  <2>3. h[1..i] = AfterScript(h[1..(i - 1)], Chain[i])
    BY <1>4, <2>1, <2>2
  <2>4. r[i] = h[1..i] /\ r[i - 1] = h[1..(i - 1)]
    OBVIOUS
  <2> QED BY <2>3, <2>4
<1>8. r[n] = h[1..n]
  OBVIOUS
<1> HIDE DEF r
<1> QED BY <1>5, <1>6, <1>7, <1>8


AddChanged(old, new, a, e) ==
    IF e.file \in ToSet(a) \/ new[e.file] = old[e.file] THEN a ELSE Append(a, e.file)

\* The files a stage writes back.
LEMMA FileFold ==
  ASSUME NEW old, NEW new, NEW s, NEW n \in Nat, DOMAIN s = 1..n
  PROVE  \E g : /\ g[0] = <<>>
                /\ \A i \in 1..n : g[i] = AddChanged(old, new, g[i - 1], s[i])
                /\ ChangedFiles(old, new, s) = g[n]
<1> DEFINE Def(g, k) == [S \in SUBSET (1..k) |->
                           IF S = {} THEN <<>>
                           ELSE AddChanged(old, new, g[S \ {Max(S)}], s[Max(S)])]
           Good == {k \in Nat : \E g : g = Def(g, k)}
           h == CHOOSE g : g = Def(g, n)
           r == [i \in 0..n |-> h[1..i]]
<1>1. 0 \in Good
  <2> DEFINE g == [S \in SUBSET (1..0) |-> <<>>]
  <2>1. SUBSET (1..0) = {{}}
    OBVIOUS
  <2>2. g = Def(g, 0)
    BY <2>1
  <2>3. \E f : f = Def(f, 0)
    BY <2>2
  <2> QED BY <2>3
<1>2. ASSUME NEW k \in Good PROVE k + 1 \in Good
  <2>0. k \in Nat
    OBVIOUS
  <2>1. PICK g : g = Def(g, k)
    OBVIOUS
  <2> DEFINE f == [S \in SUBSET (1..(k + 1)) |->
                     IF k + 1 \in S THEN AddChanged(old, new, g[S \ {k + 1}], s[k + 1])
                     ELSE g[S]]
  <2>2. ASSUME NEW S \in SUBSET (1..(k + 1))
        PROVE  f[S] = IF S = {} THEN <<>>
                      ELSE AddChanged(old, new, f[S \ {Max(S)}], s[Max(S)])
    <3>1. CASE k + 1 \in S
      <4>1. Max(S) = k + 1
        BY <2>0, <3>1, MaxTop
      <4>2. S \ {k + 1} \in SUBSET (1..(k + 1)) /\ k + 1 \notin S \ {k + 1}
        OBVIOUS
      <4>3. f[S \ {k + 1}] = g[S \ {k + 1}]
        BY <4>2
      <4> QED BY <3>1, <4>1, <4>3
    <3>2. CASE k + 1 \notin S
      <4>1. S \in SUBSET (1..k)
        <5>1. \A x \in S : x \in 1..(k + 1) /\ x # k + 1
          BY <3>2
        <5> QED BY <2>0, <5>1
      <4>2. f[S] = g[S]
        BY <3>2
      <4>3. g[S] = IF S = {} THEN <<>>
                   ELSE AddChanged(old, new, g[S \ {Max(S)}], s[Max(S)])
        BY <2>1, <4>1
      <4>4. S \ {Max(S)} \in SUBSET (1..(k + 1)) /\ k + 1 \notin S \ {Max(S)}
        BY <3>2
      <4>5. f[S \ {Max(S)}] = g[S \ {Max(S)}]
        BY <4>4
      <4> QED BY <4>2, <4>3, <4>5
    <3> QED BY <3>1, <3>2
  <2> HIDE DEF f
  <2>3. f = Def(f, k + 1)
    <3>1. f = [S \in SUBSET (1..(k + 1)) |-> f[S]]
      BY DEF f
    <3> QED BY <2>2, <3>1
  <2>4. \E q : q = Def(q, k + 1)
    BY <2>3
  <2> HIDE DEF Def
  <2> QED BY <2>0, <2>4
<1>3. Good = Nat
  <2> HIDE DEF Good
  <2>1. Good \in SUBSET Nat
    BY DEF Good
  <2> QED BY <1>1, <1>2, <2>1, Induct
<1>4. h = Def(h, n)
  <2>1. \E g : g = Def(g, n)
    BY <1>3
  <2> HIDE DEF Def
  <2> QED BY <2>1
<1>5. ChangedFiles(old, new, s) = h[1..n]
  BY DEF ChangedFiles, AddChanged, FoldLeft, MapThenFoldSet
<1> HIDE DEF h
<1>6. r[0] = <<>>
  <2>1. 1..0 = {} /\ {} \in SUBSET (1..n)
    OBVIOUS
  <2>2. h[{}] = <<>>
    BY <1>4, <2>1
  <2>3. r[0] = h[1..0]
    OBVIOUS
  <2> QED BY <2>1, <2>2, <2>3
<1>7. ASSUME NEW i \in 1..n PROVE r[i] = AddChanged(old, new, r[i - 1], s[i])
  <2>1. 1..i \in SUBSET (1..n) /\ 1..i # {} /\ (1..i) \ {i} = 1..(i - 1)
    BY UpTo
  <2>2. Max(1..i) = i
    BY MaxTop
  <2>3. h[1..i] = AddChanged(old, new, h[1..(i - 1)], s[i])
    BY <1>4, <2>1, <2>2
  <2>4. r[i] = h[1..i] /\ r[i - 1] = h[1..(i - 1)]
    OBVIOUS
  <2> QED BY <2>3, <2>4
<1>8. r[n] = h[1..n]
  OBVIOUS
<1> HIDE DEF r
<1> QED BY <1>5, <1>6, <1>7, <1>8

-----------------------------------------------------------------------------
(* What one edit does to a file.                                           *)

LEMMA CopiesCount ==
  ASSUME NEW c, IsABag(c), NEW t
  PROVE  Copies(t, c) \in Nat /\ (t \in DOMAIN c <=> Copies(t, c) > 0)
BY DEF Copies, BagIn, BagToSet, IsABag

\* The passages of a rewritten file.
LEMMA RewrittenFile ==
  ASSUME NEW c, IsABag(c), NEW e \in Edit, NEW n \in Nat, n > 0
  PROVE  /\ IsABag(Rewritten(c, e, n))
         /\ e.id \in DOMAIN Rewritten(c, e, n)
         /\ \A t \in DOMAIN Rewritten(c, e, n) : t \in DOMAIN c \cup e.new \cup {e.id}
         /\ \A t \in DOMAIN c : t # e.old /\ t \notin e.cut =>
              t \in DOMAIN Rewritten(c, e, n)
         /\ \A t : t # e.old /\ t \notin e.cut \cup e.new \cup {e.id} =>
              Copies(t, Rewritten(c, e, n)) = Copies(t, c)
         /\ e.id \notin DOMAIN c \cup e.new => Copies(e.id, Rewritten(c, e, n)) = 1
<1> DEFINE kept == c (-) [t \in {e.old} |-> n]
           left == [t \in BagToSet(kept) \ e.cut |-> kept[t]]
           added == [t \in e.new |-> n]
           mid == left (+) added
           own == SetToBag({e.id})
<1>1. /\ kept = [t \in DOMAIN kept |-> kept[t]]
      /\ DOMAIN kept \subseteq DOMAIN c
      /\ \A t \in DOMAIN kept : kept[t] \in Nat /\ kept[t] > 0
      /\ \A t \in DOMAIN c : t # e.old => t \in DOMAIN kept /\ kept[t] = c[t]
  BY DEF (-), IsABag
<1> HIDE DEF kept
<1>2. /\ left = [t \in DOMAIN left |-> left[t]]
      /\ DOMAIN left = DOMAIN kept \ e.cut
      /\ \A t \in DOMAIN left : left[t] = kept[t]
  BY <1>1 DEF BagToSet
<1> HIDE DEF left
<1>3. /\ added = [t \in DOMAIN added |-> added[t]]
      /\ DOMAIN added = e.new
      /\ \A t \in DOMAIN added : added[t] = n
  OBVIOUS
<1> HIDE DEF added
<1>4. /\ mid = [t \in DOMAIN mid |-> mid[t]]
      /\ DOMAIN mid = DOMAIN left \cup e.new
      /\ \A t \in DOMAIN mid : mid[t] \in Nat /\ mid[t] > 0
      /\ \A t \in DOMAIN left : t \notin e.new => mid[t] = left[t]
  BY <1>1, <1>2, <1>3 DEF (+)
<1> HIDE DEF mid
<1>5. DOMAIN own = {e.id} /\ own[e.id] = 1
  BY DEF SetToBag
<1> HIDE DEF own
<1>6. Rewritten(c, e, n) = mid (+) own
  BY DEF Rewritten, kept, left, added, mid, own
<1>7. /\ Rewritten(c, e, n) = [t \in DOMAIN Rewritten(c, e, n) |-> Rewritten(c, e, n)[t]]
      /\ DOMAIN Rewritten(c, e, n) = DOMAIN mid \cup {e.id}
      /\ \A t \in DOMAIN mid : t # e.id => Rewritten(c, e, n)[t] = mid[t]
      /\ Rewritten(c, e, n)[e.id] = IF e.id \in DOMAIN mid THEN mid[e.id] + 1 ELSE 1
      /\ \A t \in DOMAIN Rewritten(c, e, n) :
            Rewritten(c, e, n)[t] \in Nat /\ Rewritten(c, e, n)[t] > 0
  BY <1>4, <1>5, <1>6 DEF (+)
<1>8. IsABag(Rewritten(c, e, n))
  BY <1>7 DEF IsABag
<1>9. ASSUME NEW t, t # e.old, t \notin e.cut \cup e.new \cup {e.id}
      PROVE  Copies(t, Rewritten(c, e, n)) = Copies(t, c)
  <2>1. t \in DOMAIN c <=> t \in DOMAIN Rewritten(c, e, n)
    BY <1>1, <1>2, <1>4, <1>7, <1>9
  <2>2. CASE t \in DOMAIN c
    BY <1>1, <1>2, <1>4, <1>7, <1>9, <2>1, <2>2 DEF Copies, BagIn, BagToSet
  <2>3. CASE t \notin DOMAIN c
    BY <2>1, <2>3 DEF Copies, BagIn, BagToSet
  <2> QED BY <2>2, <2>3
<1>10. e.id \notin DOMAIN c \cup e.new => Copies(e.id, Rewritten(c, e, n)) = 1
  BY <1>1, <1>2, <1>4, <1>7 DEF Copies, BagIn, BagToSet
<1>11. /\ e.id \in DOMAIN Rewritten(c, e, n)
       /\ \A t \in DOMAIN Rewritten(c, e, n) : t \in DOMAIN c \cup e.new \cup {e.id}
       /\ \A t \in DOMAIN c : t # e.old /\ t \notin e.cut =>
             t \in DOMAIN Rewritten(c, e, n)
  BY <1>1, <1>2, <1>4, <1>7
<1> QED BY <1>8, <1>9, <1>10, <1>11

LEMMA PlacesCount ==
  ASSUME NEW c, IsABag(c), NEW e \in Edit
  PROVE  Places(c, e) \in Nat
BY CopiesCount DEF Places, Edit

-----------------------------------------------------------------------------
(* What edits, stages and scripts do to a tree.                            *)

\* The outcome of an edit, a stage or a script on a tree with the files D.
IsOutcome(r, D) ==
    /\ r = [ok |-> r.ok, tree |-> r.tree]
    /\ r.ok \in BOOLEAN
    /\ IsTree(r.tree)
    /\ DOMAIN r.tree = D

\* From outcome r to q, with the edits of X made in between.
Goes(r, q, X) ==
    /\ q.ok => r.ok
    /\ \A f \in DOMAIN r.tree :
         (\A x \in X : x.file # f) => q.tree[f] = r.tree[f]
    /\ \A f \in DOMAIN r.tree : \A t \in DOMAIN q.tree[f] :
         t \in DOMAIN r.tree[f] \/ \E x \in X : Makes(x, <<f, t>>)
    /\ \A f \in DOMAIN r.tree : \A t \in DOMAIN r.tree[f] :
         (\A x \in X : t # x.old /\ t \notin x.cut) => t \in DOMAIN q.tree[f]
    /\ \A f \in DOMAIN r.tree : \A t :
         (\A x \in X : t # x.old /\ t \notin x.cut /\ ~Makes(x, <<f, t>>)) =>
            Copies(t, q.tree[f]) = Copies(t, r.tree[f])

LEMMA GoesNowhere ==
  ASSUME NEW r, NEW D, IsOutcome(r, D), NEW X, NEW q, q.tree = r.tree, q.ok => r.ok
  PROVE  Goes(r, q, X)
BY DEF Goes

LEMMA GoesOn ==
  ASSUME NEW r, NEW q, NEW p, NEW D, NEW X, NEW Y,
         IsOutcome(r, D), IsOutcome(q, D), IsOutcome(p, D),
         Goes(r, q, X), Goes(q, p, Y)
  PROVE  Goes(r, p, X \cup Y)
<1>1. DOMAIN r.tree = D /\ DOMAIN q.tree = D
  BY DEF IsOutcome
<1>2. p.ok => r.ok
  BY DEF Goes
<1>3. \A f \in D : (\A x \in X \cup Y : x.file # f) => p.tree[f] = r.tree[f]
  BY <1>1 DEF Goes
<1>4. \A f \in D : \A t \in DOMAIN p.tree[f] :
         t \in DOMAIN r.tree[f] \/ \E x \in X \cup Y : Makes(x, <<f, t>>)
  BY <1>1 DEF Goes
<1>5. \A f \in D : \A t \in DOMAIN r.tree[f] :
         (\A x \in X \cup Y : t # x.old /\ t \notin x.cut) => t \in DOMAIN p.tree[f]
  BY <1>1 DEF Goes
<1>6. \A f \in D : \A t :
         (\A x \in X \cup Y : t # x.old /\ t \notin x.cut /\ ~Makes(x, <<f, t>>)) =>
            Copies(t, p.tree[f]) = Copies(t, r.tree[f])
  BY <1>1 DEF Goes
<1> QED BY <1>1, <1>2, <1>3, <1>4, <1>5, <1>6 DEF Goes

LEMMA EditStep ==
  ASSUME NEW r, NEW D, IsOutcome(r, D), NEW e \in Edit, r.ok => e.file \in D
  PROVE  /\ IsOutcome(ApplyEdit(r, e), D)
         /\ Goes(r, ApplyEdit(r, e), {e})
         /\ ApplyEdit(r, e).ok /\ e.hard /\ ~Marked(r.tree, {e.file} \X e.mark) =>
              /\ e.id \in DOMAIN ApplyEdit(r, e).tree[e.file]
              /\ e.id \notin DOMAIN r.tree[e.file] \cup e.new =>
                   Copies(e.id, ApplyEdit(r, e).tree[e.file]) = 1
<1> DEFINE n == Places(r.tree[e.file], e)
           w == Rewritten(r.tree[e.file], e, n)
           q == ApplyEdit(r, e)
<1>0. r = [ok |-> r.ok, tree |-> r.tree] /\ r.ok \in BOOLEAN /\ IsTree(r.tree)
      /\ DOMAIN r.tree = D /\ e.hard \in BOOLEAN
  BY DEF IsOutcome, Edit
<1>1. CASE ~r.ok \/ Marked(r.tree, {e.file} \X e.mark)
  <2>1. q = r
    BY <1>1 DEF ApplyEdit
  <2>2. Goes(r, q, {e})
    BY <2>1, GoesNowhere
  <2> QED BY <1>1, <2>1, <2>2
<1>2. CASE r.ok /\ ~Marked(r.tree, {e.file} \X e.mark) /\ ~(n > 0)
  <2>1. q = [ok |-> ~e.hard, tree |-> r.tree]
    BY <1>0, <1>2 DEF ApplyEdit
  <2>2. Goes(r, q, {e})
    BY <1>2, <2>1, GoesNowhere
  <2>3. IsOutcome(q, D)
    BY <1>0, <2>1 DEF IsOutcome
  <2>4. ASSUME e.hard PROVE q.ok = FALSE
    <3>1. (~e.hard) = FALSE
      BY <2>4
    <3>2. q = [ok |-> FALSE, tree |-> r.tree]
      BY <2>1, <3>1
    <3> QED BY <3>2
  <2> HIDE DEF q
  <2> QED BY <2>2, <2>3, <2>4 DEF q
<1>3. CASE r.ok /\ ~Marked(r.tree, {e.file} \X e.mark) /\ n > 0
  <2>0. e.file \in D /\ IsABag(r.tree[e.file]) /\ n \in Nat
    BY <1>0, <1>3, PlacesCount DEF IsTree
  <2>1. q = [ok |-> TRUE, tree |-> [r.tree EXCEPT ![e.file] = w]]
    BY <1>0, <1>3 DEF ApplyEdit
  <2>2. /\ IsABag(w)
        /\ e.id \in DOMAIN w
        /\ \A t \in DOMAIN w : t \in DOMAIN r.tree[e.file] \cup e.new \cup {e.id}
        /\ \A t \in DOMAIN r.tree[e.file] : t # e.old /\ t \notin e.cut => t \in DOMAIN w
        /\ \A t : t # e.old /\ t \notin e.cut \cup e.new \cup {e.id} =>
              Copies(t, w) = Copies(t, r.tree[e.file])
        /\ e.id \notin DOMAIN r.tree[e.file] \cup e.new => Copies(e.id, w) = 1
    BY <1>3, <2>0, RewrittenFile
  <2> HIDE DEF w, n
  <2>3. /\ q.tree[e.file] = w
        /\ \A f \in D : f # e.file => q.tree[f] = r.tree[f]
        /\ DOMAIN q.tree = D
        /\ q.tree = [f \in D |-> q.tree[f]]
        /\ q = [ok |-> q.ok, tree |-> q.tree] /\ q.ok = TRUE
    BY <1>0, <2>0, <2>1 DEF IsTree
  <2> HIDE DEF q
  <2>4. IsOutcome(q, D)
    BY <1>0, <2>2, <2>3 DEF IsOutcome, IsTree
  <2>5. \A f \in D : \A t \in DOMAIN q.tree[f] :
           t \in DOMAIN r.tree[f] \/ Makes(e, <<f, t>>)
    BY <2>2, <2>3 DEF Makes
  <2>6. \A f \in D : \A t \in DOMAIN r.tree[f] :
           t # e.old /\ t \notin e.cut => t \in DOMAIN q.tree[f]
    BY <2>2, <2>3
  <2>7. \A f \in D : \A t : t # e.old /\ t \notin e.cut /\ ~Makes(e, <<f, t>>) =>
           Copies(t, q.tree[f]) = Copies(t, r.tree[f])
    BY <2>2, <2>3 DEF Makes
  <2>8. Goes(r, q, {e})
    BY <1>0, <1>3, <2>3, <2>5, <2>6, <2>7 DEF Goes
  <2>9. /\ e.id \in DOMAIN q.tree[e.file]
        /\ e.id \notin DOMAIN r.tree[e.file] \cup e.new => Copies(e.id, q.tree[e.file]) = 1
    BY <2>2, <2>3
  <2> QED BY <2>4, <2>8, <2>9 DEF q
<1> HIDE DEF n
<1> QED BY <1>0, <1>1, <1>2, <1>3

\* A run g of the edits es, from a tree that has their files.
EditRun(g, t, o, es) ==
    /\ g[0] = [ok |-> o, tree |-> t]
    /\ \A i \in 1..Len(es) : g[i] = ApplyEdit(g[i - 1], es[i])

LEMMA EditRunOutcome ==
  ASSUME NEW t, IsTree(t), NEW o \in BOOLEAN, NEW es \in Seq(Edit),
         o => FilesOf(es) \subseteq DOMAIN t, NEW g, EditRun(g, t, o, es)
  PROVE  \A i \in 0..Len(es) : IsOutcome(g[i], DOMAIN t) /\ (g[i].ok => o)
<1> DEFINE n == Len(es)
           Good == {k \in Nat : k <= n => IsOutcome(g[k], DOMAIN t) /\ (g[k].ok => o)}
<1>0. n \in Nat /\ DOMAIN es = 1..n /\ \A i \in 1..n : es[i] \in Edit
  OBVIOUS
<1>1. 0 \in Good
  <2>1. g[0] = [ok |-> o, tree |-> t]
    BY DEF EditRun
  <2>2. IsOutcome(g[0], DOMAIN t) /\ (g[0].ok => o)
    BY <2>1 DEF IsOutcome
  <2> QED BY <2>2
<1>2. ASSUME NEW k \in Good PROVE k + 1 \in Good
  <2>1. SUFFICES ASSUME k + 1 <= n
                 PROVE  IsOutcome(g[k + 1], DOMAIN t) /\ (g[k + 1].ok => o)
    OBVIOUS
  <2>2. k \in Nat /\ k + 1 \in 1..n /\ (k + 1) - 1 = k
    BY <1>0, <2>1
  <2>3. IsOutcome(g[k], DOMAIN t) /\ (g[k].ok => o)
    BY <1>0, <2>1, <2>2
  <2>4. g[k + 1] = ApplyEdit(g[k], es[k + 1])
    BY <2>2 DEF EditRun
  <2>5. es[k + 1].file \in FilesOf(es) /\ es[k + 1] \in Edit
    BY <1>0, <2>2 DEF FilesOf, ToSet
  <2>6. g[k].ok => es[k + 1].file \in DOMAIN t
    BY <2>3, <2>5
  <2>7. IsOutcome(g[k + 1], DOMAIN t) /\ Goes(g[k], g[k + 1], {es[k + 1]})
    BY <2>3, <2>4, <2>5, <2>6, EditStep
  <2> QED BY <2>3, <2>7 DEF Goes
<1>3. Good = Nat
  <2> HIDE DEF Good
  <2>1. Good \in SUBSET Nat
    BY DEF Good
  <2> QED BY <1>1, <1>2, <2>1, Induct
<1> QED
  <2>1. ASSUME NEW i \in 0..n PROVE IsOutcome(g[i], DOMAIN t) /\ (g[i].ok => o)
    <3>1. i \in Good /\ i <= n
      BY <1>0, <1>3
    <3> QED BY <3>1
  <2> QED BY <2>1

\* From its a-th to its b-th edit.
LEMMA EditRunGoes ==
  ASSUME NEW t, IsTree(t), NEW o \in BOOLEAN, NEW es \in Seq(Edit),
         o => FilesOf(es) \subseteq DOMAIN t, NEW g, EditRun(g, t, o, es),
         NEW a \in 0..Len(es)
  PROVE  \A b \in a..Len(es) : Goes(g[a], g[b], {es[h] : h \in (a + 1)..b})
<1> DEFINE n == Len(es)
           X(k) == {es[h] : h \in (a + 1)..(a + k)}
           Good == {k \in Nat : a + k <= n => Goes(g[a], g[a + k], X(k))}
<1>0. n \in Nat /\ a \in Nat /\ DOMAIN es = 1..n /\ \A i \in 1..n : es[i] \in Edit
  OBVIOUS
<1>00. \A i \in 0..n : IsOutcome(g[i], DOMAIN t) /\ (g[i].ok => o)
  BY EditRunOutcome
<1>1. 0 \in Good
  <2>1. Goes(g[a], g[a], X(0))
    BY <1>00, GoesNowhere
  <2>2. a + 0 = a
    BY <1>0
  <2> QED BY <2>1, <2>2
<1>2. ASSUME NEW k \in Good PROVE k + 1 \in Good
  <2>1. SUFFICES ASSUME a + (k + 1) <= n
                 PROVE  Goes(g[a], g[a + (k + 1)], X(k + 1))
    OBVIOUS
  <2>2. k \in Nat /\ a + (k + 1) \in 1..n /\ (a + (k + 1)) - 1 = a + k /\ a + k \in 0..n
    BY <1>0, <2>1
  <2>3. Goes(g[a], g[a + k], X(k))
    BY <1>0, <2>1, <2>2
  <2>4. g[a + (k + 1)] = ApplyEdit(g[a + k], es[a + (k + 1)])
    BY <2>2 DEF EditRun
  <2>5. es[a + (k + 1)].file \in FilesOf(es) /\ es[a + (k + 1)] \in Edit
    BY <1>0, <2>2 DEF FilesOf, ToSet
  <2>6. IsOutcome(g[a + k], DOMAIN t) /\ (g[a + k].ok => es[a + (k + 1)].file \in DOMAIN t)
    BY <1>00, <2>2, <2>5
  <2>7. Goes(g[a + k], g[a + (k + 1)], {es[a + (k + 1)]})
    BY <2>4, <2>5, <2>6, EditStep
  <2>8. X(k) \cup {es[a + (k + 1)]} = X(k + 1)
    <3>1. ((a + 1)..(a + k)) \cup {a + (k + 1)} = (a + 1)..(a + (k + 1))
      BY <1>0, <2>2
    <3> QED BY <3>1
  <2>9. IsOutcome(g[a], DOMAIN t) /\ IsOutcome(g[a + (k + 1)], DOMAIN t)
    BY <1>0, <1>00, <2>2
  <2> HIDE DEF X
  <2>10. Goes(g[a], g[a + (k + 1)], X(k) \cup {es[a + (k + 1)]})
    BY <2>3, <2>6, <2>7, <2>9, GoesOn
  <2> QED BY <2>8, <2>10
<1>3. Good = Nat
  <2> HIDE DEF Good
  <2>1. Good \in SUBSET Nat
    BY DEF Good
  <2> QED BY <1>1, <1>2, <2>1, Induct
<1> QED
  <2>1. ASSUME NEW b \in a..n PROVE Goes(g[a], g[b], {es[h] : h \in (a + 1)..b})
    <3>1. b - a \in Nat /\ a + (b - a) = b /\ b <= n
      BY <1>0
    <3>2. Goes(g[a], g[a + (b - a)], X(b - a))
      BY <1>3, <3>1
    <3> QED BY <3>1, <3>2
  <2> QED BY <2>1

LEMMA EditSeqFold ==
  ASSUME NEW b, NEW S, NEW es \in Seq(S)
  PROVE  \E g : /\ g[0] = b
                /\ \A i \in 1..Len(es) : g[i] = ApplyEdit(g[i - 1], es[i])
                /\ ApplyEdits(b, es) = g[Len(es)]
<1>1. Len(es) \in Nat /\ DOMAIN es = 1..Len(es)
  OBVIOUS
<1> QED BY <1>1, EditFold

LEMMA EditRunExists ==
  ASSUME NEW t, NEW o, NEW es \in Seq(Edit)
  PROVE  \E g : EditRun(g, t, o, es) /\ ApplyEdits([ok |-> o, tree |-> t], es) = g[Len(es)]
<1> DEFINE b == [ok |-> o, tree |-> t]
<1>1. PICK g : /\ g[0] = b
               /\ \A i \in 1..Len(es) : g[i] = ApplyEdit(g[i - 1], es[i])
               /\ ApplyEdits(b, es) = g[Len(es)]
  <2> HIDE DEF b
  <2> QED BY EditSeqFold
<1> HIDE DEF b
<1> QED BY <1>1 DEF EditRun, b

\* The stage as a run of its edits.
LEMMA StageRun ==
  ASSUME NEW t, IsTree(t), NEW s \in AStage
  PROVE  \E g, o :
           /\ o = (Opens(s) \subseteq DOMAIN t /\ AllPresent(t, s.need))
           /\ EditRun(g, t, o, s.edits)
           /\ LET r == g[Len(s.edits)]
              IN  EvalStage(t, s) =
                    IF Opens(s) \subseteq DOMAIN t /\ Marked(t, s.unless)
                    THEN [ok |-> TRUE, tree |-> t]
                    ELSE [r EXCEPT !.ok = @ /\ \A at \in s.gone : ~Present(r.tree, at)]
<1> DEFINE o == Opens(s) \subseteq DOMAIN t /\ AllPresent(t, s.need)
<1>1. s.edits \in Seq(Edit)
  BY DEF AStage
<1>2. PICK g : /\ EditRun(g, t, o, s.edits)
               /\ ApplyEdits([ok |-> o, tree |-> t], s.edits) = g[Len(s.edits)]
  <2> HIDE DEF o
  <2> QED BY <1>1, EditRunExists
<1>3. EvalStage(t, s) =
        IF Opens(s) \subseteq DOMAIN t /\ Marked(t, s.unless)
        THEN [ok |-> TRUE, tree |-> t]
        ELSE [g[Len(s.edits)] EXCEPT !.ok =
                @ /\ \A at \in s.gone : ~Present(g[Len(s.edits)].tree, at)]
  BY <1>2, Zenon DEF EvalStage
<1> QED BY <1>2, <1>3

LEMMA StageOutcome ==
  ASSUME NEW t, IsTree(t), NEW s \in AStage
  PROVE  /\ IsOutcome(EvalStage(t, s), DOMAIN t)
         /\ Goes([ok |-> TRUE, tree |-> t], EvalStage(t, s), ToSet(s.edits))
         /\ EvalStage(t, s).ok => Opens(s) \subseteq DOMAIN t
<1> DEFINE q == EvalStage(t, s)
           z == [ok |-> TRUE, tree |-> t]
           n == Len(s.edits)
<1>1. PICK g, o :
           /\ o = (Opens(s) \subseteq DOMAIN t /\ AllPresent(t, s.need))
           /\ EditRun(g, t, o, s.edits)
           /\ q = IF Opens(s) \subseteq DOMAIN t /\ Marked(t, s.unless)
                  THEN z
                  ELSE [g[n] EXCEPT !.ok = @ /\ \A at \in s.gone : ~Present(g[n].tree, at)]
  BY StageRun
<1>2. IsOutcome(z, DOMAIN t)
  BY DEF IsOutcome
<1>3. CASE Opens(s) \subseteq DOMAIN t /\ Marked(t, s.unless)
  <2>1. q = z
    BY <1>1, <1>3
  <2>2. Goes(z, z, ToSet(s.edits))
    BY <1>2, GoesNowhere
  <2> HIDE DEF q, z
  <2> QED BY <1>2, <1>3, <2>1, <2>2 DEF q, z
<1>4. CASE ~(Opens(s) \subseteq DOMAIN t /\ Marked(t, s.unless))
  <2>0. o \in BOOLEAN /\ s.edits \in Seq(Edit) /\ n \in Nat /\ DOMAIN s.edits = 1..n
    BY <1>1 DEF AStage
  <2>1. o => FilesOf(s.edits) \subseteq DOMAIN t
    BY <1>1 DEF Opens
  <2>2. IsOutcome(g[n], DOMAIN t) /\ (g[n].ok => o)
    <3>1. \A i \in 0..n : IsOutcome(g[i], DOMAIN t) /\ (g[i].ok => o)
      BY <1>1, <2>0, <2>1, EditRunOutcome
    <3>2. n \in 0..n
      BY <2>0
    <3> QED BY <3>1, <3>2
  <2>3. Goes(g[0], g[n], {s.edits[h] : h \in (0 + 1)..n})
    <3>1. 0 \in 0..n /\ n \in 0..n
      BY <2>0
    <3>2. \A b \in 0..n : Goes(g[0], g[b], {s.edits[h] : h \in (0 + 1)..b})
      BY <1>1, <2>0, <2>1, <3>1, EditRunGoes
    <3> QED BY <3>1, <3>2
  <2>4. {s.edits[h] : h \in (0 + 1)..n} = ToSet(s.edits)
    BY <2>0 DEF ToSet
  <2>5. g[0].tree = t
    BY <1>1 DEF EditRun
  <2> DEFINE G == \A at \in s.gone : ~Present(g[n].tree, at)
  <2>6. q = [g[n] EXCEPT !.ok = @ /\ G]
    BY <1>1, <1>4
  <2> HIDE DEF G
  <2>7. g[n] = [ok |-> g[n].ok, tree |-> g[n].tree] /\ g[n].ok \in BOOLEAN
    BY <2>2 DEF IsOutcome
  <2>8. q = [ok |-> g[n].ok /\ G, tree |-> g[n].tree]
    BY <2>6, <2>7
  <2> HIDE DEF q
  <2>9. q.tree = g[n].tree /\ (q.ok => g[n].ok) /\ q.ok \in BOOLEAN
        /\ q = [ok |-> q.ok, tree |-> q.tree]
    <3>1. CASE g[n].ok /\ G
      <4>1. (g[n].ok /\ G) = TRUE
        BY <3>1
      <4>2. q = [ok |-> TRUE, tree |-> g[n].tree]
        BY <2>8, <4>1
      <4> QED BY <3>1, <4>2
    <3>2. CASE ~(g[n].ok /\ G)
      <4>1. (g[n].ok /\ G) = FALSE
        BY <3>2
      <4>2. q = [ok |-> FALSE, tree |-> g[n].tree]
        BY <2>8, <4>1
      <4> QED BY <4>2
    <3> QED BY <3>1, <3>2
  <2>10. IsOutcome(q, DOMAIN t)
    BY <2>2, <2>9 DEF IsOutcome
  <2>11. Goes(z, q, ToSet(s.edits))
    BY <2>3, <2>4, <2>5, <2>9 DEF Goes
  <2>12. q.ok => Opens(s) \subseteq DOMAIN t
    BY <1>1, <2>2, <2>9
  <2> HIDE DEF z
  <2> QED BY <2>10, <2>11, <2>12 DEF q, z
<1> QED BY <1>3, <1>4

\* A stage that ends well has made each hard edit whose marks are new.
LEMMA StageLands ==
  ASSUME NEW t, IsTree(t), NEW s \in AStage, NEW k \in DOMAIN s.edits,
         EvalStage(t, s).ok, ~Marked(t, s.unless), s.edits[k].hard,
         \A m \in s.edits[k].mark : ~Present(t, <<s.edits[k].file, m>>),
         \A m \in s.edits[k].mark : \A h \in 1..(k - 1) :
            ~Makes(s.edits[h], <<s.edits[k].file, m>>),
         \A x \in ToSet(s.edits) : s.edits[k].id # x.old /\ s.edits[k].id \notin x.cut \cup x.new,
         \A h \in DOMAIN s.edits : s.edits[h].id = s.edits[k].id => h = k,
         ~Present(t, <<s.edits[k].file, s.edits[k].id>>)
  PROVE  /\ s.edits[k].file \in DOMAIN t
         /\ Copies(s.edits[k].id, EvalStage(t, s).tree[s.edits[k].file]) = 1
<1> DEFINE q == EvalStage(t, s)
           n == Len(s.edits)
           e == s.edits[k]
<1>1. PICK g, o :
           /\ o = (Opens(s) \subseteq DOMAIN t /\ AllPresent(t, s.need))
           /\ EditRun(g, t, o, s.edits)
           /\ q = IF Opens(s) \subseteq DOMAIN t /\ Marked(t, s.unless)
                  THEN [ok |-> TRUE, tree |-> t]
                  ELSE [g[n] EXCEPT !.ok = @ /\ \A at \in s.gone : ~Present(g[n].tree, at)]
  BY StageRun
<1>2. o \in BOOLEAN /\ s.edits \in Seq(Edit) /\ n \in Nat /\ DOMAIN s.edits = 1..n
      /\ k \in 1..n /\ e \in Edit
  BY <1>1 DEF AStage
<1>3. o => FilesOf(s.edits) \subseteq DOMAIN t
  BY <1>1 DEF Opens
<1>4. \A i \in 0..n : IsOutcome(g[i], DOMAIN t) /\ (g[i].ok => o)
  BY <1>1, <1>2, <1>3, EditRunOutcome
<1>5. g[n] = [ok |-> g[n].ok, tree |-> g[n].tree] /\ g[n].ok \in BOOLEAN
  BY <1>2, <1>4 DEF IsOutcome
<1>6. q.tree = g[n].tree /\ g[n].ok
  <2> DEFINE G == \A at \in s.gone : ~Present(g[n].tree, at)
  <2>1. q = [g[n] EXCEPT !.ok = @ /\ G]
    BY <1>1
  <2> HIDE DEF G
  <2>2. q = [ok |-> g[n].ok /\ G, tree |-> g[n].tree]
    BY <1>5, <2>1
  <2> HIDE DEF q
  <2>3. CASE ~g[n].ok
    <3>1. (g[n].ok /\ G) = FALSE
      BY <2>3
    <3>2. q = [ok |-> FALSE, tree |-> g[n].tree]
      BY <2>2, <3>1
    <3>3. q.ok = FALSE
      BY <3>2
    <3> QED BY <3>3 DEF q
  <2>4. CASE g[n].ok
    BY <2>2, <2>4
  <2> QED BY <2>3, <2>4
<1> HIDE DEF q, n
<1>7. /\ k - 1 \in 0..n /\ k \in 0..n /\ n \in k..n /\ k \in (k - 1)..n
      /\ k - 1 \in 0..n /\ 0 \in 0..n
  BY <1>2
<1>8. Goes(g[0], g[k - 1], {s.edits[h] : h \in (0 + 1)..(k - 1)})
  BY <1>1, <1>2, <1>3, <1>7, EditRunGoes DEF n
<1>9. Goes(g[k], g[n], {s.edits[h] : h \in (k + 1)..n})
  BY <1>1, <1>2, <1>3, <1>7, EditRunGoes DEF n
<1>10. g[0].tree = t
  BY <1>1 DEF EditRun
<1>11. g[k] = ApplyEdit(g[k - 1], e)
  BY <1>1, <1>2 DEF EditRun, n
<1>12. g[k].ok /\ o /\ e.file \in DOMAIN t
  <2>1. g[k].ok
    BY <1>6, <1>9 DEF Goes
  <2>2. o
    BY <1>4, <1>7, <2>1
  <2>3. e.file \in FilesOf(s.edits)
    BY <1>2 DEF FilesOf, ToSet
  <2> QED BY <1>3, <2>1, <2>2, <2>3
<1>13. ~Marked(g[k - 1].tree, {e.file} \X e.mark)
  <2>1. SUFFICES ASSUME Marked(g[k - 1].tree, {e.file} \X e.mark) PROVE FALSE
    OBVIOUS
  <2>2. PICK m \in e.mark : Present(g[k - 1].tree, <<e.file, m>>)
    BY <2>1 DEF Marked, AllPresent
  <2>3. m \in DOMAIN g[k - 1].tree[e.file]
    BY <2>2 DEF Present, BagIn, BagToSet
  <2>4. m \notin DOMAIN t[e.file]
    BY <1>12 DEF Present, BagIn, BagToSet
  <2>5. \E x \in {s.edits[h] : h \in (0 + 1)..(k - 1)} : Makes(x, <<e.file, m>>)
    BY <1>8, <1>10, <1>12, <2>3, <2>4 DEF Goes
  <2> QED BY <2>5
<1>14. e.id \notin DOMAIN g[k - 1].tree[e.file]
  <2>1. SUFFICES ASSUME e.id \in DOMAIN g[k - 1].tree[e.file] PROVE FALSE
    OBVIOUS
  <2>2. e.id \notin DOMAIN t[e.file]
    BY <1>12 DEF Present, BagIn, BagToSet
  <2>3. \E x \in {s.edits[h] : h \in (0 + 1)..(k - 1)} : Makes(x, <<e.file, e.id>>)
    BY <1>8, <1>10, <1>12, <2>1, <2>2 DEF Goes
  <2>4. PICK h \in 1..(k - 1) : Makes(s.edits[h], <<e.file, e.id>>)
    BY <2>3
  <2>5. h \in DOMAIN s.edits /\ h # k
    BY <1>2, <2>4
  <2>6. e.id \in s.edits[h].new \cup {s.edits[h].id}
    BY <2>4 DEF Makes
  <2>7. s.edits[h] \in ToSet(s.edits)
    BY <2>5 DEF ToSet
  <2> QED BY <2>5, <2>6, <2>7
<1>15. Copies(e.id, g[k].tree[e.file]) = 1
  <2>1. e \in ToSet(s.edits)
    BY DEF ToSet
  <2>2. e.id \notin DOMAIN g[k - 1].tree[e.file] \cup e.new
    BY <1>14, <2>1
  <2>3. IsOutcome(g[k - 1], DOMAIN t)
    BY <1>4, <1>7
  <2>4. e.hard
    OBVIOUS
  <2> HIDE DEF e
  <2> QED BY <1>2, <1>11, <1>12, <1>13, <2>2, <2>3, <2>4, EditStep
<1>16. Copies(e.id, g[n].tree[e.file]) = Copies(e.id, g[k].tree[e.file])
  <2>1. ASSUME NEW x \in {s.edits[h] : h \in (k + 1)..n}
        PROVE  e.id # x.old /\ e.id \notin x.cut /\ ~Makes(x, <<e.file, e.id>>)
    <3>1. PICK h \in (k + 1)..n : x = s.edits[h]
      OBVIOUS
    <3>2. h \in DOMAIN s.edits /\ h # k
      BY <1>2, <3>1
    <3>3. x \in ToSet(s.edits)
      BY <3>1, <3>2 DEF ToSet
    <3> QED BY <3>1, <3>2, <3>3 DEF Makes
  <2>2. e.file \in DOMAIN g[k].tree
    BY <1>4, <1>7, <1>12 DEF IsOutcome
  <2> QED BY <1>9, <2>1, <2>2 DEF Goes
<1>17. Copies(e.id, q.tree[e.file]) = 1
  BY <1>6, <1>15, <1>16
<1> QED BY <1>12, <1>17 DEF q

-----------------------------------------------------------------------------
(* The files a stage writes, and the stages of a script.                   *)

LEMMA AppendFile ==
  ASSUME NEW S, NEW a \in Seq(S), NEW x \in S
  PROVE  Append(a, x) \in Seq(S) /\ ToSet(Append(a, x)) = ToSet(a) \cup {x}
<1>1. /\ Append(a, x) \in Seq(S)
      /\ DOMAIN a = 1..Len(a) /\ Len(a) \in Nat
      /\ DOMAIN Append(a, x) = 1..(Len(a) + 1)
      /\ \A i \in 1..Len(a) : Append(a, x)[i] = a[i]
      /\ Append(a, x)[Len(a) + 1] = x
  OBVIOUS
<1>2. ASSUME NEW y \in ToSet(Append(a, x)) PROVE y \in ToSet(a) \cup {x}
  BY <1>1 DEF ToSet
<1>3. x \in ToSet(Append(a, x))
  <2>1. Len(a) + 1 \in DOMAIN Append(a, x)
    BY <1>1
  <2> QED BY <1>1, <2>1 DEF ToSet
<1>4. ASSUME NEW y \in ToSet(a) PROVE y \in ToSet(Append(a, x))
  <2>1. PICK i \in DOMAIN a : y = a[i]
    BY DEF ToSet
  <2>2. i \in DOMAIN Append(a, x) /\ Append(a, x)[i] = y
    BY <1>1, <2>1
  <2> QED BY <2>2 DEF ToSet
<1> QED BY <1>1, <1>2, <1>3, <1>4

\* A run g of the edits es collecting the files to write.
FileRun(g, old, new, es, n) ==
    /\ g[0] = <<>>
    /\ \A i \in 1..n : g[i] = AddChanged(old, new, g[i - 1], es[i])
    /\ ChangedFiles(old, new, es) = g[n]

LEMMA FileRunExists ==
  ASSUME NEW old, NEW new, NEW es, NEW n \in Nat, DOMAIN es = 1..n
  PROVE  \E g : FileRun(g, old, new, es, n)
BY FileFold DEF FileRun

\* A stage writes files of its edits, and every file it changed.
LEMMA ChangedWritten ==
  ASSUME NEW old, NEW new, NEW es \in Seq(Edit)
  PROVE  /\ ChangedFiles(old, new, es) \in Seq(FilesOf(es))
         /\ \A f \in FilesOf(es) :
              f \notin ToSet(ChangedFiles(old, new, es)) => new[f] = old[f]
<1> DEFINE n == Len(es)
           S == FilesOf(es)
<1>0. n \in Nat /\ DOMAIN es = 1..n /\ \A i \in 1..n : es[i].file \in S
  BY DEF FilesOf, ToSet
<1>00. PICK g : FileRun(g, old, new, es, n)
  BY <1>0, FileRunExists
<1>1. /\ g[0] = <<>>
      /\ \A i \in 1..n : g[i] = AddChanged(old, new, g[i - 1], es[i])
      /\ ChangedFiles(old, new, es) = g[n]
  BY <1>00 DEF FileRun
<1> DEFINE Done(k) == /\ g[k] \in Seq(S)
                      /\ \A h \in 1..k : es[h].file \in ToSet(g[k]) \/ new[es[h].file] = old[es[h].file]
           Good == {k \in Nat : k <= n => Done(k)}
<1> HIDE DEF n, S
<1>2. 0 \in Good
  <2>1. 1..0 = {} /\ <<>> \in Seq(S)
    OBVIOUS
  <2> QED BY <1>1, <2>1
<1>3. ASSUME NEW k \in Good PROVE k + 1 \in Good
  <2>1. SUFFICES ASSUME k + 1 <= n PROVE Done(k + 1)
    OBVIOUS
  <2>2. k \in Nat /\ k + 1 \in 1..n /\ (k + 1) - 1 = k /\ Done(k)
    BY <1>0, <2>1
  <2> DEFINE f == es[k + 1].file
  <2>3. g[k + 1] = IF f \in ToSet(g[k]) \/ new[f] = old[f] THEN g[k] ELSE Append(g[k], f)
    BY <1>1, <2>2 DEF AddChanged
  <2>4. f \in S /\ g[k] \in Seq(S)
    BY <1>0, <2>2
  <2>5. g[k + 1] \in Seq(S) /\ ToSet(g[k]) \subseteq ToSet(g[k + 1])
        /\ (f \in ToSet(g[k + 1]) \/ new[f] = old[f])
    <3> HIDE DEF f
    <3>1. CASE f \in ToSet(g[k]) \/ new[f] = old[f]
      BY <2>3, <2>4, <3>1
    <3>2. CASE ~(f \in ToSet(g[k]) \/ new[f] = old[f])
      BY <2>3, <2>4, <3>2, AppendFile
    <3> QED BY <3>1, <3>2
  <2>6. ASSUME NEW h \in 1..(k + 1)
        PROVE  es[h].file \in ToSet(g[k + 1]) \/ new[es[h].file] = old[es[h].file]
    <3>1. CASE h = k + 1
      BY <2>5, <3>1
    <3>2. CASE h # k + 1
      <4>1. h \in 1..k
        BY <2>2, <3>2
      <4> QED BY <2>2, <2>5, <4>1
    <3> QED BY <3>1, <3>2
  <2> QED BY <2>5, <2>6
<1>4. Good = Nat
  <2> HIDE DEF Good
  <2>1. Good \in SUBSET Nat
    BY DEF Good
  <2> QED BY <1>2, <1>3, <2>1, Induct
<1>5. Done(n)
  BY <1>0, <1>4
<1>6. ASSUME NEW f \in S, f \notin ToSet(g[n]) PROVE new[f] = old[f]
  <2>1. PICK h \in 1..n : f = es[h].file
    BY <1>0 DEF S, FilesOf, ToSet
  <2> QED BY <1>5, <1>6, <2>1
<1> QED BY <1>1, <1>5, <1>6 DEF S

\* A run b of the stages ss from the tree t.
ScriptRun(b, t, ss) ==
    /\ b[0] = [ok |-> TRUE, tree |-> t]
    /\ \A i \in 1..Len(ss) : b[i] = AfterStage(b[i - 1], ss[i])
    /\ RunStages([ok |-> TRUE, tree |-> t], ss) = b[Len(ss)]

LEMMA StageSeqFold ==
  ASSUME NEW b, NEW S, NEW ss \in Seq(S)
  PROVE  \E g : /\ g[0] = b
                /\ \A i \in 1..Len(ss) : g[i] = AfterStage(g[i - 1], ss[i])
                /\ RunStages(b, ss) = g[Len(ss)]
<1>1. Len(ss) \in Nat /\ DOMAIN ss = 1..Len(ss)
  OBVIOUS
<1> QED BY <1>1, StageFold

LEMMA ScriptRunExists ==
  ASSUME NEW t, NEW ss \in Seq(AStage)
  PROVE  \E b : ScriptRun(b, t, ss)
<1> DEFINE z == [ok |-> TRUE, tree |-> t]
<1>1. PICK g : /\ g[0] = z
               /\ \A i \in 1..Len(ss) : g[i] = AfterStage(g[i - 1], ss[i])
               /\ RunStages(z, ss) = g[Len(ss)]
  <2> HIDE DEF z
  <2> QED BY StageSeqFold
<1> HIDE DEF z
<1> QED BY <1>1 DEF ScriptRun, z

LEMMA StageStep ==
  ASSUME NEW r, NEW D, IsOutcome(r, D), NEW st \in AStage
  PROVE  /\ IsOutcome(AfterStage(r, st), D)
         /\ Goes(r, AfterStage(r, st), ToSet(st.edits))
<1> DEFINE q == EvalStage(r.tree, st)
<1>0. r = [ok |-> r.ok, tree |-> r.tree] /\ r.ok \in BOOLEAN /\ IsTree(r.tree)
      /\ DOMAIN r.tree = D
  BY DEF IsOutcome
<1>1. IsOutcome(q, D) /\ Goes([ok |-> TRUE, tree |-> r.tree], q, ToSet(st.edits))
  BY <1>0, StageOutcome
<1> HIDE DEF q
<1>2. CASE ~r.ok
  <2>1. AfterStage(r, st) = r
    BY <1>2 DEF AfterStage
  <2>2. Goes(r, r, ToSet(st.edits))
    BY GoesNowhere
  <2> QED BY <2>1, <2>2
<1>3. CASE r.ok /\ q.ok
  <2>1. AfterStage(r, st) = q
    BY <1>3 DEF AfterStage, q
  <2>2. Goes(r, q, ToSet(st.edits))
    BY <1>1, <1>3 DEF Goes
  <2> QED BY <1>1, <2>1, <2>2
<1>4. CASE r.ok /\ ~q.ok
  <2>1. AfterStage(r, st) = [ok |-> FALSE, tree |-> r.tree]
    BY <1>0, <1>4 DEF AfterStage, q
  <2>2. IsOutcome(AfterStage(r, st), D)
    BY <1>0, <2>1 DEF IsOutcome
  <2>3. Goes(r, AfterStage(r, st), ToSet(st.edits))
    BY <1>4, <2>1, GoesNowhere
  <2> QED BY <2>2, <2>3
<1> QED BY <1>2, <1>3, <1>4

LEMMA ScriptRunGoes ==
  ASSUME NEW t, IsTree(t), NEW ss \in Seq(AStage), NEW b, ScriptRun(b, t, ss)
  PROVE  \A i \in 0..Len(ss) :
           /\ IsOutcome(b[i], DOMAIN t)
           /\ Goes(b[0], b[i], UNION {ToSet(ss[h].edits) : h \in 1..i})
<1> DEFINE n == Len(ss)
           X(k) == UNION {ToSet(ss[h].edits) : h \in 1..k}
           Good == {k \in Nat : k <= n => IsOutcome(b[k], DOMAIN t) /\ Goes(b[0], b[k], X(k))}
<1>0. n \in Nat /\ DOMAIN ss = 1..n /\ \A i \in 1..n : ss[i] \in AStage
  OBVIOUS
<1>1. IsOutcome(b[0], DOMAIN t)
  BY DEF ScriptRun, IsOutcome
<1>2. 0 \in Good
  <2>1. Goes(b[0], b[0], X(0))
    BY <1>1, GoesNowhere
  <2> QED BY <1>1, <2>1
<1>3. ASSUME NEW k \in Good PROVE k + 1 \in Good
  <2>1. SUFFICES ASSUME k + 1 <= n
                 PROVE  IsOutcome(b[k + 1], DOMAIN t) /\ Goes(b[0], b[k + 1], X(k + 1))
    OBVIOUS
  <2>2. k \in Nat /\ k + 1 \in 1..n /\ (k + 1) - 1 = k
    BY <1>0, <2>1
  <2>3. IsOutcome(b[k], DOMAIN t) /\ Goes(b[0], b[k], X(k))
    BY <1>0, <2>1, <2>2
  <2>4. b[k + 1] = AfterStage(b[k], ss[k + 1]) /\ ss[k + 1] \in AStage
    BY <1>0, <2>2 DEF ScriptRun
  <2>5. IsOutcome(b[k + 1], DOMAIN t) /\ Goes(b[k], b[k + 1], ToSet(ss[k + 1].edits))
    BY <2>3, <2>4, StageStep
  <2>6. X(k) \cup ToSet(ss[k + 1].edits) = X(k + 1)
    <3>1. (1..k) \cup {k + 1} = 1..(k + 1)
      BY <2>2
    <3> QED BY <3>1
  <2> HIDE DEF X
  <2>7. Goes(b[0], b[k + 1], X(k) \cup ToSet(ss[k + 1].edits))
    BY <1>1, <2>3, <2>5, GoesOn
  <2> QED BY <2>5, <2>6, <2>7
<1>4. Good = Nat
  <2> HIDE DEF Good
  <2>1. Good \in SUBSET Nat
    BY DEF Good
  <2> QED BY <1>2, <1>3, <2>1, Induct
<1> QED
  <2>1. ASSUME NEW i \in 0..n PROVE IsOutcome(b[i], DOMAIN t) /\ Goes(b[0], b[i], X(i))
    <3>1. i \in Nat /\ i <= n
      BY <1>0
    <3>2. i \in Good
      BY <1>4, <3>1
    <3> HIDE DEF X
    <3> QED BY <3>1, <3>2
  <2> QED BY <2>1

\* What a script run by itself leaves behind.
LEMMA RunScriptTree ==
  ASSUME NEW t, IsTree(t), NEW s \in AScript, NEW b, NEW ss,
         ss = (IF Verdict(t, s) = "redo" THEN s.redo ELSE s.stages), ScriptRun(b, t, ss)
  PROVE  RunScript(t, s).tree =
           IF Verdict(t, s) \in {"leave", "fail"} THEN t ELSE b[Len(ss)].tree
<1> DEFINE v == Verdict(t, s)
           z == [ok |-> TRUE, tree |-> t]
           end == RunStages(z, ss)
<1>1. ss \in Seq(AStage) /\ Len(ss) \in Nat
  BY DEF AScript
<1>2. Len(ss) \in 0..Len(ss)
  BY <1>1
<1>3. IsOutcome(b[Len(ss)], DOMAIN t)
  BY <1>1, <1>2, ScriptRunGoes
<1>4. end = b[Len(ss)]
  BY DEF ScriptRun
<1>5. end = [ok |-> end.ok, tree |-> end.tree]
  BY <1>3, <1>4 DEF IsOutcome
<1> HIDE DEF end
<1>6. RunScript(t, s) =
        CASE v = "leave" -> z
          [] v = "fail"  -> [z EXCEPT !.ok = FALSE]
          [] OTHER       -> [end EXCEPT !.ok = @ /\ (end.tree = t /\ v = "apply" => s.idle = 0)]
  BY DEF RunScript, end
<1> HIDE DEF v
<1>7. CASE v = "leave"
  BY <1>6, <1>7 DEF v
<1>8. CASE v = "fail"
  BY <1>6, <1>8 DEF v
<1>9. CASE v \notin {"leave", "fail"}
  <2> DEFINE G == end.tree = t /\ v = "apply" => s.idle = 0
  <2>1. RunScript(t, s) = [end EXCEPT !.ok = @ /\ G]
    BY <1>6, <1>9
  <2> HIDE DEF G
  <2>2. RunScript(t, s).tree = end.tree
    BY <1>5, <2>1
  <2> QED BY <1>4, <1>9, <2>2 DEF v
<1> QED BY <1>7, <1>8, <1>9

\* A script run by itself keeps the files, and the passages no edit looks for.
LEMMA RunScriptKeeps ==
  ASSUME NEW t, IsTree(t), NEW s \in AScript
  PROVE  /\ IsTree(RunScript(t, s).tree)
         /\ DOMAIN RunScript(t, s).tree = DOMAIN t
         /\ \A f \in DOMAIN t : \A p \in DOMAIN t[f] :
              (\A x \in EditsOf(s) \cup RedoEdits(s) : p # x.old /\ p \notin x.cut) =>
                 p \in DOMAIN RunScript(t, s).tree[f]
<1> DEFINE ss == IF Verdict(t, s) = "redo" THEN s.redo ELSE s.stages
           X == UNION {ToSet(ss[h].edits) : h \in 1..Len(ss)}
<1>1. ss \in Seq(AStage) /\ Len(ss) \in Nat /\ DOMAIN ss = 1..Len(ss)
  BY DEF AScript
<1>2. Len(ss) \in 0..Len(ss)
  BY <1>1
<1>3. X \subseteq EditsOf(s) \cup RedoEdits(s)
  <2>1. CASE Verdict(t, s) = "redo"
    BY <1>1, <2>1 DEF RedoEdits
  <2>2. CASE Verdict(t, s) # "redo"
    BY <1>1, <2>2 DEF EditsOf
  <2> QED BY <2>1, <2>2
<1>4. PICK b : ScriptRun(b, t, ss)
  BY <1>1, ScriptRunExists
<1>5. RunScript(t, s).tree = IF Verdict(t, s) \in {"leave", "fail"} THEN t ELSE b[Len(ss)].tree
  BY <1>4, RunScriptTree
<1> HIDE DEF ss
<1>6. IsOutcome(b[Len(ss)], DOMAIN t) /\ Goes(b[0], b[Len(ss)], X)
  BY <1>1, <1>2, <1>4, ScriptRunGoes
<1>7. b[0].tree = t
  BY <1>4 DEF ScriptRun
<1> HIDE DEF X
<1>8. CASE Verdict(t, s) \in {"leave", "fail"}
  BY <1>5, <1>8
<1>9. CASE Verdict(t, s) \notin {"leave", "fail"}
  BY <1>3, <1>5, <1>6, <1>7, <1>9 DEF IsOutcome, Goes
<1> QED BY <1>8, <1>9

-----------------------------------------------------------------------------
(* What ChainAssumption says of the edits of a chain.                      *)

LEMMA ChainFacts ==
  /\ Len(Chain) \in Nat /\ Len(Chain) > 0 /\ DOMAIN Chain = 1..Len(Chain)
  /\ IsTree(Patched)
  /\ \A i \in DOMAIN Chain : /\ Chain[i].guard \subseteq Files
                             /\ Chain[i].script \in AScript
                             /\ Chain[i].script.exists \subseteq Files
                             /\ Chain[i].script \in Scripts
<1>1. Chain \in Seq([guard : SUBSET Files, script : AScript]) /\ Chain # <<>>
  BY ChainAssumption DEF WellFormed
<1>2. Len(Chain) \in Nat /\ Len(Chain) > 0 /\ DOMAIN Chain = 1..Len(Chain)
  BY <1>1
<1>3. \A i \in DOMAIN Chain : Chain[i] \in [guard : SUBSET Files, script : AScript]
  <2> DEFINE R == [guard : SUBSET Files, script : AScript]
  <2> HIDE DEF R
  <2>1. Chain \in Seq(R)
    BY <1>1 DEF R
  <2>2. \A i \in DOMAIN Chain : Chain[i] \in R
    BY <2>1
  <2> QED BY <2>2 DEF R
<1> QED BY <1>2, <1>3, ChainAssumption DEF WellFormed, Scripts

\* The stages a script goes through, and the edits of them.
StagesOf(i, rd) == IF rd THEN Chain[i].script.redo ELSE Chain[i].script.stages

At(i, j, k) == Chain[i].script.stages[j].edits[k]

\* The place of a required edit: the k-th of stage j of script i.
Spot(i, j, k) ==
    /\ i \in DOMAIN Chain
    /\ j \in DOMAIN Chain[i].script.stages
    /\ k \in DOMAIN Chain[i].script.stages[j].edits
    /\ At(i, j, k).id \in RequiredIds

LEMMA ScriptFacts ==
  ASSUME NEW s \in AScript
  PROVE  /\ s.stages \in Seq(AStage) /\ s.redo \in Seq(AStage)
         /\ \A j \in DOMAIN s.stages : /\ s.stages[j] \in AStage
                                       /\ s.stages[j].edits \in Seq(Edit)
                                       /\ ToSet(s.stages[j].edits) \subseteq EditsOf(s)
         /\ \A j \in DOMAIN s.redo : /\ s.redo[j] \in AStage
                                     /\ s.redo[j].edits \in Seq(Edit)
                                     /\ ToSet(s.redo[j].edits) \subseteq RedoEdits(s)
<1>1. s.stages \in Seq(AStage) /\ s.redo \in Seq(AStage)
  BY DEF AScript
<1>2. \A x \in AStage : x.edits \in Seq(Edit)
  BY DEF AStage
<1>3. \A j \in DOMAIN s.stages : s.stages[j] \in AStage
  BY <1>1
<1>4. \A j \in DOMAIN s.redo : s.redo[j] \in AStage
  BY <1>1
<1>5. \A j \in DOMAIN s.stages : ToSet(s.stages[j].edits) \subseteq EditsOf(s)
  BY DEF EditsOf
<1>6. \A j \in DOMAIN s.redo : ToSet(s.redo[j].edits) \subseteq RedoEdits(s)
  BY DEF RedoEdits
<1> QED BY <1>1, <1>2, <1>3, <1>4, <1>5, <1>6

\* The stages a job runs are stages, of edits that keep the text of edits.
LEMMA StagesFacts ==
  ASSUME NEW i \in DOMAIN Chain, NEW rd \in BOOLEAN
  PROVE  /\ StagesOf(i, rd) \in Seq(AStage)
         /\ \A j \in DOMAIN StagesOf(i, rd) :
              /\ StagesOf(i, rd)[j] \in AStage
              /\ StagesOf(i, rd)[j].edits \in Seq(Edit)
              /\ \A x \in ToSet(StagesOf(i, rd)[j].edits) :
                   x \in EditsOf(Chain[i].script) \cup RedoEdits(Chain[i].script)
<1>1. Chain[i].script \in AScript
  BY ChainFacts
<1>2. CASE rd
  BY <1>1, <1>2, ScriptFacts DEF StagesOf
<1>3. CASE ~rd
  BY <1>1, <1>3, ScriptFacts DEF StagesOf
<1> QED BY <1>2, <1>3

LEMMA ScriptEdits ==
  ASSUME NEW s \in Scripts, NEW x \in EditsOf(s) \cup RedoEdits(s)
  PROVE  x \in MadeEdits /\ \A id \in EditIds : id # x.old /\ id \notin x.cut
<1>1. x \in MadeEdits
  BY DEF MadeEdits, AllEdits
<1> QED BY <1>1, ChainAssumption DEF IdsKept

LEMMA RequiredAreIds == RequiredIds \subseteq EditIds
BY DEF RequiredIds, EditIds, HardEdits

LEMMA EditSpot ==
  ASSUME NEW e \in AllEdits, e.id \in RequiredIds
  PROVE  \E i, j, k : Spot(i, j, k) /\ At(i, j, k) = e
<1>1. PICK i \in DOMAIN Chain : e \in EditsOf(Chain[i].script)
  BY DEF AllEdits, Scripts
<1>2. PICK j \in DOMAIN Chain[i].script.stages : e \in ToSet(Chain[i].script.stages[j].edits)
  BY <1>1 DEF EditsOf
<1>3. PICK k \in DOMAIN Chain[i].script.stages[j].edits : e = At(i, j, k)
  BY <1>2 DEF ToSet, At
<1>4. Spot(i, j, k)
  BY <1>1, <1>2, <1>3 DEF Spot
<1> QED BY <1>3, <1>4

LEMMA SpotUnique ==
  ASSUME NEW i, NEW j, NEW k, Spot(i, j, k), NEW i2, NEW j2, NEW k2, Spot(i2, j2, k2),
         At(i, j, k).id = At(i2, j2, k2).id
  PROVE  i = i2 /\ j = j2 /\ k = k2
BY ChainAssumption DEF IdsOwn, Spot, At

LEMMA SpotFacts ==
  ASSUME NEW i, NEW j, NEW k, Spot(i, j, k)
  PROVE  /\ At(i, j, k) \in Edit
         /\ At(i, j, k) \in EditsOf(Chain[i].script)
         /\ At(i, j, k) \in AllEdits
         /\ At(i, j, k).id \in EditIds
         /\ At(i, j, k).hard
         /\ Chain[i].script \in Scripts
<1>1. i \in DOMAIN Chain /\ j \in DOMAIN Chain[i].script.stages
      /\ k \in DOMAIN Chain[i].script.stages[j].edits /\ At(i, j, k).id \in RequiredIds
  BY DEF Spot
<1>2. Chain[i].script \in AScript /\ Chain[i].script \in Scripts
  BY <1>1, ChainFacts
<1>3. Chain[i].script.stages[j].edits \in Seq(Edit)
  BY <1>1, <1>2, ScriptFacts
<1>4. At(i, j, k) \in Edit
  BY <1>1, <1>3 DEF At
<1>5. At(i, j, k) \in EditsOf(Chain[i].script)
  BY <1>1 DEF At, EditsOf, ToSet
<1>6. At(i, j, k) \in AllEdits
  BY <1>2, <1>5 DEF AllEdits
<1>7. At(i, j, k).hard
  <2>1. PICK e \in HardEdits : e.id = At(i, j, k).id
    BY <1>1 DEF RequiredIds
  <2>2. e \in AllEdits /\ e.hard /\ e.id \in RequiredIds
    BY <1>1, <2>1 DEF HardEdits
  <2>3. PICK i2, j2, k2 : Spot(i2, j2, k2) /\ At(i2, j2, k2) = e
    BY <2>2, EditSpot
  <2>4. i = i2 /\ j = j2 /\ k = k2
    BY <2>1, <2>3, SpotUnique
  <2> QED BY <2>2, <2>3, <2>4
<1> QED BY <1>1, <1>2, <1>4, <1>5, <1>6, <1>7, RequiredAreIds

\* The patches carry no marker of a required edit.
LEMMA SpotNotFolded ==
  ASSUME NEW i, NEW j, NEW k, Spot(i, j, k),
         NEW m \in SkipMarks(Chain[i].script, j, At(i, j, k))
  PROVE  ~Present(Patched, m)
<1> DEFINE s == Chain[i].script
           e == At(i, j, k)
<1>1. SUFFICES ASSUME Present(Patched, m) PROVE FALSE
  OBVIOUS
<1>2. s \in Scripts /\ j \in DOMAIN s.stages /\ e.id \in RequiredIds
  BY SpotFacts DEF Spot
<1>3. e \in ToSet(s.stages[j].edits)
  BY DEF Spot, At, ToSet
<1>4. e \in {x \in ToSet(s.stages[j].edits) : \E mm \in SkipMarks(s, j, x) : Present(Patched, mm)}
  BY <1>1, <1>3
<1> HIDE DEF e, s
<1>5. e.id \in Folded
  BY <1>2, <1>4 DEF Folded
<1> QED BY <1>2, <1>5 DEF RequiredIds

\* Only its own edit leaves the text of a required edit.
LEMMA SpotMaker ==
  ASSUME NEW i, NEW j, NEW k, Spot(i, j, k), NEW i2 \in DOMAIN Chain, NEW rd \in BOOLEAN,
         NEW j2 \in DOMAIN StagesOf(i2, rd), NEW x \in ToSet(StagesOf(i2, rd)[j2].edits)
  PROVE  /\ At(i, j, k).id # x.old /\ At(i, j, k).id \notin x.cut \cup x.new
         /\ \A f : Makes(x, <<f, At(i, j, k).id>>) => ~rd /\ i2 = i /\ j2 = j
<1> DEFINE id == At(i, j, k).id
<1>1. x \in EditsOf(Chain[i2].script) \cup RedoEdits(Chain[i2].script)
  BY StagesFacts
<1>2. Chain[i2].script \in Scripts
  BY ChainFacts
<1>3. x \in MadeEdits /\ id # x.old /\ id \notin x.cut
  BY <1>1, <1>2, ScriptEdits, SpotFacts
<1>4. id \in RequiredIds
  BY DEF Spot
<1>5. id \notin x.new
  BY <1>3, <1>4, ChainAssumption DEF IdsOwn
<1>6. ASSUME NEW f, Makes(x, <<f, id>>) PROVE ~rd /\ i2 = i /\ j2 = j
  <2>1. x.id = id
    BY <1>5, <1>6 DEF Makes
  <2>2. CASE rd
    <3>1. x \in RedoEdits(Chain[i2].script)
      BY <2>2 DEF StagesOf, RedoEdits
    <3> QED BY <1>2, <1>4, <2>1, <3>1, ChainAssumption DEF IdsOwn
  <2>3. CASE ~rd
    <3>1. PICK k2 \in DOMAIN Chain[i2].script.stages[j2].edits : x = At(i2, j2, k2)
      BY <2>3 DEF StagesOf, ToSet, At
    <3>2. Spot(i2, j2, k2)
      BY <1>4, <2>1, <2>3, <3>1 DEF Spot, StagesOf
    <3> QED BY <2>1, <2>3, <3>1, <3>2, SpotUnique
  <2> QED BY <2>2, <2>3
<1> QED BY <1>3, <1>5, <1>6

-----------------------------------------------------------------------------
(* The tree a job starts from.                                             *)

LEMMA DriftCases ==
  ASSUME NEW d \in Drifts
  PROVE  /\ d.kind \in {"none", "absent", "lost", "twice"}
         /\ d.kind \in {"lost", "twice"} => /\ d.file \in Files
                                            /\ d.passage \in BagToSet(Patched[d.file])
<1>1. CASE d = NoDrift
  BY <1>1 DEF NoDrift
<1>2. CASE d \in [kind : {"absent"}, file : Files, passage : {""}]
  BY <1>2
<1>3. ASSUME NEW f \in Files,
             d \in [kind : {"lost", "twice"}, file : {f}, passage : BagToSet(Patched[f])]
      PROVE  d.kind \in {"lost", "twice"} /\ d.file \in Files
             /\ d.passage \in BagToSet(Patched[d.file])
  BY <1>3
<1> QED BY <1>1, <1>2, <1>3, Zenon DEF Drifts

LEMMA PreparedFacts ==
  ASSUME NEW d \in Drifts
  PROVE  /\ IsTree(PreparedTree(d))
         /\ DOMAIN PreparedTree(d) \subseteq Files
         /\ d.kind # "absent" => DOMAIN PreparedTree(d) = Files
         /\ \A f \in DOMAIN PreparedTree(d) : DOMAIN PreparedTree(d)[f] \subseteq DOMAIN Patched[f]
<1> DEFINE T == PreparedTree(d)
<1>0. IsTree(Patched) /\ Files = DOMAIN Patched
  BY ChainFacts DEF Files
<1>1. CASE d.kind = "none"
  <2>1. T = Patched
    BY <1>1 DEF PreparedTree
  <2> QED BY <1>0, <2>1
<1>2. CASE d.kind = "absent"
  <2>1. T = [f \in Files \ {d.file} |-> Patched[f]]
    BY <1>2 DEF PreparedTree
  <2> HIDE DEF T
  <2> QED BY <1>0, <1>2, <2>1 DEF IsTree, T
<1>3. CASE d.kind \in {"lost", "twice"}
  <2>1. d.file \in Files /\ d.passage \in DOMAIN Patched[d.file]
    BY <1>3, DriftCases DEF BagToSet
  <2> DEFINE c == Patched[d.file]
             one == SetToBag({d.passage})
  <2>2. IsABag(c)
    BY <1>0, <2>1 DEF IsTree
  <2>3. DOMAIN one = {d.passage} /\ one[d.passage] = 1
    BY DEF SetToBag
  <2> HIDE DEF one
  <2>4. IsABag(c (-) one) /\ DOMAIN (c (-) one) \subseteq DOMAIN c
    BY <2>2, <2>3 DEF IsABag, (-)
  <2>5. IsABag(c (+) one) /\ DOMAIN (c (+) one) \subseteq DOMAIN c
    BY <2>1, <2>2, <2>3 DEF IsABag, (+)
  <2>6. PICK w : T = [Patched EXCEPT ![d.file] = w] /\ IsABag(w) /\ DOMAIN w \subseteq DOMAIN c
    <3>1. CASE d.kind = "lost"
      <4>1. T = [Patched EXCEPT ![d.file] = c (-) one]
        BY <3>1 DEF PreparedTree, one
      <4> QED BY <2>4, <4>1
    <3>2. CASE d.kind = "twice"
      <4>1. T = [Patched EXCEPT ![d.file] = c (+) one]
        BY <3>2 DEF PreparedTree, one
      <4> QED BY <2>5, <4>1
    <3> QED BY <1>3, <3>1, <3>2
  <2> HIDE DEF T
  <2>7. /\ DOMAIN T = Files /\ T = [f \in Files |-> T[f]]
        /\ T[d.file] = w /\ \A f \in Files : f # d.file => T[f] = Patched[f]
    BY <1>0, <2>1, <2>6 DEF IsTree
  <2>8. IsTree(T)
    BY <1>0, <2>6, <2>7 DEF IsTree
  <2>9. \A f \in Files : DOMAIN T[f] \subseteq DOMAIN Patched[f]
    BY <2>6, <2>7
  <2> QED BY <2>7, <2>8, <2>9 DEF T
<1>4. d.kind \in {"none", "absent", "lost", "twice"}
  BY DriftCases
<1> QED BY <1>1, <1>2, <1>3, <1>4

-----------------------------------------------------------------------------
(* How far the required edits have got, when the job is at stage st of     *)
(* script p and the files, in memory or on disk, are those of T.           *)

Past(p, st, i, j) == i < p \/ (i = p /\ j < st)

PassedOver(D, i) == ~((Chain[i].guard \cup Chain[i].script.exists) \subseteq D)

StageMarks(i, j, k) ==
    Chain[i].script.stages[j].unless \cup ({At(i, j, k).file} \X At(i, j, k).mark)

\* The edit is in the tree once its stage is over, and until then neither it
\* nor anything that would make it be skipped.
WholeSpot(T, p, st, rd, i, j, k) ==
    /\ Past(p, st, i, j) /\ ~PassedOver(DOMAIN T, i) =>
         At(i, j, k).file \in DOMAIN T /\ Copies(At(i, j, k).id, T[At(i, j, k).file]) = 1
    /\ ~Past(p, st, i, j) \/ PassedOver(DOMAIN T, i) =>
         \A f \in DOMAIN T : At(i, j, k).id \notin DOMAIN T[f]
    /\ ~Past(p, st, i, j) => \A m \in StageMarks(i, j, k) : ~Present(T, m)
    /\ p < i \/ (p = i /\ st = 0) => \A m \in Chain[i].script.done : ~Present(T, m)
    /\ p = i /\ st > 0 => rd = FALSE

Whole(T, p, st, rd) ==
    /\ st > 0 => ~PassedOver(DOMAIN T, p)
    /\ \A i, j, k : Spot(i, j, k) => WholeSpot(T, p, st, rd, i, j, k)

LEMMA SpotRange ==
  ASSUME NEW i, NEW j, NEW k, Spot(i, j, k)
  PROVE  i \in Nat /\ j \in Nat /\ i > 0 /\ j > 0 /\ i <= Len(Chain)
         /\ j <= Len(Chain[i].script.stages) /\ Len(Chain[i].script.stages) \in Nat
<1>1. i \in 1..Len(Chain) /\ Len(Chain) \in Nat /\ Chain[i].script \in AScript
  BY ChainFacts DEF Spot
<1>2. Chain[i].script.stages \in Seq(AStage)
  BY <1>1, ScriptFacts
<1> DEFINE ss == Chain[i].script.stages
<1> HIDE DEF ss
<1>3. ss \in Seq(AStage) /\ j \in DOMAIN ss
  BY <1>2 DEF Spot, ss
<1>4. j \in 1..Len(ss) /\ Len(ss) \in Nat
  BY <1>3
<1> QED BY <1>1, <1>4 DEF ss

LEMMA SpotMarks ==
  ASSUME NEW i, NEW j, NEW k, Spot(i, j, k)
  PROVE  /\ StageMarks(i, j, k) \subseteq SkipMarks(Chain[i].script, j, At(i, j, k))
         /\ Chain[i].script.done \subseteq SkipMarks(Chain[i].script, j, At(i, j, k))
BY DEF StageMarks, SkipMarks

\* What would make a required edit be skipped is not made before its turn.
LEMMA MarkFresh ==
  ASSUME NEW i, NEW j, NEW k, Spot(i, j, k), NEW p \in DOMAIN Chain, NEW rd \in BOOLEAN,
         NEW st \in DOMAIN StagesOf(p, rd), NEW x \in ToSet(StagesOf(p, rd)[st].edits), NEW m
  PROVE  /\ p < i /\ m \in SkipMarks(Chain[i].script, j, At(i, j, k)) => ~Makes(x, m)
         /\ p = i /\ ~rd /\ st < j /\ m \in StageMarks(i, j, k) => ~Makes(x, m)
<1> DEFINE s == Chain[i].script
           es == s.stages[j].edits
<1>0. i \in DOMAIN Chain /\ j \in DOMAIN s.stages /\ k \in DOMAIN es /\ es[k].id \in RequiredIds
      /\ es[k] = At(i, j, k)
  BY DEF Spot, At
<1>1. /\ \A h \in 1..(i - 1) : \A mm \in SkipMarks(s, j, es[k]) :
           \A y \in EditsOf(Chain[h].script) \cup RedoEdits(Chain[h].script) : ~Makes(y, mm)
      /\ \A h \in 1..(j - 1) :
           \A mm \in s.stages[j].unless \cup ({es[k].file} \X es[k].mark) :
             \A y \in ToSet(s.stages[h].edits) : ~Makes(y, mm)
  BY <1>0, ChainAssumption DEF MarksFresh
<1>2. i \in Nat /\ j \in Nat /\ p \in 1..Len(Chain) /\ Len(Chain) \in Nat
  BY ChainFacts, SpotRange
<1>3. x \in EditsOf(Chain[p].script) \cup RedoEdits(Chain[p].script)
  BY StagesFacts
<1>4. ASSUME p < i, m \in SkipMarks(s, j, At(i, j, k)) PROVE ~Makes(x, m)
  <2>1. p \in 1..(i - 1)
    BY <1>2, <1>4
  <2> HIDE DEF s, es
  <2> QED BY <1>0, <1>1, <1>3, <1>4, <2>1
<1>5. ASSUME p = i, ~rd, st < j, m \in StageMarks(i, j, k) PROVE ~Makes(x, m)
  <2>1. StagesOf(p, rd) = s.stages
    BY <1>5 DEF StagesOf
  <2>2. s.stages \in Seq(AStage)
    BY <1>0, ChainFacts, ScriptFacts
  <2>3. st \in 1..(j - 1)
    BY <1>2, <1>5, <2>1, <2>2
  <2>4. m \in s.stages[j].unless \cup ({es[k].file} \X es[k].mark)
    BY <1>0, <1>5 DEF StageMarks
  <2> HIDE DEF s, es
  <2> QED BY <1>1, <2>1, <2>3, <2>4
<1> QED BY <1>4, <1>5

LEMMA MarkFreshHere ==
  ASSUME NEW i, NEW j, NEW k, Spot(i, j, k), NEW m \in At(i, j, k).mark, NEW h \in 1..(k - 1)
  PROVE  ~Makes(At(i, j, h), <<At(i, j, k).file, m>>)
<1> DEFINE es == Chain[i].script.stages[j].edits
<1>0. i \in DOMAIN Chain /\ j \in DOMAIN Chain[i].script.stages /\ k \in DOMAIN es
      /\ es[k].id \in RequiredIds /\ es[k] = At(i, j, k) /\ es[h] = At(i, j, h)
  BY DEF Spot, At
<1>1. \A h2 \in 1..(k - 1) : \A mm \in {es[k].file} \X es[k].mark : ~Makes(es[h2], mm)
  BY <1>0, ChainAssumption DEF MarksFresh
<1>2. <<es[k].file, m>> \in {es[k].file} \X es[k].mark
  BY <1>0
<1> QED BY <1>0, <1>1, <1>2

\* A passage that was not there before a stage was made by it.
LEMMA StageMakes ==
  ASSUME NEW T, IsTree(T), NEW s \in AStage, NEW m,
         ~Present(T, m), Present(EvalStage(T, s).tree, m)
  PROVE  \E x \in ToSet(s.edits) : Makes(x, m)
<1> DEFINE q == EvalStage(T, s)
           z == [ok |-> TRUE, tree |-> T]
<1>1. IsOutcome(q, DOMAIN T) /\ Goes(z, q, ToSet(s.edits))
  BY StageOutcome
<1>2. m[1] \in DOMAIN T /\ m[2] \in DOMAIN q.tree[m[1]] /\ m[2] \notin DOMAIN T[m[1]]
  BY <1>1 DEF Present, BagIn, BagToSet, IsOutcome
<1> HIDE DEF q
<1>3. \A f \in DOMAIN T : \A t \in DOMAIN q.tree[f] :
         t \in DOMAIN T[f] \/ \E x \in ToSet(s.edits) : Makes(x, <<f, t>>)
  BY <1>1 DEF Goes
<1>4. PICK x \in ToSet(s.edits) : Makes(x, <<m[1], m[2]>>)
  BY <1>2, <1>3
<1>5. Makes(x, m)
  BY <1>4 DEF Makes
<1> QED BY <1>5

LEMMA WholePrepared ==
  ASSUME NEW d \in Drifts
  PROVE  Whole(PreparedTree(d), 1, 0, FALSE)
<1> DEFINE T == PreparedTree(d)
<1>1. DOMAIN T \subseteq Files /\ \A f \in DOMAIN T : DOMAIN T[f] \subseteq DOMAIN Patched[f]
  BY PreparedFacts
<1> HIDE DEF T
<1>2. ASSUME NEW m, ~Present(Patched, m) PROVE ~Present(T, m)
  BY <1>1, <1>2 DEF Present, BagIn, BagToSet, Files
<1>3. ASSUME NEW i, NEW j, NEW k, Spot(i, j, k) PROVE WholeSpot(T, 1, 0, FALSE, i, j, k)
  <2>1. i \in Nat /\ i > 0 /\ j \in Nat /\ j > 0
    BY <1>3, SpotRange
  <2>2. ~Past(1, 0, i, j)
    BY <2>1 DEF Past
  <2>3. \A m \in SkipMarks(Chain[i].script, j, At(i, j, k)) : ~Present(T, m)
    BY <1>2, <1>3, SpotNotFolded
  <2>4. \A f \in DOMAIN T : At(i, j, k).id \notin DOMAIN T[f]
    <3>1. At(i, j, k).id \in EditIds
      BY <1>3, SpotFacts
    <3>2. \A f \in Files : At(i, j, k).id \notin DOMAIN Patched[f]
      BY <3>1, ChainAssumption DEF IdsKept, BagToSet
    <3> QED BY <1>1, <3>2
  <2>5. /\ \A m \in StageMarks(i, j, k) : ~Present(T, m)
        /\ \A m \in Chain[i].script.done : ~Present(T, m)
    BY <1>3, <2>3, SpotMarks
  <2> QED BY <2>2, <2>4, <2>5 DEF WholeSpot
<1>4. ~(0 > 0)
  OBVIOUS
<1>5. Whole(T, 1, 0, FALSE)
  BY <1>3, <1>4, Zenon DEF Whole
<1> QED BY <1>5 DEF T

LEMMA WholeBegin ==
  ASSUME NEW T, NEW p \in DOMAIN Chain, NEW rd0, Whole(T, p, 0, rd0),
         Chain[p].guard \subseteq DOMAIN T,
         Verdict(T, Chain[p].script) \in {"redo", "apply"},
         NEW rd, rd = (Verdict(T, Chain[p].script) = "redo")
  PROVE  Whole(T, p, 1, rd)
<1> DEFINE s == Chain[p].script
<1>0. p \in Nat
  BY ChainFacts
<1>1. s.exists \subseteq DOMAIN T
  BY DEF Verdict
<1>2. ~PassedOver(DOMAIN T, p)
  BY <1>1 DEF PassedOver
<1>3. ASSUME NEW i, NEW j, NEW k, Spot(i, j, k) PROVE WholeSpot(T, p, 1, rd, i, j, k)
  <2>1. i \in Nat /\ i > 0 /\ j \in Nat /\ j > 0
    BY <1>3, SpotRange
  <2>2. Past(p, 1, i, j) <=> Past(p, 0, i, j)
    BY <1>0, <2>1 DEF Past
  <2>3. WholeSpot(T, p, 0, rd0, i, j, k)
    BY <1>3 DEF Whole
  <2>4. ASSUME p = i PROVE rd = FALSE
    <3>1. \A m \in s.done : ~Present(T, m)
      BY <2>3, <2>4 DEF WholeSpot
    <3>2. ASSUME Verdict(T, s) = "redo" PROVE FALSE
      <4>1. s.done # {} /\ {m \in s.done : Present(T, m)} = s.done
        BY <3>2 DEF Verdict
      <4> QED BY <3>1, <4>1
    <3> QED BY <3>2
  <2>5. p < i \/ (p = i /\ 1 = 0) => p < i \/ (p = i /\ 0 = 0)
    OBVIOUS
  <2> QED BY <2>2, <2>3, <2>4, <2>5 DEF WholeSpot
<1> QED BY <1>2, <1>3 DEF Whole

LEMMA WholeStage ==
  ASSUME NEW T, IsTree(T), NEW p \in DOMAIN Chain, NEW rd \in BOOLEAN,
         NEW st \in DOMAIN StagesOf(p, rd), Whole(T, p, st, rd),
         EvalStage(T, StagesOf(p, rd)[st]).ok
  PROVE  Whole(EvalStage(T, StagesOf(p, rd)[st]).tree, p, st + 1, rd)
<1> DEFINE s == StagesOf(p, rd)[st]
           q == EvalStage(T, s)
           R == q.tree
           X == ToSet(s.edits)
<1>0. p \in Nat /\ st \in Nat /\ st > 0 /\ s \in AStage
  <2>1. p \in Nat
    BY ChainFacts
  <2>2. StagesOf(p, rd) \in Seq(AStage) /\ s \in AStage
    BY StagesFacts
  <2>3. st \in Nat /\ st > 0
    BY <2>2
  <2> QED BY <2>1, <2>2, <2>3
<1>1. IsOutcome(q, DOMAIN T) /\ Goes([ok |-> TRUE, tree |-> T], q, X)
  BY <1>0, StageOutcome
<1>2. DOMAIN R = DOMAIN T
  BY <1>1 DEF IsOutcome
<1>3. ~PassedOver(DOMAIN T, p)
  BY <1>0 DEF Whole
<1>4. ASSUME NEW m, ~Present(T, m), Present(R, m) PROVE \E x \in X : Makes(x, m)
  BY <1>0, <1>4, StageMakes
<1>5. \A f \in DOMAIN T : \A t :
         (\A x \in X : t # x.old /\ t \notin x.cut /\ ~Makes(x, <<f, t>>)) =>
            Copies(t, R[f]) = Copies(t, T[f])
  BY <1>1 DEF Goes
<1>6. ASSUME NEW i, NEW j, NEW k, Spot(i, j, k) PROVE WholeSpot(R, p, st + 1, rd, i, j, k)
  <2> DEFINE e == At(i, j, k)
  <2>1. i \in Nat /\ i > 0 /\ j \in Nat /\ j > 0
    BY <1>6, SpotRange
  <2>2. WholeSpot(T, p, st, rd, i, j, k)
    BY <1>6 DEF Whole
  <2>3. Past(p, st + 1, i, j) <=> Past(p, st, i, j) \/ (i = p /\ j = st)
    BY <1>0, <2>1 DEF Past
  <2>4. ~Past(p, st, i, j) <=> p < i \/ (i = p /\ st <= j)
    BY <1>0, <2>1 DEF Past
  <2>5. \A x \in X : /\ e.id # x.old /\ e.id \notin x.cut \cup x.new
                     /\ \A f : Makes(x, <<f, e.id>>) => ~rd /\ p = i /\ st = j
    BY <1>6, SpotMaker
  <2>6. p = i => rd = FALSE
    BY <1>0, <2>2 DEF WholeSpot
  <2>7. ASSUME ~Past(p, st, i, j) PROVE
           /\ \A f \in DOMAIN T : e.id \notin DOMAIN T[f]
           /\ \A m \in StageMarks(i, j, k) : ~Present(T, m)
    BY <2>2, <2>7 DEF WholeSpot
  <2>8. ASSUME Past(p, st + 1, i, j), ~PassedOver(DOMAIN R, i)
        PROVE  e.file \in DOMAIN R /\ Copies(e.id, R[e.file]) = 1
    <3>1. CASE Past(p, st, i, j)
      <4>1. e.file \in DOMAIN T /\ Copies(e.id, T[e.file]) = 1
        BY <1>2, <2>2, <2>8, <3>1 DEF WholeSpot
      <4>2. ~(p = i /\ st = j)
        BY <1>0, <2>1, <3>1 DEF Past
      <4> HIDE DEF R, X, e
      <4>3. \A x \in X : e.id # x.old /\ e.id \notin x.cut /\ ~Makes(x, <<e.file, e.id>>)
        BY <2>5, <4>2
      <4> QED BY <1>2, <1>5, <4>1, <4>3
    <3>2. CASE ~Past(p, st, i, j)
      <4>1. i = p /\ j = st /\ rd = FALSE
        BY <2>3, <2>6, <2>8, <3>2
      <4>2. s = Chain[i].script.stages[j] /\ \A h : s.edits[h] = At(i, j, h)
        BY <4>1 DEF StagesOf, At
      <4>3. k \in DOMAIN s.edits /\ e.hard
        BY <1>6, <4>2, SpotFacts DEF Spot
      <4>4. ~Marked(T, s.unless)
        BY <2>7, <3>2, <4>2 DEF Marked, AllPresent, StageMarks
      <4>5. \A m \in e.mark : ~Present(T, <<e.file, m>>)
        BY <2>7, <3>2 DEF StageMarks
      <4>6. \A m \in e.mark : \A h \in 1..(k - 1) : ~Makes(s.edits[h], <<e.file, m>>)
        BY <1>6, <4>2, MarkFreshHere
      <4>7. \A x \in ToSet(s.edits) : e.id # x.old /\ e.id \notin x.cut \cup x.new
        BY <2>5
      <4>8. ASSUME NEW h \in DOMAIN s.edits, s.edits[h].id = e.id PROVE h = k
        <5>1. Spot(i, j, h)
          BY <1>6, <4>2, <4>8 DEF Spot
        <5> QED BY <1>6, <4>2, <4>8, <5>1, SpotUnique
      <4>9. ~Present(T, <<e.file, e.id>>)
        BY <2>7, <3>2 DEF Present, BagIn, BagToSet
      <4>10. s.edits[k] = e /\ q.ok
        BY <4>2
      <4> HIDE DEF e, s
      <4>11. e.file \in DOMAIN T /\ Copies(e.id, EvalStage(T, s).tree[e.file]) = 1
        BY <1>0, <4>3, <4>4, <4>5, <4>6, <4>7, <4>8, <4>9, <4>10, StageLands
      <4> QED BY <1>2, <4>11
    <3> QED BY <3>1, <3>2
  <2>9. ASSUME ~Past(p, st + 1, i, j) \/ PassedOver(DOMAIN R, i), NEW f \in DOMAIN R,
               e.id \in DOMAIN R[f]
        PROVE  FALSE
    <3>1. e.id \notin DOMAIN T[f]
      BY <1>2, <2>2, <2>3, <2>9 DEF WholeSpot
    <3>2. ~Present(T, <<f, e.id>>) /\ Present(R, <<f, e.id>>)
      BY <2>9, <3>1 DEF Present, BagIn, BagToSet
    <3>3. \E x \in X : Makes(x, <<f, e.id>>)
      BY <1>4, <3>2
    <3>4. p = i /\ st = j
      BY <2>5, <3>3
    <3> QED BY <1>2, <1>3, <2>3, <2>9, <3>4
  <2>10. ASSUME ~Past(p, st + 1, i, j), NEW m \in StageMarks(i, j, k), Present(R, m)
         PROVE  FALSE
    <3>1. ~Past(p, st, i, j) /\ ~(i = p /\ j = st)
      BY <2>3, <2>10
    <3>2. PICK x \in X : Makes(x, m)
      BY <1>4, <2>7, <2>10, <3>1
    <3>3. m \in SkipMarks(Chain[i].script, j, At(i, j, k))
      BY <1>6, <2>10, SpotMarks
    <3>4. CASE p < i
      BY <1>6, <3>2, <3>3, <3>4, MarkFresh
    <3>5. CASE p = i
      <4>1. st < j /\ ~rd
        BY <1>0, <2>1, <2>4, <2>6, <3>1, <3>5
      <4> QED BY <1>6, <2>10, <3>2, <3>5, <4>1, MarkFresh
    <3> QED BY <2>4, <3>1, <3>4, <3>5
  <2>11. ASSUME p < i \/ (p = i /\ st + 1 = 0), NEW m \in Chain[i].script.done, Present(R, m)
         PROVE  FALSE
    <3>1. p < i
      BY <1>0, <2>11
    <3>2. ~Present(T, m)
      BY <2>2, <2>11, <3>1 DEF WholeSpot
    <3>3. PICK x \in X : Makes(x, m)
      BY <1>4, <2>11, <3>2
    <3>4. m \in SkipMarks(Chain[i].script, j, At(i, j, k))
      BY <1>6, <2>11, SpotMarks
    <3> QED BY <1>6, <3>1, <3>3, <3>4, MarkFresh
  <2> HIDE DEF R, e
  <2> QED BY <2>6, <2>8, <2>9, <2>10, <2>11 DEF WholeSpot, e
<1> HIDE DEF R
<1>7. Whole(R, p, st + 1, rd)
  BY <1>2, <1>3, <1>6 DEF Whole
<1> QED BY <1>7 DEF R

LEMMA WholeNext ==
  ASSUME NEW T, NEW p \in DOMAIN Chain, NEW rd \in BOOLEAN, NEW st \in Nat, Whole(T, p, st, rd),
         \/ st = 0 /\ PassedOver(DOMAIN T, p)
         \/ st = Len(StagesOf(p, rd)) + 1
  PROVE  Whole(T, p + 1, 0, FALSE)
<1>0. p \in Nat
  BY ChainFacts
<1>1. ASSUME NEW i, NEW j, NEW k, Spot(i, j, k) PROVE WholeSpot(T, p + 1, 0, FALSE, i, j, k)
  <2>1. /\ i \in Nat /\ i > 0 /\ j \in Nat /\ j > 0
        /\ j <= Len(Chain[i].script.stages) /\ Len(Chain[i].script.stages) \in Nat
    BY <1>1, SpotRange
  <2>2. WholeSpot(T, p, st, rd, i, j, k)
    BY <1>1 DEF Whole
  <2>3. Past(p + 1, 0, i, j) <=> i <= p
    BY <1>0, <2>1 DEF Past
  <2>4. CASE i # p
    <3>1. Past(p, st, i, j) <=> i <= p
      BY <1>0, <2>1, <2>4 DEF Past
    <3>2. p + 1 < i \/ (p + 1 = i /\ 0 = 0) => p < i
      BY <1>0, <2>1
    <3> QED BY <2>2, <2>3, <3>1, <3>2 DEF WholeSpot
  <2>5. CASE i = p /\ st = 0 /\ PassedOver(DOMAIN T, p)
    <3>1. ~Past(p, st, i, j) /\ Past(p + 1, 0, i, j) /\ ~(p + 1 < i) /\ p + 1 # i
      BY <1>0, <2>1, <2>3, <2>5 DEF Past
    <3> QED BY <2>2, <2>5, <3>1 DEF WholeSpot
  <2>6. CASE i = p /\ st = Len(StagesOf(p, rd)) + 1
    <3>1. StagesOf(p, rd) \in Seq(AStage)
      BY StagesFacts
    <3>2. st > 0
      BY <2>6, <3>1
    <3>3. rd = FALSE
      BY <2>2, <2>6, <3>2 DEF WholeSpot
    <3>4. j < st
      BY <2>1, <2>6, <3>3 DEF StagesOf
    <3>5. Past(p, st, i, j) /\ Past(p + 1, 0, i, j) /\ ~(p + 1 < i) /\ p + 1 # i
      BY <1>0, <2>1, <2>3, <2>6, <3>4 DEF Past
    <3> QED BY <2>2, <3>5 DEF WholeSpot
  <2> QED BY <2>4, <2>5, <2>6
<1>2. ~(0 > 0)
  OBVIOUS
<1> QED BY <1>1, <1>2, Zenon DEF Whole

-----------------------------------------------------------------------------
(* The state of a job.                                                     *)

\* Once the script at pc is over, where the job stands; its files as it sees
\* them, whatever part of them is already written.
Pos  == IF phase = "built" THEN Len(Chain) + 1 ELSE pc
Stg  == IF phase = "built" THEN 0 ELSE stage
Seen == IF phase = "writing" THEN mem ELSE tree

\* The files of mem are being written to t, and out are still to come.
Writing(t, m, o) ==
    /\ IsTree(m) /\ DOMAIN m = DOMAIN t
    /\ o \in Seq(DOMAIN t) /\ o # <<>>
    /\ \A f \in DOMAIN t : f \notin ToSet(o) => t[f] = m[f]
    /\ \A f \in DOMAIN t : EditIds \cap DOMAIN t[f] \subseteq DOMAIN m[f]

TypeInv ==
    /\ phase \in {"idle", "running", "writing", "built", "failed", "killed"}
    /\ drift \in Drifts
    /\ hand \in Nat /\ (phase # "built" => hand = 0)
    /\ pc \in DOMAIN Chain /\ stage \in Nat /\ redo \in BOOLEAN
    /\ IsTree(tree) /\ DOMAIN tree = DOMAIN PreparedTree(drift)
    /\ phase = "writing" => Writing(tree, mem, out)

LEMMA EmptyBagIsBag == IsABag(EmptyBag)
BY DEF IsABag, EmptyBag, SetToBag

LEMMA TreeExcept ==
  ASSUME NEW t, IsTree(t), NEW f \in DOMAIN t, NEW c, IsABag(c)
  PROVE  IsTree([t EXCEPT ![f] = c]) /\ DOMAIN [t EXCEPT ![f] = c] = DOMAIN t
         /\ [t EXCEPT ![f] = c][f] = c
         /\ \A g \in DOMAIN t : g # f => [t EXCEPT ![f] = c][g] = t[g]
BY DEF IsTree

LEMMA TreesEqual ==
  ASSUME NEW t, NEW u, IsTree(t), IsTree(u), DOMAIN t = DOMAIN u, \A f \in DOMAIN t : t[f] = u[f]
  PROVE  t = u
BY DEF IsTree

LEMMA HeadTail ==
  ASSUME NEW S, NEW o \in Seq(S), o # <<>>
  PROVE  /\ Head(o) \in S /\ Head(o) \in ToSet(o) /\ Tail(o) \in Seq(S)
         /\ Len(o) \in Nat /\ Len(o) > 0
         /\ Len(o) = 1 => ToSet(o) = {Head(o)}
         /\ Len(o) # 1 => Tail(o) # <<>>
         /\ ToSet(o) \subseteq ToSet(Tail(o)) \cup {Head(o)}
<1>1. /\ Len(o) \in Nat /\ Len(o) > 0 /\ DOMAIN o = 1..Len(o) /\ Head(o) = o[1]
      /\ Tail(o) \in Seq(S) /\ DOMAIN Tail(o) = 1..(Len(o) - 1)
      /\ \A i \in 1..(Len(o) - 1) : Tail(o)[i] = o[i + 1]
      /\ Head(o) \in S /\ Len(Tail(o)) = Len(o) - 1
  OBVIOUS
<1>2. Head(o) \in ToSet(o)
  <2>1. 1 \in DOMAIN o
    BY <1>1
  <2> QED BY <1>1, <2>1 DEF ToSet
<1>3. ASSUME NEW i \in DOMAIN o PROVE o[i] \in ToSet(Tail(o)) \cup {Head(o)}
  <2>1. CASE i = 1
    BY <1>1, <2>1
  <2>2. CASE i # 1
    <3>1. i - 1 \in DOMAIN Tail(o) /\ Tail(o)[i - 1] = o[i]
      BY <1>1, <2>2
    <3> QED BY <3>1 DEF ToSet
  <2> QED BY <2>1, <2>2
<1>4. ASSUME Len(o) = 1, NEW i \in DOMAIN o PROVE o[i] = Head(o)
  BY <1>1, <1>4
<1>5. ASSUME Len(o) # 1 PROVE Tail(o) # <<>>
  <2>1. 1 \in DOMAIN Tail(o)
    BY <1>1, <1>5
  <2>2. DOMAIN <<>> = {}
    OBVIOUS
  <2> QED BY <2>1, <2>2
<1> QED BY <1>1, <1>2, <1>3, <1>4, <1>5 DEF ToSet

LEMMA TypeInit == Init => TypeInv
<1>1. SUFFICES ASSUME Init PROVE TypeInv
  OBVIOUS
<1>2. 1 \in DOMAIN Chain
  BY ChainFacts
<1>3. drift \in Drifts /\ tree = PreparedTree(drift)
  BY <1>1 DEF Init
<1>4. IsTree(tree)
  BY <1>3, PreparedFacts
<1> QED BY <1>1, <1>2, <1>3, <1>4 DEF Init, TypeInv

\* A stage that goes through is seen at once, and written file by file.
LEMMA RunStageSees ==
  ASSUME TypeInv, RunStage
  PROVE  /\ stage \in DOMAIN StagesOf(pc, redo)
         /\ EvalStage(tree, StagesOf(pc, redo)[stage]).ok
         /\ Seen' = EvalStage(tree, StagesOf(pc, redo)[stage]).tree
         /\ phase' \in {"running", "writing"} /\ stage' = stage + 1
         /\ phase' = "writing" => Writing(tree', mem', out')
<1> DEFINE s == StagesOf(pc, redo)[stage]
           r == EvalStage(tree, s)
           c == ChangedFiles(tree, r.tree, s.edits)
<1>0. phase = "running" /\ pc \in DOMAIN Chain /\ redo \in BOOLEAN /\ IsTree(tree)
  BY DEF TypeInv, RunStage
<1>1. Stages = StagesOf(pc, redo)
  BY DEF Stages, Current, StagesOf
<1>2. StagesOf(pc, redo) \in Seq(AStage)
  BY <1>0, StagesFacts
<1>3. stage \in DOMAIN StagesOf(pc, redo)
  BY <1>1, <1>2 DEF RunStage
<1>4. s \in AStage /\ s.edits \in Seq(Edit)
      /\ \A x \in ToSet(s.edits) : x \in EditsOf(Chain[pc].script) \cup RedoEdits(Chain[pc].script)
  BY <1>0, <1>3, StagesFacts
<1>5. r.ok /\ stage' = stage + 1 /\ tree' = tree
      /\ IF c = <<>> THEN phase' = phase /\ mem' = mem /\ out' = out
                     ELSE phase' = "writing" /\ mem' = r.tree /\ out' = c
  BY <1>1 DEF RunStage
<1> HIDE DEF s
<1>6. /\ IsOutcome(r, DOMAIN tree)
      /\ Goes([ok |-> TRUE, tree |-> tree], r, ToSet(s.edits))
      /\ Opens(s) \subseteq DOMAIN tree
  BY <1>0, <1>4, <1>5, StageOutcome
<1>7. FilesOf(s.edits) \subseteq DOMAIN tree
  BY <1>6 DEF Opens
<1>8. c \in Seq(FilesOf(s.edits)) /\ \A f \in FilesOf(s.edits) : f \notin ToSet(c) => r.tree[f] = tree[f]
  BY <1>4, ChangedWritten
<1>9. c \in Seq(DOMAIN tree)
  BY <1>7, <1>8
<1>10. IsTree(r.tree) /\ DOMAIN r.tree = DOMAIN tree
  BY <1>6 DEF IsOutcome
<1> HIDE DEF r
<1>11. ASSUME NEW f \in DOMAIN tree, f \notin ToSet(c) PROVE r.tree[f] = tree[f]
  <2>1. CASE f \in FilesOf(s.edits)
    BY <1>8, <1>11, <2>1
  <2>2. CASE f \notin FilesOf(s.edits)
    <3>1. \A x \in ToSet(s.edits) : x.file # f
      BY <2>2 DEF FilesOf
    <3> QED BY <1>6, <3>1 DEF Goes
  <2> QED BY <2>1, <2>2
<1>12. ASSUME NEW f \in DOMAIN tree, NEW id \in EditIds, id \in DOMAIN tree[f]
       PROVE  id \in DOMAIN r.tree[f]
  <2>1. Chain[pc].script \in Scripts
    BY <1>0, ChainFacts
  <2>2. \A x \in ToSet(s.edits) : id # x.old /\ id \notin x.cut
    BY <1>4, <2>1, ScriptEdits
  <2> QED BY <1>6, <1>12, <2>2 DEF Goes
<1> HIDE DEF c
<1>13. CASE c = <<>>
  <2>1. ToSet(c) = {}
    BY <1>13 DEF ToSet
  <2>2. r.tree = tree
    BY <1>0, <1>10, <1>11, <2>1, TreesEqual
  <2>3. Seen' = tree /\ phase' = "running"
    BY <1>0, <1>5, <1>13 DEF Seen
  <2> QED BY <1>3, <1>5, <2>2, <2>3 DEF r, s
<1>14. CASE c # <<>>
  <2>1. phase' = "writing" /\ mem' = r.tree /\ out' = c
    BY <1>5, <1>14
  <2>2. Seen' = r.tree
    BY <2>1 DEF Seen
  <2>3. Writing(tree, r.tree, c)
    BY <1>9, <1>10, <1>11, <1>12, <1>14 DEF Writing
  <2>4. Writing(tree', mem', out')
    BY <1>5, <2>1, <2>3
  <2> QED BY <1>3, <1>5, <2>1, <2>2, <2>4 DEF r, s
<1> QED BY <1>13, <1>14

\* Writing a file changes nothing the job sees.
LEMMA WriteFileSees ==
  ASSUME TypeInv, WriteFile
  PROVE  /\ IsTree(tree') /\ DOMAIN tree' = DOMAIN tree
         /\ Seen' = Seen /\ phase' \in {"running", "writing"}
         /\ phase' = "writing" => Writing(tree', mem', out')
         /\ \A f \in DOMAIN tree : EditIds \cap DOMAIN tree[f] \subseteq DOMAIN tree'[f]
<1> DEFINE h == Head(out)
<1>1. phase = "writing" /\ Writing(tree, mem, out) /\ IsTree(tree)
  BY DEF TypeInv, WriteFile
<1>2. /\ tree' = [tree EXCEPT ![h] = mem[h]] /\ out' = Tail(out)
      /\ IF Len(out) = 1 THEN phase' = "running" /\ mem' = <<>>
                         ELSE phase' = phase /\ mem' = mem
  BY DEF WriteFile
<1>3. /\ IsTree(mem) /\ DOMAIN mem = DOMAIN tree
      /\ out \in Seq(DOMAIN tree) /\ out # <<>>
      /\ \A f \in DOMAIN tree : f \notin ToSet(out) => tree[f] = mem[f]
      /\ \A f \in DOMAIN tree : EditIds \cap DOMAIN tree[f] \subseteq DOMAIN mem[f]
  BY <1>1 DEF Writing
<1>4. /\ h \in DOMAIN tree /\ h \in ToSet(out) /\ out' \in Seq(DOMAIN tree)
      /\ Len(out) \in Nat /\ Len(out) > 0
      /\ Len(out) = 1 => ToSet(out) = {h}
      /\ Len(out) # 1 => out' # <<>>
      /\ ToSet(out) \subseteq ToSet(out') \cup {h}
  BY <1>2, <1>3, HeadTail
<1>5. IsABag(mem[h])
  BY <1>3, <1>4 DEF IsTree
<1> HIDE DEF h
<1>6. /\ IsTree(tree') /\ DOMAIN tree' = DOMAIN tree /\ tree'[h] = mem[h]
      /\ \A f \in DOMAIN tree : f # h => tree'[f] = tree[f]
  BY <1>1, <1>2, <1>4, <1>5, TreeExcept
<1>7. \A f \in DOMAIN tree : EditIds \cap DOMAIN tree[f] \subseteq DOMAIN tree'[f]
  BY <1>3, <1>6
<1>8. \A f \in DOMAIN tree : EditIds \cap DOMAIN tree'[f] \subseteq DOMAIN mem[f]
  BY <1>3, <1>6
<1>9. \A f \in DOMAIN tree : f \notin ToSet(out') => tree'[f] = mem[f]
  BY <1>3, <1>4, <1>6
<1>10. CASE Len(out) = 1
  <2>1. phase' = "running"
    BY <1>2, <1>10
  <2>2. \A f \in DOMAIN tree : tree'[f] = mem[f]
    BY <1>3, <1>4, <1>6, <1>10
  <2>3. tree' = mem
    BY <1>3, <1>6, <2>2, TreesEqual
  <2>4. Seen' = Seen
    BY <1>1, <2>1, <2>3 DEF Seen
  <2> QED BY <1>6, <1>7, <2>1, <2>4
<1>11. CASE Len(out) # 1
  <2>1. phase' = "writing" /\ mem' = mem
    BY <1>1, <1>2, <1>11
  <2>2. Seen' = Seen
    BY <1>1, <2>1 DEF Seen
  <2>3. Writing(tree', mem', out')
    BY <1>3, <1>4, <1>6, <1>8, <1>9, <1>11, <2>1 DEF Writing
  <2> QED BY <1>6, <1>7, <2>1, <2>2, <2>3
<1> QED BY <1>10, <1>11

\* The next script, or the end.
LEMMA AdvanceTo ==
  ASSUME TypeInv, phase = "running", Advance
  PROVE  /\ Pos' = pc + 1 /\ Stg' = 0 /\ Seen' = tree
         /\ phase' \in {"running", "built"} /\ pc' \in DOMAIN Chain
         /\ stage' = 0 /\ redo' = FALSE /\ tree' = tree /\ drift' = drift /\ hand' = hand
<1>1. pc \in 1..Len(Chain) /\ Len(Chain) \in Nat /\ DOMAIN Chain = 1..Len(Chain)
  BY ChainFacts DEF TypeInv
<1>2. stage' = 0 /\ redo' = FALSE /\ tree' = tree /\ drift' = drift /\ hand' = hand
  BY DEF Advance
<1>3. CASE pc = Len(Chain)
  <2>1. phase' = "built" /\ pc' = pc
    BY <1>3 DEF Advance
  <2> QED BY <1>1, <1>2, <1>3, <2>1 DEF Pos, Stg, Seen
<1>4. CASE pc # Len(Chain)
  <2>1. phase' = "running" /\ pc' = pc + 1
    BY <1>4 DEF Advance
  <2>2. pc + 1 \in 1..Len(Chain)
    <3> DEFINE n == Len(Chain)
    <3>1. pc \in 1..n /\ n \in Nat /\ pc # n
      BY <1>1, <1>4
    <3> HIDE DEF n
    <3>2. pc + 1 \in 1..n
      BY <3>1
    <3> QED BY <3>2 DEF n
  <2> QED BY <1>1, <1>2, <2>1, <2>2 DEF Pos, Stg, Seen
<1> QED BY <1>3, <1>4

LEMMA TypeStep == TypeInv /\ [Next]_vars => TypeInv'
<1>1. SUFFICES ASSUME TypeInv, [Next]_vars PROVE TypeInv'
  OBVIOUS
<1> USE <1>1
<1>2. CASE Prepare
  <2>1. 1 \in DOMAIN Chain
    BY ChainFacts
  <2>2. drift \in Drifts /\ drift' = drift /\ tree' = PreparedTree(drift)
    BY <1>2 DEF Prepare, TypeInv
  <2>3. IsTree(tree')
    BY <2>2, PreparedFacts
  <2> QED BY <1>2, <2>1, <2>2, <2>3 DEF Prepare, TypeInv
<1>3. ASSUME phase = "running", Advance PROVE TypeInv'
  BY <1>3, AdvanceTo DEF TypeInv
<1>4. ASSUME phase = "running", Fail PROVE TypeInv'
  BY <1>4 DEF TypeInv, Fail
<1>5. CASE PassOver
  BY <1>3, <1>5 DEF PassOver
<1>6. CASE Begin
  <2>1. redo' \in BOOLEAN
    BY <1>6 DEF Begin
  <2> QED BY <1>6, <2>1 DEF Begin, TypeInv
<1>7. CASE Refuse
  BY <1>4, <1>7 DEF Refuse
<1>8. CASE RunStage
  <2>1. /\ phase' \in {"running", "writing"} /\ stage' = stage + 1
        /\ phase' = "writing" => Writing(tree', mem', out')
    BY <1>8, RunStageSees
  <2> QED BY <1>8, <2>1 DEF RunStage, TypeInv
<1>9. CASE StageFails
  BY <1>4, <1>9 DEF StageFails
<1>10. CASE WriteFile
  <2>1. /\ IsTree(tree') /\ DOMAIN tree' = DOMAIN tree
        /\ phase' \in {"running", "writing"}
        /\ phase' = "writing" => Writing(tree', mem', out')
    BY <1>10, WriteFileSees
  <2> QED BY <1>10, <2>1 DEF WriteFile, TypeInv
<1>11. CASE EndScript
  BY <1>3, <1>4, <1>11 DEF EndScript
<1>12. CASE Kill
  <2>1. IsTree(tree') /\ DOMAIN tree' = DOMAIN tree
    <3>1. CASE tree' = tree
      BY <3>1 DEF TypeInv
    <3>2. CASE phase = "writing" /\ tree' = [tree EXCEPT ![Head(out)] = EmptyBag]
      <4>1. Head(out) \in DOMAIN tree
        BY <3>2, HeadTail DEF TypeInv, Writing
      <4> QED BY <3>2, <4>1, EmptyBagIsBag, TreeExcept DEF TypeInv
    <3> QED BY <1>12, <3>1, <3>2 DEF Kill
  <2> QED BY <1>12, <2>1 DEF Kill, TypeInv
<1>13. ASSUME NEW s \in Scripts, HandRun(s) PROVE TypeInv'
  <2>1. s \in AScript
    BY ChainFacts DEF Scripts
  <2>2. tree' = RunScript(tree, s).tree
    BY <1>13 DEF HandRun
  <2>3. IsTree(tree') /\ DOMAIN tree' = DOMAIN tree
    BY <2>1, <2>2, RunScriptKeeps DEF TypeInv
  <2> QED BY <1>13, <2>3 DEF HandRun, TypeInv
<1>14. CASE vars' = vars
  BY <1>14 DEF vars, TypeInv
<1> QED BY <1>2, <1>5, <1>6, <1>7, <1>8, <1>9, <1>10, <1>11, <1>12, <1>13, <1>14 DEF Next

-----------------------------------------------------------------------------
(* No required edit is missed.                                             *)

WholeInv ==
    phase \in {"running", "writing", "built"} /\ hand = 0 => Whole(Seen, Pos, Stg, redo)

\* Of a finished tree, also after scripts were run by hand.
Kept(T) ==
    \A i, j, k : Spot(i, j, k) /\ ~PassedOver(DOMAIN T, i) =>
        At(i, j, k).file \in DOMAIN T /\ At(i, j, k).id \in DOMAIN T[At(i, j, k).file]

KeptInv == phase = "built" => Kept(tree)

LEMMA WholePassOver ==
  ASSUME TypeInv, PassOver
  PROVE  PassedOver(DOMAIN tree, pc)
<1>1. CASE ~(Chain[pc].guard \subseteq DOMAIN tree)
  BY <1>1 DEF PassedOver
<1>2. CASE Verdict(tree, Current) = "leave"
  <2>1. ~(Current.exists \subseteq DOMAIN tree)
    BY <1>2 DEF Verdict
  <2> QED BY <2>1 DEF PassedOver, Current
<1> QED BY <1>1, <1>2 DEF PassOver

LEMMA WholeStep ==
  ASSUME TypeInv, WholeInv, [Next]_vars
  PROVE  WholeInv'
<1>0. /\ pc \in DOMAIN Chain /\ stage \in Nat /\ redo \in BOOLEAN /\ IsTree(tree)
      /\ drift \in Drifts /\ hand \in Nat
  BY DEF TypeInv
<1>1. CASE Prepare
  <2>1. Seen' = PreparedTree(drift) /\ Pos' = 1 /\ Stg' = 0 /\ redo' = FALSE
    BY <1>1 DEF Prepare, Seen, Pos, Stg
  <2>2. Whole(Seen', Pos', Stg', redo')
    BY <1>0, <2>1, WholePrepared
  <2> QED BY <2>2 DEF WholeInv
<1>2. ASSUME phase = "running" PROVE (hand = 0 => Whole(tree, pc, stage, redo))
                                     /\ Seen = tree /\ Pos = pc /\ Stg = stage
  BY <1>2 DEF WholeInv, Seen, Pos, Stg
<1>3. CASE PassOver
  <2>1. phase = "running" /\ stage = 0 /\ Advance
    BY <1>3 DEF PassOver
  <2>2. PassedOver(DOMAIN tree, pc)
    BY <1>3, WholePassOver
  <2>3. hand = 0 => Whole(tree, pc + 1, 0, FALSE)
    BY <1>0, <1>2, <2>1, <2>2, WholeNext
  <2> QED BY <2>1, <2>3, AdvanceTo DEF WholeInv
<1>4. CASE Begin
  <2>1. /\ phase = "running" /\ stage = 0 /\ Chain[pc].guard \subseteq DOMAIN tree
        /\ Verdict(tree, Current) \in {"redo", "apply"}
        /\ redo' = (Verdict(tree, Current) = "redo")
        /\ stage' = 1 /\ tree' = tree /\ phase' = phase /\ pc' = pc /\ hand' = hand
    BY <1>4 DEF Begin
  <2>2. hand = 0 => Whole(tree, pc, 0, redo)
    BY <1>2, <2>1
  <2>3. Seen' = tree /\ Pos' = pc /\ Stg' = 1
    BY <2>1 DEF Seen, Pos, Stg
  <2>4. hand = 0 => Whole(tree, pc, 1, redo')
    BY <1>0, <2>1, <2>2, WholeBegin DEF Current
  <2> QED BY <2>1, <2>3, <2>4 DEF WholeInv
<1>5. ASSUME Fail PROVE WholeInv'
  BY <1>5 DEF Fail, WholeInv
<1>6. CASE Refuse \/ StageFails
  BY <1>5, <1>6 DEF Refuse, StageFails
<1>7. CASE RunStage
  <2>1. /\ stage \in DOMAIN StagesOf(pc, redo)
        /\ EvalStage(tree, StagesOf(pc, redo)[stage]).ok
        /\ Seen' = EvalStage(tree, StagesOf(pc, redo)[stage]).tree
        /\ phase' \in {"running", "writing"} /\ stage' = stage + 1
    BY <1>7, RunStageSees
  <2>2. phase = "running" /\ pc' = pc /\ redo' = redo /\ hand' = hand
    BY <1>7 DEF RunStage
  <2>3. Pos' = pc /\ Stg' = stage + 1
    BY <2>1, <2>2 DEF Pos, Stg
  <2>4. hand = 0 => Whole(Seen', pc, stage + 1, redo)
    BY <1>0, <1>2, <2>1, <2>2, WholeStage
  <2> QED BY <2>2, <2>3, <2>4 DEF WholeInv
<1>8. CASE WriteFile
  <2>1. Seen' = Seen /\ phase' \in {"running", "writing"}
    BY <1>8, WriteFileSees
  <2>2. phase = "writing" /\ pc' = pc /\ stage' = stage /\ redo' = redo /\ hand' = hand
    BY <1>8 DEF WriteFile
  <2>3. Pos' = Pos /\ Stg' = Stg
    BY <2>1, <2>2 DEF Pos, Stg
  <2> QED BY <2>1, <2>2, <2>3 DEF WholeInv
<1>9. CASE EndScript
  <2>1. phase = "running" /\ stage = Len(StagesOf(pc, redo)) + 1 /\ (Fail \/ Advance)
    BY <1>9 DEF EndScript, Stages, Current, StagesOf
  <2>2. hand = 0 => Whole(tree, pc + 1, 0, FALSE)
    BY <1>0, <1>2, <2>1, WholeNext
  <2>3. CASE Advance
    BY <2>1, <2>2, <2>3, AdvanceTo DEF WholeInv
  <2> QED BY <1>5, <2>1, <2>3
<1>10. CASE Kill
  BY <1>10 DEF Kill, WholeInv
<1>11. ASSUME NEW s \in Scripts, HandRun(s) PROVE WholeInv'
  BY <1>0, <1>11 DEF HandRun, WholeInv
<1>12. CASE vars' = vars
  <2>1. Seen' = Seen /\ Pos' = Pos /\ Stg' = Stg /\ phase' = phase /\ hand' = hand /\ redo' = redo
    BY <1>12 DEF vars, Seen, Pos, Stg
  <2> QED BY <2>1 DEF WholeInv
<1> QED BY <1>1, <1>3, <1>4, <1>6, <1>7, <1>8, <1>9, <1>10, <1>11, <1>12 DEF Next

LEMMA WholeKept ==
  ASSUME NEW T, IsTree(T), NEW rd, Whole(T, Len(Chain) + 1, 0, rd)
  PROVE  Kept(T)
<1>1. ASSUME NEW i, NEW j, NEW k, Spot(i, j, k), ~PassedOver(DOMAIN T, i)
      PROVE  At(i, j, k).file \in DOMAIN T /\ At(i, j, k).id \in DOMAIN T[At(i, j, k).file]
  <2>1. Past(Len(Chain) + 1, 0, i, j)
    <3>1. i \in Nat /\ i <= Len(Chain) /\ Len(Chain) \in Nat
      BY <1>1, SpotRange, ChainFacts
    <3> QED BY <3>1 DEF Past
  <2>2. WholeSpot(T, Len(Chain) + 1, 0, rd, i, j, k)
    BY <1>1 DEF Whole
  <2>3. At(i, j, k).file \in DOMAIN T /\ Copies(At(i, j, k).id, T[At(i, j, k).file]) = 1
    BY <1>1, <2>1, <2>2 DEF WholeSpot
  <2> QED BY <2>3 DEF Copies, BagIn, BagToSet
<1> QED BY <1>1 DEF Kept

\* A script run by hand takes no edit away.
LEMMA HandRunKeeps ==
  ASSUME TypeInv, NEW s \in Scripts, HandRun(s)
  PROVE  /\ DOMAIN tree' = DOMAIN tree
         /\ \A f \in DOMAIN tree : EditIds \cap DOMAIN tree[f] \subseteq DOMAIN tree'[f]
<1>1. s \in AScript /\ IsTree(tree) /\ tree' = RunScript(tree, s).tree
  BY ChainFacts DEF Scripts, TypeInv, HandRun
<1>2. /\ DOMAIN tree' = DOMAIN tree
      /\ \A f \in DOMAIN tree : \A p \in DOMAIN tree[f] :
           (\A x \in EditsOf(s) \cup RedoEdits(s) : p # x.old /\ p \notin x.cut) => p \in DOMAIN tree'[f]
  BY <1>1, RunScriptKeeps
<1>3. \A x \in EditsOf(s) \cup RedoEdits(s) : \A id \in EditIds : id # x.old /\ id \notin x.cut
  BY ScriptEdits
<1> QED BY <1>2, <1>3

LEMMA KeptStep ==
  ASSUME TypeInv, WholeInv, KeptInv, [Next]_vars
  PROVE  KeptInv'
<1>0. TypeInv' /\ WholeInv'
  BY TypeStep, WholeStep
<1>1. CASE hand' = 0
  <2>1. SUFFICES ASSUME phase' = "built" PROVE Kept(tree')
    BY DEF KeptInv
  <2>2. Whole(tree', Len(Chain) + 1, 0, redo')
    BY <1>0, <1>1, <2>1 DEF WholeInv, Seen, Pos, Stg
  <2>3. IsTree(tree')
    BY <1>0 DEF TypeInv
  <2> QED BY <2>2, <2>3, WholeKept
<1>2. ASSUME NEW s \in Scripts, HandRun(s) PROVE KeptInv'
  <2>1. Kept(tree) /\ phase = "built"
    BY <1>2 DEF HandRun, KeptInv
  <2>2. /\ DOMAIN tree' = DOMAIN tree
        /\ \A f \in DOMAIN tree : EditIds \cap DOMAIN tree[f] \subseteq DOMAIN tree'[f]
    BY <1>2, HandRunKeeps
  <2>3. ASSUME NEW i, NEW j, NEW k, Spot(i, j, k), ~PassedOver(DOMAIN tree', i)
        PROVE  At(i, j, k).file \in DOMAIN tree' /\ At(i, j, k).id \in DOMAIN tree'[At(i, j, k).file]
    <3>1. At(i, j, k).file \in DOMAIN tree /\ At(i, j, k).id \in DOMAIN tree[At(i, j, k).file]
      BY <2>1, <2>2, <2>3 DEF Kept
    <3>2. At(i, j, k).id \in EditIds
      BY <2>3, SpotFacts
    <3> QED BY <2>2, <3>1, <3>2
  <2> QED BY <2>3 DEF KeptInv, Kept
<1>3. CASE hand' # 0 /\ ~\E s \in Scripts : HandRun(s)
  <2>1. hand' = hand
    BY <1>3 DEF Next, Prepare, PassOver, Advance, Begin, Refuse, Fail, RunStage, StageFails,
                WriteFile, EndScript, Kill, vars
  <2>2. phase = "built"
    BY <1>3, <2>1 DEF TypeInv
  <2>3. tree' = tree /\ phase' = phase
    BY <1>3, <2>2 DEF Next, Prepare, PassOver, Begin, Refuse, RunStage, StageFails,
                      WriteFile, EndScript, Kill, vars
  <2> QED BY <2>2, <2>3 DEF KeptInv
<1> QED BY <1>1, <1>2, <1>3

LEMMA WholeInit == Init => WholeInv /\ KeptInv
BY DEF Init, WholeInv, KeptInv

\* Every reachable state satisfies the inductive invariant.
THEOREM Inductive == Spec => [](TypeInv /\ WholeInv /\ KeptInv)
<1>1. Init => TypeInv /\ WholeInv /\ KeptInv
  BY TypeInit, WholeInit
<1>2. TypeInv /\ WholeInv /\ KeptInv /\ [Next]_vars => (TypeInv /\ WholeInv /\ KeptInv)'
  BY TypeStep, WholeStep, KeptStep
<1> QED BY <1>1, <1>2, PTL DEF Spec

\* With all its files there, no script is passed over.
LEMMA NonePassedOver ==
  ASSUME TypeInv, drift.kind # "absent", NEW i \in DOMAIN Chain
  PROVE  ~PassedOver(DOMAIN tree, i)
<1>1. DOMAIN tree = Files
  BY PreparedFacts DEF TypeInv
<1> QED BY <1>1, ChainFacts DEF PassedOver

\* In a finished build a required edit is in its file, once if no script was
\* run by hand, unless the driver passed its script over.
LEMMA BuiltSpot ==
  ASSUME TypeInv, WholeInv, KeptInv, phase = "built",
         NEW i, NEW j, NEW k, Spot(i, j, k)
  PROVE  /\ ~PassedOver(DOMAIN tree, i) =>
              /\ At(i, j, k).file \in DOMAIN tree
              /\ BagIn(At(i, j, k).id, tree[At(i, j, k).file])
              /\ hand = 0 => Copies(At(i, j, k).id, tree[At(i, j, k).file]) = 1
         /\ PassedOver(DOMAIN tree, i) /\ hand = 0 =>
              \A f \in DOMAIN tree : At(i, j, k).id \notin DOMAIN tree[f]
<1>1. ~PassedOver(DOMAIN tree, i) =>
        At(i, j, k).file \in DOMAIN tree /\ BagIn(At(i, j, k).id, tree[At(i, j, k).file])
  BY DEF KeptInv, Kept, BagIn, BagToSet
<1>2. ASSUME hand = 0 PROVE WholeSpot(tree, Len(Chain) + 1, 0, redo, i, j, k)
  BY <1>2 DEF WholeInv, Seen, Pos, Stg, Whole
<1>3. Past(Len(Chain) + 1, 0, i, j)
  <2>1. i \in Nat /\ i <= Len(Chain) /\ Len(Chain) \in Nat
    BY SpotRange, ChainFacts
  <2> QED BY <2>1 DEF Past
<1> QED BY <1>1, <1>2, <1>3 DEF WholeSpot

\* A build that reports success has every required edit: for any chain that
\* satisfies ChainAssumption, any drift of the patched tree, any number of
\* kills and restarts, and any scripts run by hand afterwards.
THEOREM BuildIsWhole == Spec => []BuiltIsWhole
<1>1. TypeInv /\ WholeInv /\ KeptInv => BuiltIsWhole
  <2>1. SUFFICES ASSUME TypeInv, WholeInv, KeptInv, phase = "built", drift.kind # "absent",
                        NEW e \in HardEdits, e.id \in RequiredIds
                 PROVE  IF hand = 0 THEN Copies(e.id, tree[e.file]) = 1
                                    ELSE BagIn(e.id, tree[e.file])
    BY DEF BuiltIsWhole
  <2>2. e \in AllEdits
    BY DEF HardEdits
  <2>3. PICK i, j, k : Spot(i, j, k) /\ At(i, j, k) = e
    BY <2>1, <2>2, EditSpot
  <2>4. ~PassedOver(DOMAIN tree, i)
    BY <2>1, <2>3, NonePassedOver DEF Spot
  <2> QED BY <2>1, <2>3, <2>4, BuiltSpot
<1> QED BY <1>1, Inductive, PTL

\* A finished build never has half of a script: until scripts are run by
\* hand, or for ever when no file is missing.
THEOREM ScriptsAreWhole == Spec => [](hand = 0 \/ drift.kind # "absent" => ScriptsWhole)
<1>1. TypeInv /\ WholeInv /\ KeptInv => (hand = 0 \/ drift.kind # "absent" => ScriptsWhole)
  <2>1. SUFFICES ASSUME TypeInv, WholeInv, KeptInv, hand = 0 \/ drift.kind # "absent",
                        phase = "built", NEW s \in Scripts
                 PROVE  \/ {e.id : e \in EditsOf(s)} \cap RequiredIds \subseteq Landed
                        \/ ({e.id : e \in EditsOf(s)} \cap RequiredIds) \cap Landed = {}
    BY DEF ScriptsWhole
  <2>2. PICK i \in DOMAIN Chain : s = Chain[i].script
    BY DEF Scripts
  <2>3. ASSUME NEW e \in EditsOf(s), e.id \in RequiredIds
        PROVE  \E j, k : Spot(i, j, k) /\ At(i, j, k) = e
    <3>1. PICK j \in DOMAIN Chain[i].script.stages : e \in ToSet(Chain[i].script.stages[j].edits)
      BY <2>2 DEF EditsOf
    <3>2. PICK k \in DOMAIN Chain[i].script.stages[j].edits : e = At(i, j, k)
      BY <3>1 DEF ToSet, At
    <3>3. Spot(i, j, k)
      BY <2>3, <3>1, <3>2 DEF Spot
    <3> QED BY <3>2, <3>3
  <2>4. CASE ~PassedOver(DOMAIN tree, i)
    <3>1. ASSUME NEW e \in EditsOf(s), e.id \in RequiredIds PROVE e.id \in Landed
      <4>1. PICK j, k : Spot(i, j, k) /\ At(i, j, k) = e
        BY <2>3, <3>1
      <4>2. e.file \in DOMAIN tree /\ BagIn(e.id, tree[e.file])
        BY <2>1, <2>4, <4>1, BuiltSpot
      <4>3. e.id \in EditIds
        BY <4>1, SpotFacts
      <4> QED BY <4>2, <4>3 DEF Landed, BagIn
    <3> QED BY <3>1
  <2>5. CASE PassedOver(DOMAIN tree, i)
    <3>1. hand = 0
      BY <2>1, <2>5, NonePassedOver
    <3>2. ASSUME NEW e \in EditsOf(s), e.id \in RequiredIds PROVE e.id \notin Landed
      <4>1. PICK j, k : Spot(i, j, k) /\ At(i, j, k) = e
        BY <2>3, <3>2
      <4>2. \A f \in DOMAIN tree : e.id \notin DOMAIN tree[f]
        BY <2>1, <2>5, <3>1, <4>1, BuiltSpot
      <4> QED BY <4>2 DEF Landed, BagToSet
    <3> QED BY <3>2
  <2> QED BY <2>4, <2>5
<1> QED BY <1>1, Inductive, PTL

-----------------------------------------------------------------------------
(* A build of the intended sources has one result.                         *)

\* The tree after each script of the chain.
GoldenRun(a) ==
    /\ a[0] = Patched
    /\ \A i \in 1..Len(Chain) : a[i] = AfterScript(a[i - 1], Chain[i])
    /\ Golden = a[Len(Chain)]

Expected == CHOOSE a : GoldenRun(a)

LEMMA ExpectedRun == GoldenRun(Expected)
<1>1. Len(Chain) \in Nat /\ DOMAIN Chain = 1..Len(Chain)
  BY ChainFacts
<1>2. \E a : GoldenRun(a)
  <2> DEFINE n == Len(Chain)
  <2> HIDE DEF n
  <2>1. n \in Nat /\ DOMAIN Chain = 1..n
    BY <1>1 DEF n
  <2>2. \E a : /\ a[0] = Patched
               /\ \A i \in 1..n : a[i] = AfterScript(a[i - 1], Chain[i])
               /\ Golden = a[n]
    BY <2>1, ScriptFold
  <2> QED BY <2>2 DEF GoldenRun, n
<1> QED BY <1>2 DEF Expected

\* At stage st of script p, which began with t0, the job sees T.
InScript(p, st, rd, t0, T) ==
    /\ t0 = Expected[p - 1] /\ IsTree(t0)
    /\ Verdict(t0, Chain[p].script) \in {"redo", "apply"}
    /\ rd = (Verdict(t0, Chain[p].script) = "redo")
    /\ \E b : ScriptRun(b, t0, StagesOf(p, rd)) /\ b[st - 1] = [ok |-> TRUE, tree |-> T]

\* Whatever was killed before: between scripts the tree is the one expected,
\* and within a script what the job sees is so far along the script's run.
GoldenInv ==
    drift = NoDrift /\ hand = 0 /\ phase \in {"running", "writing", "built"} =>
        /\ Stg = 0 => Seen = Expected[Pos - 1]
        /\ Stg > 0 => InScript(pc, stage, redo, start, Seen)

LEMMA GoldenBegin ==
  ASSUME NEW p \in DOMAIN Chain, NEW T, IsTree(T), T = Expected[p - 1],
         Verdict(T, Chain[p].script) \in {"redo", "apply"},
         NEW rd \in BOOLEAN, rd = (Verdict(T, Chain[p].script) = "redo")
  PROVE  InScript(p, 1, rd, T, T)
<1>1. StagesOf(p, rd) \in Seq(AStage)
  BY StagesFacts
<1>2. PICK b : ScriptRun(b, T, StagesOf(p, rd))
  BY <1>1, ScriptRunExists
<1>3. b[1 - 1] = [ok |-> TRUE, tree |-> T]
  BY <1>2 DEF ScriptRun
<1> QED BY <1>2, <1>3 DEF InScript

LEMMA GoldenStage ==
  ASSUME NEW p \in DOMAIN Chain, NEW rd \in BOOLEAN, NEW st \in DOMAIN StagesOf(p, rd),
         NEW t0, NEW T, IsTree(T), InScript(p, st, rd, t0, T),
         EvalStage(T, StagesOf(p, rd)[st]).ok
  PROVE  InScript(p, st + 1, rd, t0, EvalStage(T, StagesOf(p, rd)[st]).tree)
<1> DEFINE ss == StagesOf(p, rd)
           q == EvalStage(T, ss[st])
<1>1. ss \in Seq(AStage) /\ ss[st] \in AStage
  BY StagesFacts
<1>2. PICK b : ScriptRun(b, t0, ss) /\ b[st - 1] = [ok |-> TRUE, tree |-> T]
  BY DEF InScript
<1>3. st \in 1..Len(ss) /\ st \in Nat /\ (st + 1) - 1 = st
  BY <1>1
<1>4. b[st] = AfterStage(b[st - 1], ss[st])
  BY <1>2, <1>3 DEF ScriptRun
<1>5. q = [ok |-> q.ok, tree |-> q.tree] /\ q.ok \in BOOLEAN /\ q.ok
  BY <1>1, StageOutcome DEF IsOutcome
<1> HIDE DEF ss
<1>6. AfterStage([ok |-> TRUE, tree |-> T], ss[st]) = q
  <2>1. q.ok
    BY <1>5
  <2> QED BY <2>1 DEF AfterStage
<1> HIDE DEF q
<1>7. q.ok = TRUE
  BY <1>5
<1>8. b[(st + 1) - 1] = [ok |-> TRUE, tree |-> q.tree]
  BY <1>2, <1>3, <1>4, <1>5, <1>6, <1>7
<1>9. InScript(p, st + 1, rd, t0, q.tree)
  BY <1>2, <1>8 DEF InScript, ss
<1> QED BY <1>9 DEF q, ss

LEMMA GoldenEnd ==
  ASSUME NEW p \in DOMAIN Chain, NEW rd \in BOOLEAN, NEW t0, NEW T,
         InScript(p, Len(StagesOf(p, rd)) + 1, rd, t0, T)
  PROVE  T = Expected[p]
<1> DEFINE ss == StagesOf(p, rd)
           s == Chain[p].script
<1>1. ss \in Seq(AStage) /\ s \in AScript
  BY StagesFacts, ChainFacts
<1>2. Len(ss) \in Nat /\ (Len(ss) + 1) - 1 = Len(ss)
  BY <1>1
<1>3. PICK b : ScriptRun(b, t0, ss) /\ b[Len(ss)] = [ok |-> TRUE, tree |-> T]
  BY <1>2 DEF InScript
<1>4. ss = IF Verdict(t0, s) = "redo" THEN s.redo ELSE s.stages
  BY DEF InScript, StagesOf
<1>5. IsTree(t0) /\ Verdict(t0, s) \in {"redo", "apply"} /\ t0 = Expected[p - 1]
  BY DEF InScript
<1> HIDE DEF ss
<1>6. RunScript(t0, s).tree =
        IF Verdict(t0, s) \in {"leave", "fail"} THEN t0 ELSE b[Len(ss)].tree
  BY <1>1, <1>3, <1>4, <1>5, RunScriptTree
<1>7. RunScript(t0, s).tree = T
  BY <1>3, <1>5, <1>6
<1>8. Expected[p] = AfterScript(Expected[p - 1], Chain[p])
  BY ChainFacts, ExpectedRun DEF GoldenRun
<1> QED BY <1>5, <1>7, <1>8 DEF AfterScript

LEMMA GoldenStep ==
  ASSUME TypeInv, GoldenInv, [Next]_vars
  PROVE  GoldenInv'
<1>0. /\ pc \in DOMAIN Chain /\ stage \in Nat /\ redo \in BOOLEAN /\ IsTree(tree)
      /\ drift \in Drifts /\ hand \in Nat /\ pc \in Nat
  BY ChainFacts DEF TypeInv
<1>1. CASE Prepare
  <2>1. Seen' = PreparedTree(drift) /\ Pos' = 1 /\ Stg' = 0 /\ drift' = drift
    BY <1>1 DEF Prepare, Seen, Pos, Stg
  <2>2. ASSUME drift = NoDrift PROVE Seen' = Expected[Pos' - 1]
    <3>1. PreparedTree(drift) = Patched
      BY <2>2 DEF PreparedTree, NoDrift
    <3>2. Expected[0] = Patched /\ 1 - 1 = 0
      BY ExpectedRun DEF GoldenRun
    <3> QED BY <2>1, <3>1, <3>2
  <2> QED BY <2>1, <2>2 DEF GoldenInv
<1>2. ASSUME phase = "running" PROVE Seen = tree /\ Pos = pc /\ Stg = stage
  BY <1>2 DEF Seen, Pos, Stg
<1>3. CASE PassOver
  <2>1. ASSUME drift = NoDrift PROVE FALSE
    <3>1. drift.kind # "absent"
      BY <2>1 DEF NoDrift
    <3> QED BY <1>0, <1>3, <3>1, WholePassOver, NonePassedOver
  <2>2. drift' = drift
    BY <1>3 DEF PassOver, Advance
  <2> QED BY <2>1, <2>2 DEF GoldenInv
<1>4. CASE Begin
  <2>1. /\ phase = "running" /\ stage = 0
        /\ Verdict(tree, Current) \in {"redo", "apply"}
        /\ redo' = (Verdict(tree, Current) = "redo")
        /\ stage' = 1 /\ start' = tree /\ tree' = tree /\ phase' = phase /\ pc' = pc
        /\ hand' = hand /\ drift' = drift
    BY <1>4 DEF Begin
  <2>2. Seen' = tree /\ Pos' = pc /\ Stg' = 1
    BY <2>1 DEF Seen, Pos, Stg
  <2>3. ASSUME drift = NoDrift, hand = 0 PROVE InScript(pc, 1, redo', tree, tree)
    <3>1. tree = Expected[pc - 1]
      BY <1>2, <2>1, <2>3 DEF GoldenInv
    <3>2. redo' \in BOOLEAN
      BY <2>1
    <3> QED BY <1>0, <2>1, <3>1, <3>2, GoldenBegin DEF Current
  <2> QED BY <2>1, <2>2, <2>3 DEF GoldenInv
<1>5. ASSUME Fail PROVE GoldenInv'
  BY <1>5 DEF Fail, GoldenInv
<1>6. CASE Refuse \/ StageFails
  BY <1>5, <1>6 DEF Refuse, StageFails
<1>7. CASE RunStage
  <2>1. /\ stage \in DOMAIN StagesOf(pc, redo)
        /\ EvalStage(tree, StagesOf(pc, redo)[stage]).ok
        /\ Seen' = EvalStage(tree, StagesOf(pc, redo)[stage]).tree
        /\ phase' \in {"running", "writing"} /\ stage' = stage + 1
    BY <1>7, RunStageSees
  <2>2. /\ phase = "running" /\ pc' = pc /\ redo' = redo /\ start' = start
        /\ hand' = hand /\ drift' = drift /\ stage > 0
    BY <1>7 DEF RunStage
  <2>3. Stg' = stage + 1 /\ stage + 1 > 0 /\ stage + 1 # 0
    BY <1>0, <2>1, <2>2 DEF Stg
  <2>4. ASSUME drift = NoDrift, hand = 0 PROVE InScript(pc, stage + 1, redo, start, Seen')
    <3>1. InScript(pc, stage, redo, start, tree)
      BY <1>2, <2>2, <2>4 DEF GoldenInv
    <3> QED BY <1>0, <2>1, <3>1, GoldenStage
  <2> QED BY <2>1, <2>2, <2>3, <2>4 DEF GoldenInv
<1>8. CASE WriteFile
  <2>1. Seen' = Seen /\ phase' \in {"running", "writing"}
    BY <1>8, WriteFileSees
  <2>2. /\ phase = "writing" /\ pc' = pc /\ stage' = stage /\ redo' = redo /\ hand' = hand
        /\ start' = start /\ drift' = drift
    BY <1>8 DEF WriteFile
  <2>3. Pos' = Pos /\ Stg' = Stg
    BY <2>1, <2>2 DEF Pos, Stg
  <2> QED BY <2>1, <2>2, <2>3 DEF GoldenInv
<1>9. CASE EndScript
  <2>1. phase = "running" /\ stage = Len(StagesOf(pc, redo)) + 1 /\ (Fail \/ Advance)
    BY <1>9 DEF EndScript, Stages, Current, StagesOf
  <2>2. CASE Advance
    <3>1. Pos' = pc + 1 /\ Stg' = 0 /\ Seen' = tree /\ drift' = drift /\ hand' = hand
      BY <2>1, <2>2, AdvanceTo
    <3>2. ASSUME drift = NoDrift, hand = 0 PROVE Seen' = Expected[Pos' - 1]
      <4>1. stage > 0
        <5>1. StagesOf(pc, redo) \in Seq(AStage)
          BY <1>0, StagesFacts
        <5> QED BY <2>1, <5>1
      <4>2. InScript(pc, Len(StagesOf(pc, redo)) + 1, redo, start, tree)
        BY <1>2, <2>1, <3>2, <4>1 DEF GoldenInv
      <4>3. tree = Expected[pc] /\ (pc + 1) - 1 = pc
        BY <1>0, <4>2, GoldenEnd
      <4> QED BY <3>1, <4>3
    <3> QED BY <3>1, <3>2 DEF GoldenInv
  <2> QED BY <1>5, <2>1, <2>2
<1>10. CASE Kill
  BY <1>10 DEF Kill, GoldenInv
<1>11. ASSUME NEW s \in Scripts, HandRun(s) PROVE GoldenInv'
  BY <1>0, <1>11 DEF HandRun, GoldenInv
<1>12. CASE vars' = vars
  <2>1. /\ Seen' = Seen /\ Pos' = Pos /\ Stg' = Stg /\ phase' = phase /\ hand' = hand /\ redo' = redo
        /\ pc' = pc /\ stage' = stage /\ start' = start /\ drift' = drift
    BY <1>12 DEF vars, Seen, Pos, Stg
  <2> QED BY <2>1 DEF GoldenInv
<1> QED BY <1>1, <1>3, <1>4, <1>6, <1>7, <1>8, <1>9, <1>10, <1>11, <1>12 DEF Next

\* However often the job was killed and started again, and wherever, a
\* finished build of the intended sources is the tree that the scripts give
\* one after the other.
THEOREM RestartsLeaveNoTrace == Spec => []RestartLeavesNoTrace
<1>1. Init => GoldenInv
  BY DEF Init, GoldenInv
<1>2. TypeInv /\ GoldenInv /\ [Next]_vars => GoldenInv'
  BY GoldenStep
<1>3. TypeInv /\ GoldenInv => RestartLeavesNoTrace
  <2>1. SUFFICES ASSUME TypeInv, GoldenInv, phase = "built", drift = NoDrift, hand = 0
                 PROVE  tree = Golden
    BY DEF RestartLeavesNoTrace
  <2>2. Len(Chain) \in Nat /\ (Len(Chain) + 1) - 1 = Len(Chain)
    BY ChainFacts
  <2>3. tree = Expected[(Len(Chain) + 1) - 1]
    BY <2>1 DEF GoldenInv, Seen, Pos, Stg
  <2>4. Golden = Expected[Len(Chain)]
    BY ExpectedRun DEF GoldenRun
  <2> QED BY <2>2, <2>3, <2>4
<1> QED BY <1>1, <1>2, <1>3, Inductive, PTL DEF Spec

-----------------------------------------------------------------------------
(* The preparation implements FixupLedger.                                 *)

LEMMA LedgerInitially == TypeInv /\ Init => Ledger!LedgerInit
<1>1. SUFFICES ASSUME TypeInv, Init PROVE Ledger!LedgerInit
  OBVIOUS
<1>2. Landed = {}
  <2>1. ASSUME NEW f \in DOMAIN tree, NEW id \in EditIds, id \in BagToSet(tree[f]) PROVE FALSE
    <3>1. drift \in Drifts /\ tree = PreparedTree(drift)
      BY <1>1 DEF Init
    <3>2. f \in Files /\ id \in DOMAIN Patched[f]
      BY <2>1, <3>1, PreparedFacts DEF BagToSet
    <3> QED BY <3>2, ChainAssumption DEF IdsKept, BagToSet
  <2> QED BY <2>1 DEF Landed
<1>3. phase = "idle"
  BY <1>1 DEF Init
<1> QED BY <1>2, <1>3, RequiredAreIds DEF Ledger!LedgerInit

\* No step takes an edit away except a new start and a kill.
LEMMA LandedGrows ==
  ASSUME DOMAIN tree' = DOMAIN tree,
         \A f \in DOMAIN tree : EditIds \cap DOMAIN tree[f] \subseteq DOMAIN tree'[f]
  PROVE  Landed \subseteq Landed'
BY DEF Landed, BagToSet

LEMMA LedgerStep ==
  ASSUME TypeInv, TypeInv', WholeInv', KeptInv', [Next]_vars
  PROVE  [Ledger!LedgerNext]_(Ledger!LedgerVars)
<1>0. tree' = tree => Landed' = Landed
  BY DEF Landed
<1>00. Landed' \subseteq EditIds
  BY DEF Landed
<1> USE DEF Ledger!LedgerVars, Ledger!LedgerNext
<1>1. CASE Prepare
  <2>1. Landed' = {}
    <3>1. ASSUME NEW f \in DOMAIN tree', NEW id \in EditIds, id \in BagToSet(tree'[f]) PROVE FALSE
      <4>1. drift \in Drifts /\ tree' = PreparedTree(drift)
        BY <1>1 DEF Prepare, TypeInv
      <4>2. f \in Files /\ id \in DOMAIN Patched[f]
        BY <3>1, <4>1, PreparedFacts DEF BagToSet
      <4> QED BY <4>2, ChainAssumption DEF IdsKept, BagToSet
    <3> QED BY <3>1 DEF Landed
  <2>2. phase \in {"idle", "killed"} /\ phase' = "running" /\ drift' = drift
    BY <1>1 DEF Prepare
  <2>3. Ledger!Start
    BY <2>1, <2>2 DEF Ledger!Start
  <2> QED BY <2>3
<1>2. ASSUME phase = "running", Fail PROVE Ledger!Stop
  <2>1. phase' = "failed" /\ tree' = tree /\ drift' = drift
    BY <1>2 DEF Fail
  <2> QED BY <1>0, <1>2, <2>1 DEF Ledger!Stop
<1>3. ASSUME phase = "running", Advance PROVE [Ledger!LedgerNext]_(Ledger!LedgerVars)
  <2>1. /\ phase' \in {"running", "built"} /\ tree' = tree /\ drift' = drift
    BY <1>3, AdvanceTo
  <2>2. CASE phase' = "running"
    BY <1>0, <1>3, <2>1, <2>2
  <2>3. CASE phase' = "built"
    <3>1. ASSUME drift.kind # "absent", NEW id \in RequiredIds PROVE id \in Landed
      <4>1. PICK e \in HardEdits : e.id = id
        BY DEF RequiredIds
      <4>2. PICK i, j, k : Spot(i, j, k) /\ At(i, j, k) = e
        BY <4>1, EditSpot DEF HardEdits
      <4>3. ~PassedOver(DOMAIN tree, i)
        BY <3>1, <4>2, NonePassedOver DEF Spot
      <4>4. Kept(tree)
        BY <2>1, <2>3 DEF KeptInv
      <4>5. e.file \in DOMAIN tree /\ e.id \in DOMAIN tree[e.file]
        BY <4>2, <4>3, <4>4 DEF Kept
      <4> QED BY <4>1, <4>5, RequiredAreIds DEF Landed, BagToSet
    <3>2. Ledger!Finish
      BY <1>0, <1>3, <2>1, <2>3, <3>1 DEF Ledger!Finish
    <3> QED BY <3>2
  <2> QED BY <2>1, <2>2, <2>3
<1>4. CASE PassOver
  BY <1>3, <1>4 DEF PassOver
<1>5. CASE Begin
  BY <1>0, <1>5 DEF Begin
<1>6. CASE Refuse \/ StageFails
  BY <1>2, <1>6 DEF Refuse, StageFails
<1>7. CASE RunStage
  <2>1. phase = "running" /\ tree' = tree /\ drift' = drift
    BY <1>7 DEF RunStage
  <2>2. phase' \in {"running", "writing"}
    BY <1>7, RunStageSees
  <2> QED BY <1>0, <2>1, <2>2
<1>8. CASE WriteFile
  <2>1. phase = "writing" /\ drift' = drift
    BY <1>8 DEF WriteFile
  <2>2. phase' \in {"running", "writing"} /\ Landed \subseteq Landed'
    BY <1>8, WriteFileSees, LandedGrows
  <2>3. Ledger!Land
    BY <1>00, <2>1, <2>2 DEF Ledger!Land
  <2> QED BY <2>3
<1>9. CASE EndScript
  BY <1>2, <1>3, <1>9 DEF EndScript
<1>10. CASE Kill
  <2>1. phase \in {"running", "writing"} /\ phase' = "killed" /\ drift' = drift
    BY <1>10 DEF Kill
  <2>2. Landed' \subseteq Landed
    <3>1. CASE tree' = tree
      BY <1>0, <3>1
    <3>2. CASE phase = "writing" /\ tree' = [tree EXCEPT ![Head(out)] = EmptyBag]
      <4>1. Head(out) \in DOMAIN tree
        BY <3>2, HeadTail DEF TypeInv, Writing
      <4>2. /\ DOMAIN tree' = DOMAIN tree /\ tree'[Head(out)] = EmptyBag
            /\ \A f \in DOMAIN tree : f # Head(out) => tree'[f] = tree[f]
        BY <3>2, <4>1, EmptyBagIsBag, TreeExcept DEF TypeInv
      <4>3. BagToSet(EmptyBag) = {}
        BY DEF BagToSet, EmptyBag, SetToBag
      <4> QED BY <4>2, <4>3 DEF Landed
    <3> QED BY <1>10, <3>1, <3>2 DEF Kill
  <2>3. Ledger!Stop
    BY <2>1, <2>2 DEF Ledger!Stop
  <2> QED BY <2>3
<1>11. ASSUME NEW s \in Scripts, HandRun(s) PROVE Ledger!Rework
  <2>1. phase = "built" /\ phase' = phase /\ drift' = drift
    BY <1>11 DEF HandRun
  <2>2. Landed \subseteq Landed'
    BY <1>11, HandRunKeeps, LandedGrows
  <2> QED BY <1>00, <2>1, <2>2 DEF Ledger!Rework
<1>12. CASE vars' = vars
  BY <1>0, <1>12 DEF vars
<1> QED BY <1>1, <1>4, <1>5, <1>6, <1>7, <1>8, <1>9, <1>10, <1>11, <1>12 DEF Next

\* The chain of scripts, with its markers, gates, separate writes, kills and
\* hand runs, does what FixupLedger promises.
THEOREM LedgerRefinement == Spec => ImplementsLedger
<1>1. Init => Ledger!LedgerInit
  BY TypeInit, LedgerInitially
<1>2. TypeInv /\ TypeInv' /\ WholeInv' /\ KeptInv' /\ [Next]_vars =>
        [Ledger!LedgerNext]_(Ledger!LedgerVars)
  BY LedgerStep
<1> QED BY <1>1, <1>2, Inductive, PTL DEF Spec, ImplementsLedger, Ledger!LedgerSpec

-----------------------------------------------------------------------------
(* The intended tree is never refused.                                     *)

\* Run one after the other on the intended tree, the scripts all succeed.
ChainSucceeds ==
    \A a : GoldenRun(a) =>
        \A i \in DOMAIN Chain : RunScript(a[i - 1], Chain[i].script).ok

\* A script that succeeds has failed at no stage.
LEMMA ScriptRunOk ==
  ASSUME NEW t, IsTree(t), NEW ss \in Seq(AStage), NEW b, ScriptRun(b, t, ss), b[Len(ss)].ok
  PROVE  \A i \in 0..Len(ss) : b[i].ok
<1> DEFINE n == Len(ss)
           Good == {k \in Nat : k <= n => b[n - k].ok}
<1>0. n \in Nat /\ DOMAIN ss = 1..n /\ \A i \in 1..n : ss[i] \in AStage
  OBVIOUS
<1>1. \A i \in 0..n : IsOutcome(b[i], DOMAIN t)
  BY ScriptRunGoes
<1>2. 0 \in Good
  BY <1>0
<1>3. ASSUME NEW k \in Good PROVE k + 1 \in Good
  <2>1. SUFFICES ASSUME k + 1 <= n PROVE b[n - (k + 1)].ok
    OBVIOUS
  <2>2. k \in Nat /\ n - k \in 1..n /\ (n - k) - 1 = n - (k + 1) /\ n - (k + 1) \in 0..n
    BY <1>0, <2>1
  <2>3. b[n - k].ok
    BY <1>0, <2>1, <2>2
  <2>4. b[n - k] = AfterStage(b[n - (k + 1)], ss[n - k]) /\ ss[n - k] \in AStage
    BY <1>0, <2>2 DEF ScriptRun
  <2>5. Goes(b[n - (k + 1)], b[n - k], ToSet(ss[n - k].edits))
    BY <1>1, <2>2, <2>4, StageStep
  <2> QED BY <2>3, <2>5 DEF Goes
<1>4. Good = Nat
  <2> HIDE DEF Good
  <2>1. Good \in SUBSET Nat
    BY DEF Good
  <2> QED BY <1>2, <1>3, <2>1, Induct
<1>5. ASSUME NEW i \in 0..n PROVE b[i].ok
  <2>1. n - i \in Nat /\ n - i <= n /\ n - (n - i) = i
    BY <1>0
  <2>2. n - i \in Good
    BY <1>4, <2>1
  <2> QED BY <2>1, <2>2
<1> QED BY <1>5

LEMMA RunScriptOk ==
  ASSUME NEW t, IsTree(t), NEW s \in AScript, NEW b, NEW ss,
         ss = (IF Verdict(t, s) = "redo" THEN s.redo ELSE s.stages), ScriptRun(b, t, ss),
         RunScript(t, s).ok
  PROVE  /\ Verdict(t, s) # "fail"
         /\ Verdict(t, s) # "leave" =>
              /\ b[Len(ss)].ok
              /\ b[Len(ss)].tree = t /\ Verdict(t, s) = "apply" => s.idle = 0
<1> DEFINE v == Verdict(t, s)
           z == [ok |-> TRUE, tree |-> t]
           end == RunStages(z, ss)
<1>1. ss \in Seq(AStage) /\ Len(ss) \in Nat
  BY DEF AScript
<1>2. Len(ss) \in 0..Len(ss)
  BY <1>1
<1>3. IsOutcome(b[Len(ss)], DOMAIN t)
  BY <1>1, <1>2, ScriptRunGoes
<1>4. end = b[Len(ss)]
  BY DEF ScriptRun
<1>5. end = [ok |-> end.ok, tree |-> end.tree] /\ end.ok \in BOOLEAN
  BY <1>3, <1>4 DEF IsOutcome
<1> HIDE DEF end
<1>6. RunScript(t, s) =
        CASE v = "leave" -> z
          [] v = "fail"  -> [z EXCEPT !.ok = FALSE]
          [] OTHER       -> [end EXCEPT !.ok = @ /\ (end.tree = t /\ v = "apply" => s.idle = 0)]
  BY DEF RunScript, end
<1> HIDE DEF v
<1>7. ASSUME v = "fail" PROVE FALSE
  <2>1. RunScript(t, s) = [ok |-> FALSE, tree |-> t]
    BY <1>6, <1>7
  <2>2. RunScript(t, s).ok = FALSE
    BY <2>1
  <2> QED BY <2>2
<1>8. ASSUME v \notin {"leave", "fail"}
      PROVE  end.ok /\ (end.tree = t /\ v = "apply" => s.idle = 0)
  <2> DEFINE G == end.tree = t /\ v = "apply" => s.idle = 0
  <2>1. RunScript(t, s) = [end EXCEPT !.ok = @ /\ G]
    BY <1>6, <1>8
  <2>2. SUFFICES ASSUME ~(end.ok /\ G) PROVE FALSE
    OBVIOUS
  <2> HIDE DEF G
  <2>3. RunScript(t, s) = [ok |-> end.ok /\ G, tree |-> end.tree]
    BY <1>5, <2>1
  <2>4. (end.ok /\ G) = FALSE
    BY <2>2
  <2>5. RunScript(t, s) = [ok |-> FALSE, tree |-> end.tree]
    BY <2>3, <2>4
  <2>6. RunScript(t, s).ok = FALSE
    BY <2>5
  <2> QED BY <2>6
<1> QED BY <1>4, <1>7, <1>8 DEF v

LEMMA PristineStep ==
  ASSUME ChainSucceeds, TypeInv, GoldenInv, PristineNeverFails, [Next]_vars
  PROVE  PristineNeverFails'
<1>0. /\ pc \in DOMAIN Chain /\ stage \in Nat /\ redo \in BOOLEAN /\ IsTree(tree)
      /\ Chain[pc].script \in AScript /\ StagesOf(pc, redo) \in Seq(AStage)
      /\ Current = Chain[pc].script /\ Stages = StagesOf(pc, redo)
  BY ChainFacts, StagesFacts DEF TypeInv, Current, Stages, StagesOf
<1>1. \A i \in DOMAIN Chain : RunScript(Expected[i - 1], Chain[i].script).ok
  BY ExpectedRun DEF ChainSucceeds
<1>2. ASSUME phase = "running", drift = NoDrift
      PROVE  /\ stage = 0 => tree = Expected[pc - 1]
             /\ stage > 0 => InScript(pc, stage, redo, start, tree)
  BY <1>2 DEF GoldenInv, TypeInv, Seen, Pos, Stg
<1>3. ASSUME stage > 0, phase = "running", drift = NoDrift
      PROVE  \E b : /\ b[stage - 1] = [ok |-> TRUE, tree |-> tree]
                    /\ ScriptRun(b, start, StagesOf(pc, redo)) /\ IsTree(start)
                    /\ \A i \in 0..Len(StagesOf(pc, redo)) : b[i].ok
                    /\ b[Len(StagesOf(pc, redo))].tree = start /\ ~redo => Current.idle = 0
  <2> DEFINE ss == StagesOf(pc, redo)
             v == Verdict(start, Chain[pc].script)
  <2>1. InScript(pc, stage, redo, start, tree)
    BY <1>2, <1>3
  <2>2. PICK b : ScriptRun(b, start, ss) /\ b[stage - 1] = [ok |-> TRUE, tree |-> tree]
    BY <2>1 DEF InScript
  <2>3. IsTree(start) /\ start = Expected[pc - 1] /\ v \in {"redo", "apply"} /\ redo = (v = "redo")
    BY <2>1 DEF InScript
  <2>4. ss = IF v = "redo" THEN Chain[pc].script.redo ELSE Chain[pc].script.stages
    BY <2>3 DEF StagesOf
  <2> HIDE DEF ss
  <2>5. b[Len(ss)].ok /\ (b[Len(ss)].tree = start /\ v = "apply" => Chain[pc].script.idle = 0)
    BY <1>0, <1>1, <2>2, <2>3, <2>4, RunScriptOk
  <2>6. \A i \in 0..Len(ss) : b[i].ok
    BY <1>0, <2>2, <2>3, <2>5, ScriptRunOk DEF ss
  <2>7. ~redo => v = "apply"
    BY <2>3
  <2> QED BY <1>0, <2>2, <2>3, <2>5, <2>6, <2>7 DEF ss
<1>4. ASSUME Refuse, drift = NoDrift PROVE FALSE
  <2>1. phase = "running" /\ stage = 0 /\ Verdict(tree, Chain[pc].script) = "fail"
    BY <1>0, <1>4 DEF Refuse
  <2>2. tree = Expected[pc - 1]
    BY <1>2, <1>4, <2>1
  <2> DEFINE ss == IF Verdict(tree, Chain[pc].script) = "redo"
                   THEN Chain[pc].script.redo ELSE Chain[pc].script.stages
  <2>3. ss \in Seq(AStage)
    BY <1>0, ScriptFacts
  <2>4. PICK b : ScriptRun(b, tree, ss)
    BY <2>3, ScriptRunExists
  <2> QED BY <1>0, <1>1, <2>1, <2>2, <2>4, RunScriptOk
<1>5. ASSUME StageFails, drift = NoDrift PROVE FALSE
  <2> DEFINE ss == StagesOf(pc, redo)
             q == EvalStage(tree, ss[stage])
  <2>1. phase = "running" /\ stage \in 1..Len(ss) /\ ~q.ok
    BY <1>0, <1>5 DEF StageFails
  <2>11. stage > 0
    BY <2>1
  <2>2. PICK b : /\ b[stage - 1] = [ok |-> TRUE, tree |-> tree]
                 /\ ScriptRun(b, start, ss)
                 /\ \A i \in 0..Len(ss) : b[i].ok
    BY <1>3, <1>5, <2>1, <2>11
  <2> HIDE DEF ss
  <2>3. b[stage] = AfterStage(b[stage - 1], ss[stage]) /\ b[stage].ok
    BY <2>1, <2>2 DEF ScriptRun
  <2>4. AfterStage([ok |-> TRUE, tree |-> tree], ss[stage]) = [ok |-> FALSE, tree |-> tree]
    BY <2>1 DEF AfterStage
  <2>5. b[stage].ok = FALSE
    BY <2>2, <2>3, <2>4
  <2> QED BY <2>3, <2>5
<1>6. ASSUME EndScript, Idle, drift = NoDrift PROVE FALSE
  <2> DEFINE ss == StagesOf(pc, redo)
  <2>1. phase = "running" /\ stage = Len(ss) + 1 /\ Len(ss) \in Nat
        /\ ~redo /\ tree = start /\ Current.idle # 0
    BY <1>0, <1>6 DEF EndScript, Idle
  <2> HIDE DEF ss
  <2>2. stage > 0 /\ stage - 1 = Len(ss)
    BY <2>1
  <2>3. PICK b : /\ b[stage - 1] = [ok |-> TRUE, tree |-> tree]
                 /\ b[Len(ss)].tree = start /\ ~redo => Current.idle = 0
    BY <1>3, <1>6, <2>1, <2>2 DEF ss
  <2> QED BY <2>1, <2>2, <2>3
<1>7. SUFFICES ASSUME drift' = NoDrift, phase' = "failed" PROVE FALSE
  BY DEF PristineNeverFails
<1>8. drift = NoDrift /\ phase # "failed"
  BY <1>7 DEF PristineNeverFails, Next, Prepare, PassOver, Begin, Refuse, RunStage, StageFails,
              WriteFile, EndScript, Kill, HandRun, Advance, Fail, vars
<1>9. Refuse \/ StageFails \/ (EndScript /\ Idle)
  BY <1>7, <1>8 DEF Next, Prepare, PassOver, Begin, RunStage, WriteFile, EndScript, Kill,
                    HandRun, Advance, vars
<1> QED BY <1>4, <1>5, <1>6, <1>8, <1>9

\* When the scripts succeed one after the other on the intended tree, the job
\* does not fail on it, whatever kills and restarts it goes through and
\* however its writes are cut up.
THEOREM PristineSucceeds == ASSUME ChainSucceeds PROVE Spec => []PristineNeverFails
<1>1. Init => GoldenInv /\ PristineNeverFails
  BY DEF Init, GoldenInv, PristineNeverFails
<1>2. TypeInv /\ GoldenInv /\ PristineNeverFails /\ [Next]_vars => (GoldenInv /\ PristineNeverFails)'
  BY GoldenStep, PristineStep
<1> QED BY <1>1, <1>2, Inductive, PTL DEF Spec
=============================================================================
