----------------------------- MODULE SetLemmas -----------------------------
(***************************************************************************)
(* Finite sets, as the models use them: a set of numbers has a greatest and  *)
(* a least member, a sum does not depend on the order in which it is folded, *)
(* and a loop over a sequence is its rounds.  Induction over a finite set    *)
(* is a smallest counterexample, for inclusion.                             *)
(***************************************************************************)
EXTENDS FiniteSetsExt, FiniteSetTheorems, TLAPS

\* Among sets of elements of a finite set there is one with no other inside it.
LEMMA SmallestSet ==
  ASSUME NEW S, IsFiniteSet(S), NEW T, T \subseteq SUBSET S, T # {}
  PROVE  \E x \in T : \A y \in T : y \subseteq x => y = x
<1>1. FiniteSubsetsOf(S) = SUBSET S
  BY FS_FiniteSubsetsOfFinite
<1>2. IsWellFoundedOn(StrictSubsetOrdering(S), FiniteSubsetsOf(S))
  BY FS_StrictSubsetOrderingWellFounded
<1>3. PICK x \in T : \A y \in T : ~(<<y, x>> \in StrictSubsetOrdering(S))
  BY <1>1, <1>2, WFMin
<1>4. ASSUME NEW y \in T, y \subseteq x
      PROVE  y = x
  <2>1. y \in SUBSET S /\ x \in SUBSET S
    OBVIOUS
  <2>2. CASE y # x
    <3>1. <<y, x>> \in StrictSubsetOrdering(S)
      BY <1>4, <2>1, <2>2 DEF StrictSubsetOrdering
    <3>2. QED
      BY <1>3, <3>1
  <2>3. QED
    BY <2>2
<1>5. QED
  BY <1>4

\* Of some numbers one is the greatest: of the sets of those that are greater than
\* one of them, a smallest is empty.
LEMMA GreatestMember ==
  \A n \in Nat : \A S \in SUBSET (1 .. n) : S # {} => \E m \in S : \A k \in S : k <= m
<1>1. SUFFICES ASSUME NEW n \in Nat, NEW S, S \in SUBSET (1 .. n), S # {}
               PROVE  \E m \in S : \A k \in S : k <= m
  OBVIOUS
<1> DEFINE greater(k) == {j \in S : j > k}
           T == {greater(k) : k \in S}
<1>2. IsFiniteSet(S)
  <2>1. IsFiniteSet(1 .. n)
    <3>1. 1 \in Int /\ n \in Int
      OBVIOUS
    <3>2. QED
      BY <3>1, FS_Interval
  <2>2. QED
    BY <1>1, <2>1, FS_Subset
<1>3. PICK x \in T : \A y \in T : y \subseteq x => y = x
  <2>1. T \subseteq SUBSET S
    OBVIOUS
  <2>2. T # {}
    BY <1>1
  <2> HIDE DEF T
  <2>3. QED
    BY <1>2, <2>1, <2>2, SmallestSet
<1>4. PICK m \in S : x = greater(m)
  BY <1>3
<1>5. ASSUME NEW k \in S PROVE k <= m
  <2>1. m \in Nat /\ k \in Nat
    BY <1>1
  <2>2. CASE k > m
    <3>1. k \in greater(m) /\ k \notin greater(k)
      BY <2>1, <2>2
    <3>2. greater(k) \subseteq greater(m)
      <4>1. ASSUME NEW j \in S, j > k PROVE j > m
        <5>1. j \in Nat
          BY <1>1
        <5>2. QED
          BY <2>1, <2>2, <4>1, <5>1
      <4>2. QED
        BY <4>1
    <3>3. greater(k) \in T
      OBVIOUS
    <3> HIDE DEF greater, T
    <3>4. QED
      BY <1>3, <1>4, <3>1, <3>2, <3>3
  <2>3. QED
    BY <2>1, <2>2
<1>6. QED
  BY <1>5

\* The greatest of some numbers is one of them.
LEMMA MaxIsMember ==
  ASSUME NEW n \in Nat, NEW S, S \subseteq 1 .. n, S # {}
  PROVE  Max(S) \in S
<1>1. PICK m \in S : \A k \in S : k <= m
  BY GreatestMember
<1>2. \A k \in S : m >= k
  BY <1>1
<1>3. QED
  BY <1>2 DEF Max

\* The least is the greatest, counted from the other end.
LEMMA LeastMember ==
  ASSUME NEW n \in Nat, NEW S \in SUBSET (1 .. n), S # {}
  PROVE  \E m \in S : \A k \in S : m <= k
<1> DEFINE R == {n + 1 - k : k \in S}
<1>1. R \in SUBSET (1 .. n) /\ R # {}
  <2>1. ASSUME NEW k \in S PROVE n + 1 - k \in 1 .. n
    <3>1. k \in 1 .. n
      OBVIOUS
    <3>2. QED
      BY <3>1
  <2>2. QED
    BY <2>1
<1>2. PICK r \in R : \A j \in R : j <= r
  <2> HIDE DEF R
  <2>1. QED
    BY <1>1, GreatestMember
<1>3. PICK m \in S : r = n + 1 - m
  OBVIOUS
<1>4. ASSUME NEW k \in S PROVE m <= k
  <2>1. n + 1 - k <= r
    BY <1>2
  <2>2. k \in 1 .. n /\ m \in 1 .. n
    OBVIOUS
  <2>3. QED
    BY <1>3, <2>1, <2>2
<1>5. QED
  BY <1>4

\* What holds before the first round and is kept by each holds after every round.
LEMMA EveryRound ==
  ASSUME NEW n \in Nat, NEW G, 0 \in G, \A m \in 1 .. n : m - 1 \in G => m \in G
  PROVE  \A m \in 0 .. n : m \in G
<1> DEFINE Bad == {m \in 1 .. n : m \notin G}
<1> SUFFICES ASSUME Bad # {}
             PROVE  FALSE
  OBVIOUS
<1>1. PICK m \in Bad : \A k \in Bad : m <= k
  <2>1. Bad \in SUBSET (1 .. n)
    OBVIOUS
  <2> HIDE DEF Bad
  <2>2. QED
    BY <2>1, LeastMember
<1>2. m \in 1 .. n /\ m \notin G
  OBVIOUS
<1>3. CASE m = 1
  BY <1>2, <1>3
<1>4. CASE m # 1
  <2>1. m - 1 \in 1 .. n /\ ~(m <= m - 1)
    BY <1>2, <1>4
  <2>2. m - 1 \notin Bad
    BY <1>1, <2>1
  <2>3. QED
    BY <1>2, <2>1, <2>2
<1>5. QED
  BY <1>3, <1>4

-----------------------------------------------------------------------------
(* Folds over the subsets of a set. *)

Some(s) == CHOOSE x \in s : TRUE

\* g folds f over every subset of S, as MapThenFoldSet does.
Walk(f, S, g) ==
  g = [s \in SUBSET S |-> IF s = {} THEN 0 ELSE f[Some(s)] + g[s \ {Some(s)}]]

LEMMA SumIsWalk ==
  ASSUME NEW f, NEW S
  PROVE  SumFunctionOnSet(f, S) = (CHOOSE g : Walk(f, S, g))[S]
BY DEF SumFunctionOnSet, FoldFunctionOnSet, MapThenFoldSet, Walk, Some

LEMMA SomeIsIn ==
  ASSUME NEW s, s # {}
  PROVE  Some(s) \in s
BY DEF Some

LEMMA WalkUnique ==
  ASSUME NEW f, NEW S, IsFiniteSet(S), NEW R, NEW g, NEW h,
         Walk(f, S, g), Walk(f, R, h), NEW r \in SUBSET S, r \in SUBSET R
  PROVE  g[r] = h[r]
<1> DEFINE Bad == {s \in SUBSET S : s \in SUBSET R /\ g[s] # h[s]}
<1> SUFFICES ASSUME Bad # {}
             PROVE  FALSE
  OBVIOUS
<1>1. PICK s \in Bad : \A y \in Bad : y \subseteq s => y = s
  <2>1. Bad \subseteq SUBSET S
    OBVIOUS
  <2> HIDE DEF Bad
  <2>2. QED
    BY <2>1, SmallestSet
<1>2. s \in SUBSET S /\ s \in SUBSET R /\ g[s] # h[s]
  OBVIOUS
<1>3. CASE s = {}
  BY <1>2, <1>3 DEF Walk
<1>4. CASE s # {}
  <2> DEFINE t == s \ {Some(s)}
  <2>1. Some(s) \in s
    BY <1>4, SomeIsIn
  <2>2. t \in SUBSET S /\ t \in SUBSET R /\ t \subseteq s /\ t # s
    BY <1>2, <2>1
  <2>3. g[t] = h[t]
    BY <1>1, <2>2
  <2>4. g[s] = f[Some(s)] + g[t]
    BY <1>2, <1>4 DEF Walk
  <2>5. h[s] = f[Some(s)] + h[t]
    BY <1>2, <1>4 DEF Walk
  <2>6. QED
    BY <1>2, <2>3, <2>4, <2>5
<1>5. QED
  BY <1>3, <1>4

LEMMA WalkExists ==
  ASSUME NEW f, NEW S, IsFiniteSet(S)
  PROVE  \E g : Walk(f, S, g)
<1> DEFINE Bad == {s \in SUBSET S : ~\E g : Walk(f, s, g)}
<1> SUFFICES ASSUME Bad # {}
             PROVE  FALSE
  OBVIOUS
<1>1. PICK s \in Bad : \A y \in Bad : y \subseteq s => y = s
  <2>1. Bad \subseteq SUBSET S
    OBVIOUS
  <2> HIDE DEF Bad
  <2>2. QED
    BY <2>1, SmallestSet
<1>2. s \subseteq S /\ ~\E g : Walk(f, s, g)
  OBVIOUS
<1> DEFINE W(t) == CHOOSE g : Walk(f, t, g)
           G == [t \in SUBSET s |-> IF t = {} THEN 0 ELSE f[Some(t)] + W(t \ {Some(t)})[t \ {Some(t)}]]
<1>3. ASSUME NEW t \in SUBSET s, t # s
      PROVE  Walk(f, t, W(t)) /\ IsFiniteSet(t)
  <2>1. t \in SUBSET S /\ t \subseteq s
    BY <1>2
  <2>2. t \notin Bad
    BY <1>1, <1>3, <2>1
  <2>3. \E g : Walk(f, t, g)
    BY <2>1, <2>2
  <2>4. Walk(f, t, W(t))
    BY <2>3
  <2>5. QED
    BY <2>1, <2>4, FS_Subset
<1>4. ASSUME NEW t \in SUBSET s, t # s
      PROVE  G[t] = W(t)[t]
  <2>0. Walk(f, t, W(t)) /\ IsFiniteSet(t)
    BY <1>3, <1>4
  <2>1. CASE t = {}
    <3>1. W(t)[t] = 0
      <4> HIDE DEF W
      <4>1. QED
        BY <2>0, <2>1 DEF Walk
    <3>2. QED
      BY <2>1, <3>1
  <2>2. CASE t # {}
    <3> DEFINE u == t \ {Some(t)}
    <3>1. Some(t) \in t
      BY <2>2, SomeIsIn
    <3>2. u \in SUBSET s /\ u # s /\ u \in SUBSET t /\ u \in SUBSET u
      BY <3>1
    <3>3. Walk(f, u, W(u))
      BY <1>3, <3>2
    <3>4. W(t)[u] = W(u)[u]
      <4> HIDE DEF W
      <4>1. QED
        BY <2>0, <3>2, <3>3, WalkUnique
    <3>5. W(t)[t] = f[Some(t)] + W(t)[u]
      <4> HIDE DEF W
      <4>1. QED
        BY <2>0, <2>2 DEF Walk
    <3>6. G[t] = f[Some(t)] + W(u)[u]
      <4> HIDE DEF W
      <4>1. QED
        BY <2>2
    <3>7. QED
      BY <3>4, <3>5, <3>6
  <2>3. QED
    BY <2>1, <2>2
<1>5. Walk(f, s, G)
  <2>1. ASSUME NEW t \in SUBSET s, t # {}
        PROVE  W(t \ {Some(t)})[t \ {Some(t)}] = G[t \ {Some(t)}]
    <3>1. Some(t) \in t
      BY <2>1, SomeIsIn
    <3>2. t \ {Some(t)} \in SUBSET s /\ t \ {Some(t)} # s
      BY <3>1
    <3> HIDE DEF W, G
    <3>3. QED
      BY <1>4, <3>2
  <2>2. \A t \in SUBSET s : G[t] = IF t = {} THEN 0 ELSE f[Some(t)] + G[t \ {Some(t)}]
    <3>1. \A t \in SUBSET s : G[t] = IF t = {} THEN 0 ELSE f[Some(t)] + W(t \ {Some(t)})[t \ {Some(t)}]
      <4> HIDE DEF W
      <4>1. QED
        OBVIOUS
    <3> HIDE DEF W, G
    <3>2. QED
      BY <2>1, <3>1
  <2>3. G = [t \in SUBSET s |-> G[t]]
    <3> HIDE DEF W
    <3>1. QED
      OBVIOUS
  <2> HIDE DEF W, G
  <2>4. QED
    BY <2>2, <2>3 DEF Walk
<1>6. QED
  <2> HIDE DEF G
  <2>1. QED
    BY <1>2, <1>5

-----------------------------------------------------------------------------
(* What a sum is. *)

\* A sum of nothing is 0; any other is some member and the sum of the rest.
LEMMA SumStep ==
  ASSUME NEW f, NEW S, IsFiniteSet(S)
  PROVE  SumFunctionOnSet(f, S) =
           IF S = {} THEN 0 ELSE f[Some(S)] + SumFunctionOnSet(f, S \ {Some(S)})
<1> DEFINE W(t) == CHOOSE g : Walk(f, t, g)
           R == S \ {Some(S)}
<1>1. Walk(f, S, W(S))
  BY WalkExists
<1>2. IsFiniteSet(R) /\ R \in SUBSET S /\ R \in SUBSET R
  BY FS_Subset
<1>3. Walk(f, R, W(R))
  BY <1>2, WalkExists
<1>4. W(S)[R] = W(R)[R]
  <2> HIDE DEF W, R
  <2>1. QED
    BY <1>1, <1>2, <1>3, WalkUnique
<1>5. W(S)[S] = IF S = {} THEN 0 ELSE f[Some(S)] + W(S)[R]
  <2> HIDE DEF W
  <2>1. QED
    BY <1>1 DEF Walk
<1>6. SumFunctionOnSet(f, S) = W(S)[S] /\ SumFunctionOnSet(f, R) = W(R)[R]
  BY SumIsWalk
<1>7. QED
  <2> HIDE DEF W
  <2>1. QED
    BY <1>4, <1>5, <1>6

LEMMA SumEmpty ==
  ASSUME NEW f
  PROVE  SumFunctionOnSet(f, {}) = 0
BY SumStep, FS_EmptySet

\* Only the values on the set matter.
LEMMA SumAgrees ==
  ASSUME NEW f, NEW g, NEW S, IsFiniteSet(S), \A x \in S : f[x] = g[x]
  PROVE  SumFunctionOnSet(f, S) = SumFunctionOnSet(g, S)
<1> DEFINE Bad == {s \in SUBSET S : SumFunctionOnSet(f, s) # SumFunctionOnSet(g, s)}
<1> SUFFICES ASSUME Bad # {}
             PROVE  FALSE
  OBVIOUS
<1>1. PICK s \in Bad : \A y \in Bad : y \subseteq s => y = s
  <2>1. Bad \subseteq SUBSET S
    OBVIOUS
  <2> HIDE DEF Bad
  <2>2. QED
    BY <2>1, SmallestSet
<1>2. s \in SUBSET S /\ IsFiniteSet(s) /\ SumFunctionOnSet(f, s) # SumFunctionOnSet(g, s)
  BY FS_Subset
<1>3. s # {}
  BY <1>2, SumEmpty
<1> DEFINE r == s \ {Some(s)}
<1>4. Some(s) \in s /\ r \in SUBSET S /\ r \subseteq s /\ r # s
  BY <1>2, <1>3, SomeIsIn
<1>5. SumFunctionOnSet(f, r) = SumFunctionOnSet(g, r)
  BY <1>1, <1>4
<1>6. f[Some(s)] = g[Some(s)]
  BY <1>2, <1>4
<1>7. QED
  BY <1>2, <1>3, <1>5, <1>6, SumStep

LEMMA SumIsNat ==
  ASSUME NEW f, NEW S, IsFiniteSet(S), \A x \in S : f[x] \in Nat
  PROVE  SumFunctionOnSet(f, S) \in Nat
<1> DEFINE Bad == {s \in SUBSET S : SumFunctionOnSet(f, s) \notin Nat}
<1> SUFFICES ASSUME Bad # {}
             PROVE  FALSE
  OBVIOUS
<1>1. PICK s \in Bad : \A y \in Bad : y \subseteq s => y = s
  <2>1. Bad \subseteq SUBSET S
    OBVIOUS
  <2> HIDE DEF Bad
  <2>2. QED
    BY <2>1, SmallestSet
<1>2. s \in SUBSET S /\ IsFiniteSet(s) /\ SumFunctionOnSet(f, s) \notin Nat
  BY FS_Subset
<1>3. s # {}
  BY <1>2, SumEmpty
<1> DEFINE r == s \ {Some(s)}
<1>4. Some(s) \in s /\ r \in SUBSET S /\ r \subseteq s /\ r # s
  BY <1>2, <1>3, SomeIsIn
<1>5. SumFunctionOnSet(f, r) \in Nat
  BY <1>1, <1>4
<1>6. f[Some(s)] \in Nat
  BY <1>2, <1>4
<1>7. SumFunctionOnSet(f, s) = f[Some(s)] + SumFunctionOnSet(f, r)
  BY <1>2, <1>3, SumStep
<1>8. QED
  BY <1>2, <1>5, <1>6, <1>7

\* Any member may be the first.
LEMMA SumRemove ==
  ASSUME NEW f, NEW S, IsFiniteSet(S), \A x \in S : f[x] \in Nat, NEW x \in S
  PROVE  SumFunctionOnSet(f, S) = f[x] + SumFunctionOnSet(f, S \ {x})
<1> DEFINE Sum(s) == SumFunctionOnSet(f, s)
           Bad == {s \in SUBSET S : \E y \in s : Sum(s) # f[y] + Sum(s \ {y})}
<1> SUFFICES ASSUME Bad # {}
             PROVE  FALSE
  OBVIOUS
<1>1. PICK s \in Bad : \A y \in Bad : y \subseteq s => y = s
  <2>1. Bad \subseteq SUBSET S
    OBVIOUS
  <2> HIDE DEF Bad
  <2>2. QED
    BY <2>1, SmallestSet
<1>2. PICK y \in s : Sum(s) # f[y] + Sum(s \ {y})
  OBVIOUS
<1> DEFINE z == Some(s)
<1>3. z \in s /\ f[y] \in Nat /\ f[z] \in Nat
  BY SomeIsIn
<1>4. /\ IsFiniteSet(s) /\ s # {}
      /\ \A t \in SUBSET s : IsFiniteSet(t) /\ Sum(t) \in Nat
  <2>1. \A t \in SUBSET s : IsFiniteSet(t) /\ \A u \in t : f[u] \in Nat
    BY FS_Subset
  <2>2. \A t \in SUBSET s : Sum(t) \in Nat
    BY <2>1, SumIsNat
  <2>3. QED
    BY <1>2, <2>1, <2>2
<1>5. Sum(s) = f[z] + Sum(s \ {z})
  BY <1>4, SumStep
<1>6. y # z
  BY <1>2, <1>5
<1>7. Sum(s \ {z}) = f[y] + Sum((s \ {z}) \ {y})
  <2>1. s \ {z} \in SUBSET S /\ s \ {z} \subseteq s /\ s \ {z} # s /\ y \in s \ {z}
    BY <1>3, <1>6
  <2>2. s \ {z} \notin Bad
    BY <1>1, <2>1
  <2> HIDE DEF Sum, z
  <2>3. QED
    BY <2>1, <2>2
<1>8. Sum(s \ {y}) = f[z] + Sum((s \ {y}) \ {z})
  <2>1. s \ {y} \in SUBSET S /\ s \ {y} \subseteq s /\ s \ {y} # s /\ z \in s \ {y}
    BY <1>3, <1>6
  <2>2. s \ {y} \notin Bad
    BY <1>1, <2>1
  <2> HIDE DEF Sum, z
  <2>3. QED
    BY <2>1, <2>2
<1>9. (s \ {z}) \ {y} = (s \ {y}) \ {z}
  OBVIOUS
<1>10. Sum((s \ {z}) \ {y}) \in Nat
  BY <1>4
<1>11. QED
  <2> HIDE DEF Sum, z
  <2>1. QED
    BY <1>2, <1>3, <1>5, <1>7, <1>8, <1>9, <1>10

LEMMA SumAdd ==
  ASSUME NEW f, NEW S, IsFiniteSet(S), \A x \in S : f[x] \in Nat,
         NEW x, x \notin S, f[x] \in Nat
  PROVE  SumFunctionOnSet(f, S \cup {x}) = f[x] + SumFunctionOnSet(f, S)
<1>1. IsFiniteSet(S \cup {x})
  BY FS_AddElement
<1>2. (S \cup {x}) \ {x} = S
  OBVIOUS
<1>3. \A y \in S \cup {x} : f[y] \in Nat
  OBVIOUS
<1>4. QED
  BY <1>1, <1>2, <1>3, SumRemove
-----------------------------------------------------------------------------
(* Loops over a sequence of n elements, as FoldLeft writes them: g folded over *)
(* every set of positions, the last position last.                          *)

Loop(g, base, D, iter) ==
  iter = [s \in SUBSET D |-> IF s = {} THEN base ELSE g[<<Max(s), iter[s \ {Max(s)}]>>]]

LEMMA IntervalFinite ==
  ASSUME NEW n \in Nat, NEW S, S \subseteq 1 .. n
  PROVE  IsFiniteSet(S)
<1>1. 1 \in Int /\ n \in Int
  OBVIOUS
<1>2. IsFiniteSet(1 .. n)
  BY <1>1, FS_Interval
<1>3. QED
  BY <1>2, FS_Subset

\* Every set of positions has a last one.
HasMax(S) == IsFiniteSet(S) /\ \A s \in SUBSET S : s # {} => Max(s) \in s

LEMMA HasMaxInside ==
  ASSUME NEW S, HasMax(S), NEW t, t \subseteq S
  PROVE  HasMax(t)
BY FS_Subset DEF HasMax

LEMMA IntervalHasMax ==
  ASSUME NEW n \in Nat
  PROVE  HasMax(1 .. n)
BY MaxIsMember, IntervalFinite DEF HasMax

LEMMA LoopUnique ==
  ASSUME NEW S, HasMax(S), NEW R, NEW f, NEW base, NEW g, NEW h,
         Loop(f, base, S, g), Loop(f, base, R, h), NEW r \in SUBSET S, r \in SUBSET R
  PROVE  g[r] = h[r]
<1> DEFINE Bad == {s \in SUBSET S : s \in SUBSET R /\ g[s] # h[s]}
<1> SUFFICES ASSUME Bad # {}
             PROVE  FALSE
  OBVIOUS
<1>1. PICK s \in Bad : \A y \in Bad : y \subseteq s => y = s
  <2>1. IsFiniteSet(S)
    BY DEF HasMax
  <2>2. Bad \subseteq SUBSET S /\ Bad # {}
    OBVIOUS
  <2> HIDE DEF Bad
  <2>3. QED
    BY ONLY <2>1, <2>2, SmallestSet
<1>2. s \in SUBSET S /\ s \in SUBSET R /\ g[s] # h[s]
  OBVIOUS
<1>3. CASE s = {}
  BY <1>2, <1>3 DEF Loop
<1>4. CASE s # {}
  <2> DEFINE t == s \ {Max(s)}
  <2>1. Max(s) \in s
    BY <1>2, <1>4 DEF HasMax
  <2>2. t \in SUBSET S /\ t \in SUBSET R /\ t \subseteq s /\ t # s
    BY <1>2, <2>1
  <2>3. g[t] = h[t]
    BY <1>1, <2>2
  <2>4. g[s] = f[<<Max(s), g[t]>>]
    BY <1>2, <1>4 DEF Loop
  <2>5. h[s] = f[<<Max(s), h[t]>>]
    BY <1>2, <1>4 DEF Loop
  <2>6. QED
    BY <1>2, <2>3, <2>4, <2>5
<1>5. QED
  BY <1>3, <1>4

LEMMA LoopExists ==
  ASSUME NEW S, HasMax(S), NEW f, NEW base
  PROVE  \E g : Loop(f, base, S, g)
<1> DEFINE Bad == {s \in SUBSET S : ~\E g : Loop(f, base, s, g)}
<1> SUFFICES ASSUME Bad # {}
             PROVE  FALSE
  OBVIOUS
<1>1. PICK s \in Bad : \A y \in Bad : y \subseteq s => y = s
  <2>1. IsFiniteSet(S)
    BY DEF HasMax
  <2>2. Bad \subseteq SUBSET S /\ Bad # {}
    OBVIOUS
  <2> HIDE DEF Bad
  <2>3. QED
    BY ONLY <2>1, <2>2, SmallestSet
<1>2. s \subseteq S /\ ~\E g : Loop(f, base, s, g)
  OBVIOUS
<1> DEFINE W(t) == CHOOSE g : Loop(f, base, t, g)
           G == [t \in SUBSET s |-> IF t = {} THEN base ELSE f[<<Max(t), W(t \ {Max(t)})[t \ {Max(t)}]>>]]
<1>3. ASSUME NEW t \in SUBSET s, t # s
      PROVE  Loop(f, base, t, W(t))
  <2>1. t \in SUBSET S /\ t \subseteq s
    BY <1>2
  <2>2. t \notin Bad
    BY <1>1, <1>3, <2>1
  <2>3. \E g : Loop(f, base, t, g)
    BY <2>1, <2>2
  <2>4. Loop(f, base, t, W(t))
    BY <2>3
  <2>5. QED
    BY <2>4
<1>4. ASSUME NEW t \in SUBSET s, t # s
      PROVE  G[t] = W(t)[t]
  <2>0. Loop(f, base, t, W(t))
    BY <1>3, <1>4
  <2>1. CASE t = {}
    <3>1. W(t)[t] = base
      <4> HIDE DEF W
      <4>1. QED
        BY <2>0, <2>1 DEF Loop
    <3>2. QED
      BY <2>1, <3>1
  <2>2. CASE t # {}
    <3> DEFINE u == t \ {Max(t)}
    <3>1. Max(t) \in t
      BY <1>2, <2>2 DEF HasMax
    <3>2. u \in SUBSET s /\ u # s /\ u \in SUBSET t /\ u \in SUBSET u
      BY <3>1
    <3>3. Loop(f, base, u, W(u))
      BY <1>3, <3>2
    <3>4. W(t)[u] = W(u)[u]
      <4>1. HasMax(t) /\ u \in SUBSET t /\ u \in SUBSET u
        BY <1>2, <3>2, HasMaxInside
      <4> HIDE DEF W, u
      <4>2. QED
        BY ONLY <2>0, <3>3, <4>1, LoopUnique
    <3>5. W(t)[t] = f[<<Max(t), W(t)[u]>>]
      <4> HIDE DEF W
      <4>1. QED
        BY <2>0, <2>2 DEF Loop
    <3>6. G[t] = f[<<Max(t), W(u)[u]>>]
      <4> HIDE DEF W
      <4>1. QED
        BY <2>2
    <3>7. QED
      BY <3>4, <3>5, <3>6
  <2>3. QED
    BY <2>1, <2>2
<1>5. Loop(f, base, s, G)
  <2>1. ASSUME NEW t \in SUBSET s, t # {}
        PROVE  W(t \ {Max(t)})[t \ {Max(t)}] = G[t \ {Max(t)}]
    <3>1. Max(t) \in t
      BY <1>2, <2>1 DEF HasMax
    <3>2. t \ {Max(t)} \in SUBSET s /\ t \ {Max(t)} # s
      BY <3>1
    <3> HIDE DEF W, G
    <3>3. QED
      BY <1>4, <3>2
  <2>2. \A t \in SUBSET s : G[t] = IF t = {} THEN base ELSE f[<<Max(t), G[t \ {Max(t)}]>>]
    <3>1. \A t \in SUBSET s : G[t] = IF t = {} THEN base ELSE f[<<Max(t), W(t \ {Max(t)})[t \ {Max(t)}]>>]
      <4> HIDE DEF W
      <4>1. QED
        OBVIOUS
    <3> HIDE DEF W, G
    <3>2. QED
      BY <2>1, <3>1
  <2>3. G = [t \in SUBSET s |-> G[t]]
    <3> HIDE DEF W
    <3>1. QED
      OBVIOUS
  <2> HIDE DEF W, G
  <2>4. QED
    BY <2>2, <2>3 DEF Loop
<1>6. QED
  <2> HIDE DEF G
  <2>1. QED
    BY <1>2, <1>5

\* A loop whose rounds stay in Acc: what it has after m elements is a step from what
\* it had before the m-th.
LEMMA LoopTyped ==
  ASSUME NEW n \in Nat, NEW Acc, NEW base \in Acc, NEW f \in [(1 .. n) \X Acc -> Acc]
  PROVE  \E g \in [SUBSET (1 .. n) -> Acc] : Loop(f, base, 1 .. n, g)
<1>1. PICK g : Loop(f, base, 1 .. n, g)
  BY IntervalHasMax, LoopExists
<1> DEFINE Bad == {s \in SUBSET (1 .. n) : g[s] \notin Acc}
<1>2. CASE Bad = {}
  <2>1. \A s \in SUBSET (1 .. n) : g[s] \in Acc
    BY <1>2
  <2>2. QED
    BY <1>1, <2>1 DEF Loop
<1>3. CASE Bad # {}
  <2>1. PICK s \in Bad : \A y \in Bad : y \subseteq s => y = s
    <3>1. IsFiniteSet(1 .. n)
      BY IntervalFinite
    <3> DEFINE D == 1 .. n
    <3>2. Bad \subseteq SUBSET D /\ Bad # {} /\ IsFiniteSet(D)
      BY <1>3, <3>1
    <3> HIDE DEF Bad, D
    <3>3. QED
      BY ONLY <3>2, SmallestSet
  <2>2. s \in SUBSET (1 .. n) /\ g[s] \notin Acc
    OBVIOUS
  <2>3. s # {}
    BY <1>1, <2>2 DEF Loop
  <2> DEFINE r == s \ {Max(s)}
  <2>4. Max(s) \in s
    BY <2>2, <2>3, MaxIsMember
  <2>5. r \in SUBSET (1 .. n) /\ r \subseteq s /\ r # s /\ Max(s) \in 1 .. n
    BY <2>2, <2>4
  <2>6. g[r] \in Acc
    BY <2>1, <2>5
  <2>7. g[s] = f[<<Max(s), g[r]>>]
    BY <1>1, <2>2, <2>3 DEF Loop
  <2> HIDE DEF r
  <2>8. QED
    BY <2>2, <2>5, <2>6, <2>7
<1>4. QED
  BY <1>2, <1>3

\* The m-th round takes the m-th element.
LEMMA LastOfRound ==
  ASSUME NEW m \in Nat, m > 0
  PROVE  /\ Max(1 .. m) = m /\ (1 .. m) \ {m} = 1 .. m - 1 /\ 1 .. m # {}
<1>1. m \in 1 .. m /\ \A k \in 1 .. m : m >= k
  OBVIOUS
<1>2. \A j \in 1 .. m : (\A k \in 1 .. m : j >= k) => j = m
  BY <1>1
<1>3. Max(1 .. m) = m
  BY <1>1, <1>2 DEF Max
<1>4. QED
  BY <1>1, <1>3
=============================================================================
