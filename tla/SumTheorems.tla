---------------------------- MODULE SumTheorems ----------------------------
(***************************************************************************)
(* Sums of a function over a finite set: earnings of the deliveries of a   *)
(* day, stars of the reviews of a food.  SumFunctionOnSet is a recursive   *)
(* function on the subsets of the set; induction is the least of a         *)
(* set of counterexamples, for which strict inclusion is well-founded.     *)
(***************************************************************************)
EXTENDS Integers, FiniteSets, Functions, FiniteSetTheorems, WellFoundedInduction, TLAPS

Pick(s) == CHOOSE x \in s : TRUE
Rec(f, D, g) ==
    g = [s \in SUBSET D |-> IF s = {} THEN 0 ELSE f[Pick(s)] + g[s \ {Pick(s)}]]

(* Of a nonempty set of subsets of a finite set one contains no other.     *)
LEMMA SmallestSet ==
  ASSUME NEW D, IsFiniteSet(D), NEW T, T \subseteq SUBSET D, T # {}
  PROVE  \E s \in T : \A u \in T : u \subseteq s => u = s
<1> USE FS_FiniteSubsetsOfFinite
<1>1. IsWellFoundedOn(StrictSubsetOrdering(D), SUBSET D)
  BY FS_StrictSubsetOrderingWellFounded
<1>2. \E s \in T : \A u \in T : <<u, s>> \notin StrictSubsetOrdering(D)
  BY <1>1, WFMin
<1> QED BY <1>2 DEF StrictSubsetOrdering

(* Of a nonempty set of numbers one is the smallest.                       *)
LEMMA SmallestNumber ==
  ASSUME NEW T, T \subseteq Nat, T # {}
  PROVE  \E n \in T : \A m \in T : n <= m
<1>1. PICK k \in T : TRUE
  OBVIOUS
<1> DEFINE D == 0..k
           B == {s \in SUBSET D : \E n \in T : s = 0..n}
<1>2. IsFiniteSet(D)
  BY <1>1, FS_Interval
<1>3. D \in B
  BY <1>1
<1>4. PICK s \in B : \A u \in B : u \subseteq s => u = s
  <2>1. B \subseteq SUBSET D /\ B # {}
    BY <1>3
  <2> HIDE DEF B, D
  <2> QED BY <1>2, <2>1, SmallestSet
<1>5. PICK n \in T : s = 0..n
  BY <1>4
<1>6. ASSUME NEW m \in T, m < n
      PROVE  FALSE
  <2>1. 0..m \subseteq 0..n /\ n \notin 0..m /\ n \in 0..n
    BY <1>6, <1>5
  <2>2. 0..m \in B
    BY <2>1, <1>4, <1>5
  <2> QED BY <2>1, <2>2, <1>4, <1>5
<1> QED BY <1>6

LEMMA PickIn == \A s : s # {} => Pick(s) \in s
  BY DEF Pick

LEMMA RecAt ==
  ASSUME NEW f, NEW D, NEW g, Rec(f, D, g), NEW s \in SUBSET D
  PROVE  g[s] = IF s = {} THEN 0 ELSE f[Pick(s)] + g[s \ {Pick(s)}]
  BY DEF Rec

LEMMA RecUnique ==
  ASSUME NEW f, NEW D, IsFiniteSet(D), NEW E, NEW g, NEW h, Rec(f, D, g), Rec(f, E, h),
         NEW t \in SUBSET D, t \in SUBSET E
  PROVE  g[t] = h[t]
<1> DEFINE B == {s \in SUBSET D : s \in SUBSET E /\ g[s] # h[s]}
<1> SUFFICES ASSUME B # {} PROVE FALSE
  OBVIOUS
<1>1. PICK s \in B : \A u \in B : u \subseteq s => u = s
  <2> HIDE DEF B
  <2>1. B \subseteq SUBSET D
    BY DEF B
  <2> QED BY <2>1, SmallestSet
<1> HIDE DEF B
<1>6. s \in SUBSET D /\ s \in SUBSET E /\ g[s] # h[s]
  BY DEF B
<1>2. g[s] = (IF s = {} THEN 0 ELSE f[Pick(s)] + g[s \ {Pick(s)}])
  BY <1>6, RecAt
<1>3. h[s] = (IF s = {} THEN 0 ELSE f[Pick(s)] + h[s \ {Pick(s)}])
  BY <1>6, RecAt
<1>4. CASE s = {}
  BY <1>2, <1>3, <1>4, <1>6
<1>5. CASE s # {}
  <2>1. s \ {Pick(s)} # s
    BY <1>5, PickIn
  <2>2. g[s \ {Pick(s)}] = h[s \ {Pick(s)}]
    <3>1. s \ {Pick(s)} \in SUBSET D /\ s \ {Pick(s)} \in SUBSET E
      BY <1>6
    <3> QED BY <1>1, <2>1, <3>1 DEF B
  <2> QED BY <1>2, <1>3, <1>5, <1>6, <2>2
<1> QED BY <1>4, <1>5

LEMMA RecExists ==
  ASSUME NEW f, NEW D, IsFiniteSet(D)
  PROVE  \E g : Rec(f, D, g)
<1> DEFINE B == {d \in SUBSET D : ~ \E g : Rec(f, d, g)}
<1> SUFFICES ASSUME B # {} PROVE FALSE
  OBVIOUS
<1>1. PICK M \in B : \A u \in B : u \subseteq M => u = M
  <2> HIDE DEF B
  <2>1. B \subseteq SUBSET D
    BY DEF B
  <2> QED BY <2>1, SmallestSet
<1> DEFINE G(u) == CHOOSE g : Rec(f, u, g)
           V(u) == G(u)[u]
           new == [s \in SUBSET M |-> IF s = {} THEN 0 ELSE f[Pick(s)] + V(s \ {Pick(s)})]
<1>2. ASSUME NEW u \in SUBSET M, u # M
      PROVE  Rec(f, u, G(u)) /\ IsFiniteSet(u)
  <2>1. \E g : Rec(f, u, g)
    BY <1>1, <1>2
  <2>2. Rec(f, u, G(u))
    BY <2>1
  <2>3. IsFiniteSet(u)
    BY <1>1, FS_Subset
  <2> QED BY <2>2, <2>3
<1>3. ASSUME NEW s \in SUBSET M, s # {}
      PROVE  new[s \ {Pick(s)}] = V(s \ {Pick(s)})
  <2> DEFINE t == s \ {Pick(s)}
             w == t \ {Pick(t)}
  <2>1. t \in SUBSET M /\ t # M /\ w \in SUBSET t /\ w # M
    BY <1>3, PickIn
  <2>2. Rec(f, t, G(t)) /\ Rec(f, w, G(w)) /\ IsFiniteSet(w)
    BY <2>1, <1>2
  <2> HIDE DEF t, w, G
  <2>3. G(t)[t] = IF t = {} THEN 0 ELSE f[Pick(t)] + G(t)[t \ {Pick(t)}]
    BY <2>2, RecAt
  <2>4. G(t)[w] = G(w)[w]
    <3>1. w \in SUBSET w
      OBVIOUS
    <3>2. IsFiniteSet(t)
      BY <2>1, <1>2
    <3> QED BY <2>1, <2>2, <3>1, <3>2, RecUnique
  <2>5. new[t] = IF t = {} THEN 0 ELSE f[Pick(t)] + V(w)
    BY <2>1 DEF w
  <2>6. new[t] = V(t)
    BY <2>3, <2>4, <2>5 DEF w
  <2> QED BY <2>6 DEF t
<1>4. Rec(f, M, new)
  <2>1. \A s \in SUBSET M : s # {} => new[s \ {Pick(s)}] = V(s \ {Pick(s)})
    BY <1>3
  <2>2. new = [s \in SUBSET M |-> IF s = {} THEN 0 ELSE f[Pick(s)] + new[s \ {Pick(s)}]]
    <3> HIDE DEF V
    <3>1. \A s \in SUBSET M : new[s] = IF s = {} THEN 0 ELSE f[Pick(s)] + new[s \ {Pick(s)}]
      BY <2>1
    <3> QED BY <3>1
  <2> QED BY <2>2 DEF Rec
<1> QED BY <1>1, <1>4

LEMMA SumIs ==
  ASSUME NEW f, NEW D
  PROVE  SumFunctionOnSet(f, D) = (CHOOSE g : Rec(f, D, g))[D]
  BY DEF SumFunctionOnSet, FoldFunctionOnSet, MapThenFoldSet, Rec, Pick

LEMMA SumRec ==
  ASSUME NEW f, NEW D, IsFiniteSet(D), NEW g, Rec(f, D, g), NEW s \in SUBSET D
  PROVE  SumFunctionOnSet(f, s) = g[s]
<1>1. IsFiniteSet(s)
  BY FS_Subset
<1> DEFINE h == CHOOSE i : Rec(f, s, i)
<1>2. Rec(f, s, h)
  BY <1>1, RecExists
<1>3. SumFunctionOnSet(f, s) = h[s]
  BY SumIs
<1> HIDE DEF h
<1>4. s \in SUBSET s
  OBVIOUS
<1> QED BY <1>1, <1>2, <1>3, <1>4, RecUnique

(* The sum over nothing.                                                   *)
THEOREM SumEmpty == ASSUME NEW f PROVE SumFunctionOnSet(f, {}) = 0
<1>1. IsFiniteSet({})
  BY FS_EmptySet
<1>2. PICK g : Rec(f, {}, g)
  BY <1>1, RecExists
<1> QED BY <1>1, <1>2, SumRec, RecAt

LEMMA SumPick ==
  ASSUME NEW f, NEW D, IsFiniteSet(D), D # {}
  PROVE  SumFunctionOnSet(f, D) = f[Pick(D)] + SumFunctionOnSet(f, D \ {Pick(D)})
<1>1. PICK g : Rec(f, D, g)
  BY RecExists
<1>2. SumFunctionOnSet(f, D) = g[D] /\ SumFunctionOnSet(f, D \ {Pick(D)}) = g[D \ {Pick(D)}]
  <2>1. D \in SUBSET D /\ D \ {Pick(D)} \in SUBSET D
    OBVIOUS
  <2> QED BY <1>1, <2>1, SumRec
<1>3. g[D] = f[Pick(D)] + g[D \ {Pick(D)}]
  BY <1>1, RecAt
<1> QED BY <1>2, <1>3

(* A sum of integers is an integer.                                        *)
THEOREM SumInt ==
  ASSUME NEW f, NEW D, IsFiniteSet(D), \A x \in D : f[x] \in Int
  PROVE  SumFunctionOnSet(f, D) \in Int
<1> DEFINE B == {d \in SUBSET D : SumFunctionOnSet(f, d) \notin Int}
<1> SUFFICES ASSUME B # {} PROVE FALSE
  OBVIOUS
<1>1. PICK s \in B : \A u \in B : u \subseteq s => u = s
  <2>1. B \subseteq SUBSET D /\ B # {}
    OBVIOUS
  <2> HIDE DEF B
  <2> QED BY <2>1, SmallestSet
<1>2. s # {} /\ IsFiniteSet(s) /\ s \in SUBSET D
  <2>1. IsFiniteSet(s)
    BY FS_Subset
  <2> QED BY <2>1, SumEmpty
<1>3. Pick(s) \in s
  BY <1>2, PickIn
<1> DEFINE rest == s \ {Pick(s)}
<1>4. SumFunctionOnSet(f, rest) \in Int
  <2>1. rest \in SUBSET D /\ rest # s /\ rest \subseteq s
    BY <1>2, <1>3
  <2> QED BY <2>1, <1>1
<1>5. SumFunctionOnSet(f, s) = f[Pick(s)] + SumFunctionOnSet(f, rest)
  BY <1>2, SumPick
<1> QED BY <1>1, <1>2, <1>3, <1>4, <1>5

(* Any element may be taken out of a sum.                                  *)
THEOREM SumRemove ==
  ASSUME NEW f, NEW D, IsFiniteSet(D), \A x \in D : f[x] \in Int, NEW a \in D
  PROVE  SumFunctionOnSet(f, D) = f[a] + SumFunctionOnSet(f, D \ {a})
<1> DEFINE Sum(d) == SumFunctionOnSet(f, d)
           B == {d \in SUBSET D : \E x \in d : Sum(d) # f[x] + Sum(d \ {x})}
<1> SUFFICES ASSUME B # {} PROVE FALSE
  OBVIOUS
<1>1. PICK s \in B : \A u \in B : u \subseteq s => u = s
  <2>1. B \subseteq SUBSET D /\ B # {}
    OBVIOUS
  <2> HIDE DEF B
  <2> QED BY <2>1, SmallestSet
<1>2. s \in SUBSET D /\ IsFiniteSet(s)
  BY FS_Subset
<1>3. PICK x \in s : Sum(s) # f[x] + Sum(s \ {x})
  OBVIOUS
<1> DEFINE p == Pick(s)
           both == (s \ {x}) \ {p}
<1>4. p \in s /\ Sum(s) = f[p] + Sum(s \ {p})
  BY <1>2, <1>3, PickIn, SumPick
<1>5. p # x
  BY <1>3, <1>4
<1>6. ASSUME NEW u \in SUBSET s, u # s, NEW y \in u
      PROVE  Sum(u) = f[y] + Sum(u \ {y})
  BY <1>6, <1>1, <1>2
<1> HIDE DEF p, Sum, B
<1>7. Sum(s \ {p}) = f[x] + Sum((s \ {p}) \ {x})
  BY <1>3, <1>4, <1>5, <1>6
<1>8. Sum(s \ {x}) = f[p] + Sum(both)
  BY <1>3, <1>4, <1>5, <1>6
<1>9. Sum((s \ {p}) \ {x}) = Sum(both)
  <2>1. (s \ {p}) \ {x} = both
    OBVIOUS
  <2> QED BY <2>1
<1>10. Sum(both) \in Int
  <2>1. both \in SUBSET D /\ IsFiniteSet(both)
    BY <1>2, FS_Subset
  <2>2. \A z \in both : f[z] \in Int
    BY <2>1
  <2> HIDE DEF both
  <2> QED BY <2>1, <2>2, SumInt DEF Sum
<1>11. f[p] \in Int /\ f[x] \in Int
  BY <1>2, <1>3, <1>4
<1> HIDE DEF both
<1>12. Sum(s) = f[p] + (f[x] + Sum(both))
  BY <1>4, <1>7, <1>9
<1>13. f[p] + (f[x] + Sum(both)) = f[x] + (f[p] + Sum(both))
  BY <1>10, <1>11
<1> QED BY <1>3, <1>8, <1>12, <1>13

(* An element may be added.                                                *)
THEOREM SumAdd ==
  ASSUME NEW f, NEW D, IsFiniteSet(D), NEW a, a \notin D, \A x \in D \cup {a} : f[x] \in Int
  PROVE  SumFunctionOnSet(f, D \cup {a}) = f[a] + SumFunctionOnSet(f, D)
<1> DEFINE E == D \cup {a}
<1>1. IsFiniteSet(E) /\ a \in E /\ E \ {a} = D
  BY FS_AddElement
<1>2. \A x \in E : f[x] \in Int
  OBVIOUS
<1> HIDE DEF E
<1>3. SumFunctionOnSet(f, E) = f[a] + SumFunctionOnSet(f, E \ {a})
  BY <1>1, <1>2, SumRemove
<1> QED BY <1>1, <1>3 DEF E

(* Functions that agree on the set have the same sum.                      *)
THEOREM SumEqual ==
  ASSUME NEW f, NEW g, NEW D, IsFiniteSet(D), \A x \in D : f[x] = g[x]
  PROVE  SumFunctionOnSet(f, D) = SumFunctionOnSet(g, D)
<1> DEFINE B == {d \in SUBSET D : SumFunctionOnSet(f, d) # SumFunctionOnSet(g, d)}
<1> SUFFICES ASSUME B # {} PROVE FALSE
  OBVIOUS
<1>1. PICK s \in B : \A u \in B : u \subseteq s => u = s
  <2>1. B \subseteq SUBSET D /\ B # {}
    OBVIOUS
  <2> HIDE DEF B
  <2> QED BY <2>1, SmallestSet
<1>2. s # {} /\ IsFiniteSet(s) /\ s \in SUBSET D
  <2>1. IsFiniteSet(s)
    BY FS_Subset
  <2> QED BY <2>1, SumEmpty
<1>3. Pick(s) \in s
  BY <1>2, PickIn
<1> DEFINE rest == s \ {Pick(s)}
<1>4. SumFunctionOnSet(f, rest) = SumFunctionOnSet(g, rest)
  <2>1. rest \in SUBSET D /\ rest # s /\ rest \subseteq s
    BY <1>2, <1>3
  <2> QED BY <2>1, <1>1
<1>5. /\ SumFunctionOnSet(f, s) = f[Pick(s)] + SumFunctionOnSet(f, rest)
      /\ SumFunctionOnSet(g, s) = g[Pick(s)] + SumFunctionOnSet(g, rest)
  BY <1>2, SumPick
<1> QED BY <1>1, <1>2, <1>3, <1>4, <1>5

(* A sum changes by what one of its terms changes by.                      *)
THEOREM SumChange ==
  ASSUME NEW f, NEW g, NEW D, IsFiniteSet(D), NEW a \in D,
         \A x \in D : f[x] \in Int /\ g[x] \in Int, \A x \in D \ {a} : f[x] = g[x]
  PROVE  SumFunctionOnSet(g, D) = SumFunctionOnSet(f, D) + g[a] - f[a]
<1>1. IsFiniteSet(D \ {a}) /\ \A x \in D \ {a} : f[x] \in Int
  BY FS_RemoveElement
<1>2. SumFunctionOnSet(f, D \ {a}) = SumFunctionOnSet(g, D \ {a})
  BY <1>1, SumEqual
<1>3. SumFunctionOnSet(f, D \ {a}) \in Int
  BY <1>1, SumInt
<1>4. /\ SumFunctionOnSet(f, D) = f[a] + SumFunctionOnSet(f, D \ {a})
      /\ SumFunctionOnSet(g, D) = g[a] + SumFunctionOnSet(g, D \ {a})
  BY SumRemove
<1> QED BY <1>2, <1>3, <1>4

(* A sum of so many terms between two bounds is between as many times the  *)
(* bounds.                                                                 *)
THEOREM SumBounds ==
  ASSUME NEW f, NEW D, IsFiniteSet(D), NEW lo \in Int, NEW hi \in Int,
         \A x \in D : f[x] \in Int /\ lo <= f[x] /\ f[x] <= hi
  PROVE  /\ lo * Cardinality(D) <= SumFunctionOnSet(f, D)
         /\ SumFunctionOnSet(f, D) <= hi * Cardinality(D)
<1> DEFINE Good(d) == /\ lo * Cardinality(d) <= SumFunctionOnSet(f, d)
                      /\ SumFunctionOnSet(f, d) <= hi * Cardinality(d)
           B == {d \in SUBSET D : ~Good(d)}
<1> SUFFICES ASSUME B # {} PROVE FALSE
  OBVIOUS
<1>1. PICK s \in B : \A u \in B : u \subseteq s => u = s
  <2>1. B \subseteq SUBSET D /\ B # {}
    OBVIOUS
  <2> HIDE DEF B
  <2> QED BY <2>1, SmallestSet
<1>2. IsFiniteSet(s) /\ s \in SUBSET D
  BY FS_Subset
<1>3. s # {}
  BY SumEmpty, FS_EmptySet
<1>4. Pick(s) \in s
  BY <1>3, PickIn
<1> DEFINE rest == s \ {Pick(s)}
           n == Cardinality(rest)
           t == SumFunctionOnSet(f, rest)
           v == f[Pick(s)]
<1>5. Good(rest)
  <2>1. rest \in SUBSET D /\ rest # s /\ rest \subseteq s
    BY <1>2, <1>4
  <2> QED BY <2>1, <1>1
<1>6. SumFunctionOnSet(f, s) = v + t
  BY <1>2, <1>3, SumPick
<1>7. n \in Nat /\ Cardinality(s) = n + 1
  <2>1. IsFiniteSet(rest) /\ Cardinality(rest) = Cardinality(s) - 1
    BY <1>2, <1>4, FS_RemoveElement
  <2>2. Cardinality(rest) \in Nat /\ Cardinality(s) \in Nat
    <3> HIDE DEF rest
    <3> QED BY <1>2, <2>1, FS_CardinalityType
  <2> QED BY <2>1, <2>2
<1>8. t \in Int
  <2>1. IsFiniteSet(rest) /\ \A x \in rest : f[x] \in Int
    BY <1>2, FS_RemoveElement
  <2> QED BY <2>1, SumInt
<1>9. v \in Int /\ lo <= v /\ v <= hi
  BY <1>2, <1>4
<1>10. lo * n <= t /\ t <= hi * n
  BY <1>5
<1>11. lo * (n + 1) = lo * n + lo /\ hi * (n + 1) = hi * n + hi
       /\ lo * n \in Int /\ hi * n \in Int
  <2> HIDE DEF n
  <2> QED BY <1>7
<1> HIDE DEF n, t, v
<1>12. Good(s)
  BY <1>6, <1>7, <1>8, <1>9, <1>10, <1>11
<1> QED BY <1>1, <1>12

(* Nothing adds up to nothing.                                             *)
THEOREM SumZero ==
  ASSUME NEW f, NEW D, IsFiniteSet(D), \A x \in D : f[x] = 0
  PROVE  SumFunctionOnSet(f, D) = 0
<1>1. \A x \in D : f[x] \in Int /\ 0 <= f[x] /\ f[x] <= 0
  OBVIOUS
<1>2. 0 * Cardinality(D) <= SumFunctionOnSet(f, D) /\ SumFunctionOnSet(f, D) <= 0 * Cardinality(D)
  BY <1>1, SumBounds
<1>3. Cardinality(D) \in Nat /\ SumFunctionOnSet(f, D) \in Int
  BY <1>1, FS_CardinalityType, SumInt
<1> QED BY <1>2, <1>3

(* The sum over two sets that have nothing in common.                      *)
THEOREM SumUnion ==
  ASSUME NEW f, NEW D, NEW E, IsFiniteSet(D), IsFiniteSet(E), D \cap E = {},
         \A x \in D \cup E : f[x] \in Int
  PROVE  SumFunctionOnSet(f, D \cup E) = SumFunctionOnSet(f, D) + SumFunctionOnSet(f, E)
<1> DEFINE Sum(d) == SumFunctionOnSet(f, d)
           B == {d \in SUBSET E : Sum(D \cup d) # Sum(D) + Sum(d)}
<1> SUFFICES ASSUME B # {} PROVE FALSE
  OBVIOUS
<1>1. PICK s \in B : \A u \in B : u \subseteq s => u = s
  <2>1. B \subseteq SUBSET E /\ B # {}
    OBVIOUS
  <2> HIDE DEF B
  <2> QED BY <2>1, SmallestSet
<1>2. s \in SUBSET E /\ IsFiniteSet(s) /\ Sum(D) \in Int
  BY FS_Subset, SumInt
<1>3. s # {}
  <2>1. Sum({}) = 0 /\ D \cup {} = D
    BY SumEmpty
  <2> QED BY <2>1, <1>2
<1>4. PICK x \in s : TRUE
  BY <1>3
<1> DEFINE rest == s \ {x}
<1>5. Sum(D \cup rest) = Sum(D) + Sum(rest)
  <2>1. rest \in SUBSET E /\ rest # s /\ rest \subseteq s
    BY <1>2, <1>4
  <2> QED BY <2>1, <1>1
<1>6. Sum(s) = f[x] + Sum(rest)
  BY <1>2, <1>4, SumRemove
<1>7. Sum(D \cup s) = f[x] + Sum(D \cup rest)
  <2> DEFINE U == D \cup s
  <2>1. IsFiniteSet(U) /\ x \in U /\ U \ {x} = D \cup rest /\ \A y \in U : f[y] \in Int
    BY <1>2, <1>4, FS_Union
  <2> HIDE DEF U
  <2>2. SumFunctionOnSet(f, U) = f[x] + SumFunctionOnSet(f, U \ {x})
    BY <2>1, SumRemove
  <2> QED BY <2>1, <2>2 DEF U
<1>8. f[x] \in Int /\ Sum(rest) \in Int
  <2>1. IsFiniteSet(rest) /\ \A y \in rest : f[y] \in Int
    BY <1>2, FS_RemoveElement
  <2> HIDE DEF rest
  <2> QED BY <1>2, <1>4, <2>1, SumInt
<1>9. s \in B
  BY <1>1
<1> DEFINE a == Sum(D)
           b == Sum(rest)
<1>10. Sum(D \cup s) = Sum(D) + Sum(s)
  <2>1. Sum(D \cup s) = f[x] + (a + b) /\ Sum(D) + Sum(s) = a + (f[x] + b)
    BY <1>5, <1>6, <1>7
  <2>2. a \in Int /\ b \in Int /\ f[x] \in Int
    BY <1>2, <1>8
  <2> HIDE DEF a, b
  <2>3. f[x] + (a + b) = a + (f[x] + b)
    BY <2>2
  <2> QED BY <2>1, <2>3
<1> QED BY <1>9, <1>10

(* Terms that are zero may be left out.                                    *)
THEOREM SumWithout ==
  ASSUME NEW f, NEW D, IsFiniteSet(D), NEW E \in SUBSET D,
         \A x \in D : f[x] \in Int, \A x \in D \ E : f[x] = 0
  PROVE  SumFunctionOnSet(f, D) = SumFunctionOnSet(f, E)
<1> DEFINE F == D \ E
<1>1. IsFiniteSet(E) /\ IsFiniteSet(F) /\ E \cap F = {} /\ E \cup F = D
  BY FS_Subset, FS_Difference
<1> HIDE DEF F
<1>2. SumFunctionOnSet(f, E \cup F) = SumFunctionOnSet(f, E) + SumFunctionOnSet(f, F)
  BY <1>1, SumUnion
<1>3. SumFunctionOnSet(f, F) = 0
  BY <1>1, SumZero DEF F
<1>4. SumFunctionOnSet(f, E) \in Int
  BY <1>1, SumInt
<1>5. SumFunctionOnSet(f, D) = SumFunctionOnSet(f, E \cup F)
  BY <1>1
<1> QED BY <1>2, <1>3, <1>4, <1>5

(* A set that is sorted into groups is added up group by group.            *)
THEOREM SumGroups ==
  ASSUME NEW f, NEW D, IsFiniteSet(D), \A x \in D : f[x] \in Int,
         NEW h, NEW g, NEW K, IsFiniteSet(K),
         \A k \in K : g[k] = SumFunctionOnSet(f, {x \in D : h[x] = k})
  PROVE  SumFunctionOnSet(g, K) = SumFunctionOnSet(f, {x \in D : h[x] \in K})
<1> DEFINE In(L) == {x \in D : h[x] \in L}
           Of(k) == {x \in D : h[x] = k}
           B == {L \in SUBSET K : SumFunctionOnSet(g, L) # SumFunctionOnSet(f, In(L))}
<1> SUFFICES ASSUME B # {} PROVE FALSE
  OBVIOUS
<1>1. PICK L \in B : \A u \in B : u \subseteq L => u = L
  <2>1. B \subseteq SUBSET K /\ B # {}
    OBVIOUS
  <2> HIDE DEF B
  <2> QED BY <2>1, SmallestSet
<1>2. L \in SUBSET K /\ IsFiniteSet(L)
  BY FS_Subset
<1>3. L # {}
  <2>1. In({}) = {}
    OBVIOUS
  <2>2. SumFunctionOnSet(g, {}) = 0 /\ SumFunctionOnSet(f, {}) = 0
    BY SumEmpty
  <2> QED BY <2>1, <2>2
<1>4. PICK k \in L : TRUE
  BY <1>3
<1> DEFINE M == L \ {k}
<1>5. SumFunctionOnSet(g, M) = SumFunctionOnSet(f, In(M))
  <2>1. M \in SUBSET K /\ M # L /\ M \subseteq L
    BY <1>2, <1>4
  <2> QED BY <2>1, <1>1
<1>6. \A l \in K : g[l] \in Int /\ g[l] = SumFunctionOnSet(f, Of(l))
  <2> TAKE l \in K
  <2>1. IsFiniteSet(Of(l)) /\ \A x \in Of(l) : f[x] \in Int
    <3>1. Of(l) \in SUBSET D
      OBVIOUS
    <3> QED BY <3>1, FS_Subset
  <2> HIDE DEF Of
  <2>2. SumFunctionOnSet(f, Of(l)) \in Int
    BY <2>1, SumInt
  <2> QED BY <2>2 DEF Of
<1>7. SumFunctionOnSet(g, L) = g[k] + SumFunctionOnSet(g, M)
  <2>1. IsFiniteSet(L) /\ k \in L /\ \A l \in L : g[l] \in Int
    BY <1>2, <1>4, <1>6
  <2> HIDE DEF B, In, Of, M
  <2>2. SumFunctionOnSet(g, L) = g[k] + SumFunctionOnSet(g, L \ {k})
    BY <2>1, SumRemove
  <2> QED BY <2>2 DEF M
<1>8. SumFunctionOnSet(f, In(L)) = SumFunctionOnSet(f, Of(k)) + SumFunctionOnSet(f, In(M))
  <2> DEFINE U == Of(k)
             V == In(M)
  <2>1. IsFiniteSet(U) /\ IsFiniteSet(V) /\ U \cap V = {} /\ U \cup V = In(L)
        /\ \A x \in U \cup V : f[x] \in Int
    <3>1. U \in SUBSET D /\ V \in SUBSET D
      OBVIOUS
    <3>2. IsFiniteSet(U) /\ IsFiniteSet(V)
      <4> HIDE DEF U, V
      <4> QED BY <3>1, FS_Subset
    <3>3. U \cap V = {} /\ U \cup V = In(L)
      BY <1>4
    <3> QED BY <3>1, <3>2, <3>3
  <2> HIDE DEF U, V
  <2>2. SumFunctionOnSet(f, U \cup V) = SumFunctionOnSet(f, U) + SumFunctionOnSet(f, V)
    BY <2>1, SumUnion
  <2> QED BY <2>1, <2>2 DEF U, V
<1>9. SumFunctionOnSet(g, L) # SumFunctionOnSet(f, In(L))
  BY <1>1
<1> QED BY <1>2, <1>4, <1>5, <1>6, <1>7, <1>8, <1>9
=============================================================================
