---------------------------- MODULE SumTheorems -----------------------------
(***************************************************************************)
(* Finite sums: what SumFunctionOnSet of the community modules computes,   *)
(* for every function into the naturals and every finite set.  Its         *)
(* definition chooses an order; the lemmas say that the order is nothing   *)
(* to the sum.  The situation room adds up votes and polling units with it. *)
(***************************************************************************)
EXTENDS Integers, FiniteSets, FiniteSetsExt, Functions,
        WellFoundedInduction, FiniteSetTheorems, TLAPS

-----------------------------------------------------------------------------
(***************************************************************************)
(* Induction, stated about a set rather than a predicate: that < is well   *)
(* founded on the naturals is all it takes.                                *)
(***************************************************************************)
LEMMA NatSetInduction ==
    ASSUME NEW G \in SUBSET Nat, 0 \in G, \A n \in G : n + 1 \in G
    PROVE  G = Nat
<1> DEFINE Bad == Nat \ G
<1>1. SUFFICES ASSUME Bad # {} PROVE FALSE
  OBVIOUS
<1>2. Bad \subseteq Nat
  OBVIOUS
<1> HIDE DEF Bad
<1>3. PICK m \in Bad : \A n \in Bad : ~(<<n, m>> \in OpToRel(<, Nat))
  BY <1>1, <1>2, NatLessThanWellFounded, WFMin
<1> USE DEF Bad
<1>4. \A n \in Bad : ~(n < m)
  BY <1>3 DEF OpToRel
<1>5. m \in Nat /\ m # 0 /\ m - 1 \in Nat /\ m - 1 \in G
  BY <1>4
<1>6. (m - 1) + 1 \in G
  BY <1>5
<1> QED BY <1>5, <1>6

(* Induction over a finite set, one element at a time. *)
LEMMA RemovedOne ==
    ASSUME NEW S, IsFiniteSet(S), NEW x \in S, NEW n \in Nat, Cardinality(S) = n + 1
    PROVE  Cardinality(S \ {x}) = n
<1>1. Cardinality(S \ {x}) = Cardinality(S) - 1
  BY FS_RemoveElement
<1> QED BY <1>1

LEMMA FiniteSetInduction ==
    ASSUME NEW S, IsFiniteSet(S), NEW G \in SUBSET (SUBSET S), {} \in G,
           \A T \in G : \A x \in S \ T : T \union {x} \in G
    PROVE  S \in G
<1> DEFINE N == {n \in Nat : \A T \in SUBSET S : Cardinality(T) = n => T \in G}
<1>1. 0 \in N
  BY FS_EmptySet, FS_Subset
<1>2. ASSUME NEW n \in N PROVE n + 1 \in N
  <2>1. SUFFICES ASSUME NEW T \in SUBSET S, Cardinality(T) = n + 1 PROVE T \in G
    OBVIOUS
  <2>2. IsFiniteSet(T) /\ n \in Nat
    BY FS_Subset
  <2>3. T # {}
    BY <2>1, <2>2, FS_EmptySet
  <2>4. PICK x \in T : TRUE
    BY <2>3
  <2>5. Cardinality(T \ {x}) = n
    BY <2>1, <2>2, RemovedOne
  <2>6. T \ {x} \in G
    <3>1. T \ {x} \in SUBSET S
      OBVIOUS
    <3> QED BY <2>5, <3>1
  <2>7. T = (T \ {x}) \union {x} /\ x \in S \ (T \ {x})
    OBVIOUS
  <2> QED BY <2>6, <2>7
<1> HIDE DEF N
<1>3. N = Nat
  BY <1>1, <1>2, NatSetInduction DEF N
<1>4. Cardinality(S) \in N
  BY <1>3, FS_CardinalityType
<1> QED BY <1>4 DEF N

(* The recursion inside SumFunctionOnSet. *)
SumStep(f, g, s) ==
    IF s = {} THEN 0 ELSE f[CHOOSE x \in s : TRUE] + g[s \ {CHOOSE x \in s : TRUE}]
IsSum(f, T, g) == g = [s \in SUBSET T |-> SumStep(f, g, s)]

LEMMA SumUnfold == \A f, T : SumFunctionOnSet(f, T) = (CHOOSE g : IsSum(f, T, g))[T]
BY DEF SumFunctionOnSet, FoldFunctionOnSet, MapThenFoldSet, IsSum, SumStep

(* Functions that satisfy the recursion on finite sets agree. *)
LEMMA SumUnique ==
    ASSUME NEW f, NEW T, IsFiniteSet(T), NEW R \in SUBSET T,
           NEW g, IsSum(f, T, g), NEW h, IsSum(f, R, h)
    PROVE  \A s \in SUBSET R : g[s] = h[s]
<1> DEFINE N == {n \in Nat : \A s \in SUBSET R : Cardinality(s) = n => g[s] = h[s]}
<1>1. ASSUME NEW s \in SUBSET R
      PROVE  g[s] = SumStep(f, g, s) /\ h[s] = SumStep(f, h, s) /\ IsFiniteSet(s)
  <2>1. s \in SUBSET T
    OBVIOUS
  <2> QED BY <2>1, FS_Subset DEF IsSum
<1>2. 0 \in N
  <2>1. \A s \in SUBSET R : Cardinality(s) = 0 => s = {}
    BY <1>1, FS_EmptySet
  <2> QED BY <1>1, <2>1 DEF SumStep
<1>3. ASSUME NEW n \in N PROVE n + 1 \in N
  <2>1. SUFFICES ASSUME NEW s \in SUBSET R, Cardinality(s) = n + 1 PROVE g[s] = h[s]
    OBVIOUS
  <2> DEFINE x == CHOOSE x \in s : TRUE
  <2>2. IsFiniteSet(s) /\ n \in Nat
    BY <1>1
  <2>3. s # {}
    BY <2>1, <2>2, FS_EmptySet
  <2>4. x \in s
    BY <2>3
  <2> HIDE DEF x
  <2>5. Cardinality(s \ {x}) = n /\ s \ {x} \in SUBSET R
    BY <2>1, <2>2, <2>4, RemovedOne
  <2>6. g[s \ {x}] = h[s \ {x}]
    BY <2>5
  <2> QED BY <1>1, <2>3, <2>6 DEF SumStep, x
<1> HIDE DEF N
<1>4. N = Nat
  BY <1>2, <1>3, NatSetInduction DEF N
<1>5. SUFFICES ASSUME NEW s \in SUBSET R PROVE g[s] = h[s]
  OBVIOUS
<1>6. Cardinality(s) \in Nat
  BY <1>1, FS_CardinalityType
<1> QED BY <1>4, <1>6 DEF N

(* And there is one. *)
LEMMA SumExists ==
    ASSUME NEW f, NEW T, IsFiniteSet(T)
    PROVE  \E g : IsSum(f, T, g)
<1> DEFINE Upto(n, g) == \A s \in SUBSET T : Cardinality(s) <= n => g[s] = SumStep(f, g, s)
           N == {n \in Nat : \E g : Upto(n, g)}
<1>1. \A s \in SUBSET T : IsFiniteSet(s) /\ Cardinality(s) \in Nat
  BY FS_Subset, FS_CardinalityType
<1>2. 0 \in N
  <2> DEFINE g0 == [s \in SUBSET T |-> 0]
  <2>1. \A s \in SUBSET T : Cardinality(s) <= 0 => s = {}
    BY <1>1, FS_EmptySet
  <2>2. Upto(0, g0)
    BY <2>1 DEF SumStep
  <2> QED BY <2>2
<1>3. ASSUME NEW n \in N PROVE n + 1 \in N
  <2>1. PICK g : Upto(n, g)
    OBVIOUS
  <2> DEFINE g1 == [s \in SUBSET T |-> IF Cardinality(s) <= n THEN g[s] ELSE SumStep(f, g, s)]
  <2>2. ASSUME NEW s \in SUBSET T, Cardinality(s) <= n + 1
        PROVE  g1[s] = SumStep(f, g1, s)
    <3>1. g1[s] = SumStep(f, g, s)
      BY <2>1
    <3>2. SumStep(f, g1, s) = SumStep(f, g, s)
      <4> DEFINE x == CHOOSE x \in s : TRUE
      <4>1. CASE s = {}
        BY <4>1 DEF SumStep
      <4>2. CASE s # {}
        <5>1. x \in s
          BY <4>2
        <5> HIDE DEF x
        <5>2. Cardinality(s \ {x}) <= n /\ s \ {x} \in SUBSET T
          BY <1>1, <2>2, <5>1, FS_RemoveElement
        <5>3. g1[s \ {x}] = g[s \ {x}]
          BY <5>2
        <5> HIDE DEF g1
        <5> QED BY <4>2, <5>3 DEF SumStep, x
      <4> QED BY <4>1, <4>2
    <3> QED BY <3>1, <3>2
  <2>3. Upto(n + 1, g1)
    BY <2>2
  <2> HIDE DEF g1
  <2> QED BY <2>3
<1> HIDE DEF N
<1>4. N = Nat
  BY <1>2, <1>3, NatSetInduction DEF N
<1>5. Cardinality(T) \in N /\ Cardinality(T) \in Nat
  BY <1>4, FS_CardinalityType
<1>6. PICK g : Upto(Cardinality(T), g)
  BY <1>5 DEF N
<1> DEFINE h == [s \in SUBSET T |-> g[s]]
<1>7. \A s \in SUBSET T : g[s] = SumStep(f, g, s)
  <2>1. \A s \in SUBSET T : Cardinality(s) <= Cardinality(T)
    BY FS_Subset
  <2> QED BY <1>6, <2>1
<1>8. \A s \in SUBSET T : SumStep(f, h, s) = SumStep(f, g, s)
  <2>1. \A s \in SUBSET T : \A x : s \ {x} \in SUBSET T
    OBVIOUS
  <2> QED BY <2>1 DEF SumStep
<1>9. IsSum(f, T, h)
  BY <1>7, <1>8 DEF IsSum
<1> QED BY <1>9

LEMMA SumIsSum ==
    ASSUME NEW f, NEW T, IsFiniteSet(T)
    PROVE  \E g : IsSum(f, T, g) /\ SumFunctionOnSet(f, T) = g[T]
<1> DEFINE g == CHOOSE g : IsSum(f, T, g)
<1>1. IsSum(f, T, g)
  BY SumExists, Zenon
<1>2. SumFunctionOnSet(f, T) = g[T]
  BY SumUnfold
<1> QED BY <1>1, <1>2

LEMMA SumEmpty == \A f : SumFunctionOnSet(f, {}) = 0
<1> SUFFICES ASSUME NEW f PROVE SumFunctionOnSet(f, {}) = 0
  OBVIOUS
<1>1. PICK g : IsSum(f, {}, g) /\ SumFunctionOnSet(f, {}) = g[{}]
  BY SumIsSum, FS_EmptySet
<1> QED BY <1>1 DEF IsSum, SumStep

(* The element the recursion takes first. *)
LEMMA SumFirst ==
    ASSUME NEW f, NEW T, IsFiniteSet(T), T # {}
    PROVE  \E x \in T : SumFunctionOnSet(f, T) = f[x] + SumFunctionOnSet(f, T \ {x})
<1> DEFINE x == CHOOSE x \in T : TRUE
           R == T \ {x}
<1>1. x \in T
  OBVIOUS
<1>2. IsFiniteSet(R) /\ R \in SUBSET T
  BY FS_Subset
<1>3. PICK g : IsSum(f, T, g) /\ SumFunctionOnSet(f, T) = g[T]
  BY SumIsSum
<1>4. PICK h : IsSum(f, R, h) /\ SumFunctionOnSet(f, R) = h[R]
  BY <1>2, SumIsSum
<1>5. g[R] = h[R]
  BY <1>2, <1>3, <1>4, SumUnique
<1>6. g[T] = SumStep(f, g, T)
  BY <1>3 DEF IsSum
<1>7. g[T] = f[x] + g[R]
  BY <1>6 DEF SumStep
<1> QED BY <1>1, <1>3, <1>4, <1>5, <1>7

(* A sum of naturals is a natural. *)
LEMMA SumType ==
    ASSUME NEW T, IsFiniteSet(T), NEW f, \A x \in T : f[x] \in Nat
    PROVE  SumFunctionOnSet(f, T) \in Nat
<1> DEFINE N == {n \in Nat : \A S \in SUBSET T : Cardinality(S) = n =>
                                SumFunctionOnSet(f, S) \in Nat}
<1>1. \A S \in SUBSET T : IsFiniteSet(S) /\ Cardinality(S) \in Nat
  BY FS_Subset, FS_CardinalityType
<1>2. 0 \in N
  BY <1>1, FS_EmptySet, SumEmpty
<1>3. ASSUME NEW n \in N PROVE n + 1 \in N
  <2>1. SUFFICES ASSUME NEW S \in SUBSET T, Cardinality(S) = n + 1
                 PROVE  SumFunctionOnSet(f, S) \in Nat
    OBVIOUS
  <2>2. IsFiniteSet(S) /\ S # {} /\ n \in Nat
    BY <1>1, <2>1, FS_EmptySet
  <2>3. PICK x \in S : SumFunctionOnSet(f, S) = f[x] + SumFunctionOnSet(f, S \ {x})
    BY <2>2, SumFirst
  <2>4. Cardinality(S \ {x}) = n /\ S \ {x} \in SUBSET T
    BY <2>1, <2>2, RemovedOne
  <2>5. SumFunctionOnSet(f, S \ {x}) \in Nat
    BY <2>4
  <2> QED BY <2>3, <2>5
<1> HIDE DEF N
<1>4. N = Nat
  BY <1>2, <1>3, NatSetInduction DEF N
<1> QED BY <1>1, <1>4 DEF N

(* It does not matter which element is taken first. *)
LEMMA SumRemove ==
    ASSUME NEW T, IsFiniteSet(T), NEW f, \A x \in T : f[x] \in Nat, NEW y \in T
    PROVE  SumFunctionOnSet(f, T) = f[y] + SumFunctionOnSet(f, T \ {y})
<1> DEFINE Any(S) == \A z \in S : SumFunctionOnSet(f, S) = f[z] + SumFunctionOnSet(f, S \ {z})
           N == {n \in Nat : \A S \in SUBSET T : Cardinality(S) = n => Any(S)}
<1>1. \A S \in SUBSET T : IsFiniteSet(S) /\ Cardinality(S) \in Nat /\ SumFunctionOnSet(f, S) \in Nat
  BY FS_Subset, FS_CardinalityType, SumType
<1>2. 0 \in N
  BY <1>1, FS_EmptySet
<1>3. ASSUME NEW n \in N PROVE n + 1 \in N
  <2>1. SUFFICES ASSUME NEW S \in SUBSET T, Cardinality(S) = n + 1, NEW z \in S
                 PROVE  SumFunctionOnSet(f, S) = f[z] + SumFunctionOnSet(f, S \ {z})
    OBVIOUS
  <2>2. IsFiniteSet(S) /\ S # {} /\ n \in Nat
    BY <1>1
  <2>3. PICK x \in S : SumFunctionOnSet(f, S) = f[x] + SumFunctionOnSet(f, S \ {x})
    BY <2>2, SumFirst
  <2>4. CASE x = z
    BY <2>3, <2>4
  <2>5. CASE x # z
    <3>1. /\ S \ {x} \in SUBSET T /\ Cardinality(S \ {x}) = n /\ z \in S \ {x}
          /\ S \ {z} \in SUBSET T /\ Cardinality(S \ {z}) = n /\ x \in S \ {z}
      BY <2>1, <2>2, <2>5, RemovedOne
    <3>2. Any(S \ {x}) /\ Any(S \ {z})
      BY <3>1
    <3>3. SumFunctionOnSet(f, S \ {x}) = f[z] + SumFunctionOnSet(f, (S \ {x}) \ {z})
      BY <3>1, <3>2
    <3>4. SumFunctionOnSet(f, S \ {z}) = f[x] + SumFunctionOnSet(f, (S \ {z}) \ {x})
      BY <3>1, <3>2
    <3> DEFINE rest == SumFunctionOnSet(f, (S \ {x}) \ {z})
    <3>5. (S \ {x}) \ {z} = (S \ {z}) \ {x}
      OBVIOUS
    <3>6. SumFunctionOnSet(f, S \ {z}) = f[x] + rest
      BY <3>4, <3>5
    <3>7. rest \in Nat /\ f[x] \in Nat /\ f[z] \in Nat
      BY <1>1
    <3> HIDE DEF rest
    <3>8. SumFunctionOnSet(f, S) = f[x] + (f[z] + rest)
      BY <2>3, <3>3 DEF rest
    <3> QED BY <3>6, <3>7, <3>8
  <2> QED BY <2>4, <2>5
<1> HIDE DEF N, Any
<1>4. N = Nat
  BY <1>2, <1>3, NatSetInduction DEF N
<1>5. Any(T)
  BY <1>1, <1>4 DEF N
<1> QED BY <1>5 DEF Any

LEMMA SumAdd ==
    ASSUME NEW S, IsFiniteSet(S), NEW x, x \notin S, NEW f,
           \A y \in S \union {x} : f[y] \in Nat
    PROVE  SumFunctionOnSet(f, S \union {x}) = f[x] + SumFunctionOnSet(f, S)
<1>1. IsFiniteSet(S \union {x}) /\ x \in S \union {x} /\ (S \union {x}) \ {x} = S
  BY FS_AddElement
<1>2. SumFunctionOnSet(f, S \union {x}) = f[x] + SumFunctionOnSet(f, (S \union {x}) \ {x})
  BY <1>1, SumRemove
<1> QED BY <1>1, <1>2

(* The sum of what a union of disjoint sets holds is the sum of their sums. *)
LEMMA SumUnion ==
    ASSUME NEW S, IsFiniteSet(S), NEW T, IsFiniteSet(T), S \cap T = {}, NEW f,
           \A x \in S \union T : f[x] \in Nat
    PROVE  SumFunctionOnSet(f, S \union T) = SumFunctionOnSet(f, S) + SumFunctionOnSet(f, T)
<1> DEFINE G == {R \in SUBSET T : SumFunctionOnSet(f, S \union R)
                                   = SumFunctionOnSet(f, S) + SumFunctionOnSet(f, R)}
<1>1. \A R \in SUBSET T : /\ IsFiniteSet(R) /\ IsFiniteSet(S \union R)
                          /\ SumFunctionOnSet(f, R) \in Nat
  BY FS_Subset, FS_Union, SumType
<1>2. SumFunctionOnSet(f, S) \in Nat
  BY SumType
<1>3. {} \in G
  <2>1. S \union {} = S
    OBVIOUS
  <2> QED BY <1>2, <2>1, SumEmpty
<1>4. ASSUME NEW R \in G, NEW x \in T \ R PROVE R \union {x} \in G
  <2>1. R \in SUBSET T /\ R \union {x} \in SUBSET T /\ x \notin S \union R
    OBVIOUS
  <2>2. SumFunctionOnSet(f, R \union {x}) = f[x] + SumFunctionOnSet(f, R)
    BY <1>1, <2>1, SumAdd
  <2>3. SumFunctionOnSet(f, (S \union R) \union {x}) = f[x] + SumFunctionOnSet(f, S \union R)
    BY <1>1, <2>1, SumAdd
  <2>4. S \union (R \union {x}) = (S \union R) \union {x}
    OBVIOUS
  <2>5. SumFunctionOnSet(f, S \union R) = SumFunctionOnSet(f, S) + SumFunctionOnSet(f, R)
    OBVIOUS
  <2>6. f[x] \in Nat /\ SumFunctionOnSet(f, R) \in Nat
    BY <1>1
  <2>7. SumFunctionOnSet(f, S \union (R \union {x}))
           = SumFunctionOnSet(f, S) + SumFunctionOnSet(f, R \union {x})
    <3> DEFINE a == SumFunctionOnSet(f, S)
               b == SumFunctionOnSet(f, R)
    <3>1. SumFunctionOnSet(f, S \union (R \union {x})) = f[x] + (a + b)
      BY <2>3, <2>4, <2>5
    <3>2. SumFunctionOnSet(f, R \union {x}) = f[x] + b
      BY <2>2
    <3>3. a \in Nat /\ b \in Nat
      BY <1>2, <2>6
    <3> HIDE DEF a, b
    <3>4. f[x] + (a + b) = a + (f[x] + b)
      BY <2>6, <3>3
    <3> QED BY <3>1, <3>2, <3>4 DEF a
  <2> QED BY <2>1, <2>7
<1> HIDE DEF G
<1>5. T \in G
  BY <1>3, <1>4, FiniteSetInduction DEF G
<1> QED BY <1>5 DEF G

(* Equal summands, equal sums; greater ones, a greater sum. *)
LEMMA SumAgree ==
    ASSUME NEW T, IsFiniteSet(T), NEW f, NEW g, \A x \in T : f[x] \in Nat /\ g[x] = f[x]
    PROVE  SumFunctionOnSet(g, T) = SumFunctionOnSet(f, T)
<1> DEFINE G == {R \in SUBSET T : SumFunctionOnSet(g, R) = SumFunctionOnSet(f, R)}
<1>1. {} \in G
  BY SumEmpty
<1>2. ASSUME NEW R \in G, NEW x \in T \ R PROVE R \union {x} \in G
  <2>1. IsFiniteSet(R) /\ R \union {x} \in SUBSET T
    BY FS_Subset
  <2>2. SumFunctionOnSet(f, R \union {x}) = f[x] + SumFunctionOnSet(f, R)
    BY <2>1, SumAdd
  <2>3. SumFunctionOnSet(g, R \union {x}) = g[x] + SumFunctionOnSet(g, R)
    BY <2>1, SumAdd
  <2> QED BY <2>1, <2>2, <2>3
<1> HIDE DEF G
<1>3. T \in G
  BY <1>1, <1>2, FiniteSetInduction DEF G
<1> QED BY <1>3 DEF G

LEMMA SumAtLeast ==
    ASSUME NEW T, IsFiniteSet(T), NEW f, NEW g,
           \A x \in T : f[x] \in Nat /\ g[x] \in Nat /\ g[x] <= f[x]
    PROVE  /\ SumFunctionOnSet(f, T) \in Nat /\ SumFunctionOnSet(g, T) \in Nat
           /\ SumFunctionOnSet(g, T) <= SumFunctionOnSet(f, T)
<1> DEFINE G == {R \in SUBSET T : SumFunctionOnSet(g, R) <= SumFunctionOnSet(f, R)}
<1>1. \A R \in SUBSET T : /\ IsFiniteSet(R)
                          /\ SumFunctionOnSet(f, R) \in Nat /\ SumFunctionOnSet(g, R) \in Nat
  BY FS_Subset, SumType
<1>2. {} \in G
  BY SumEmpty
<1>3. ASSUME NEW R \in G, NEW x \in T \ R PROVE R \union {x} \in G
  <2>1. R \in SUBSET T /\ R \union {x} \in SUBSET T
    OBVIOUS
  <2>2. SumFunctionOnSet(f, R \union {x}) = f[x] + SumFunctionOnSet(f, R)
    BY <1>1, <2>1, SumAdd
  <2>3. SumFunctionOnSet(g, R \union {x}) = g[x] + SumFunctionOnSet(g, R)
    BY <1>1, <2>1, SumAdd
  <2> QED BY <1>1, <2>1, <2>2, <2>3
<1> HIDE DEF G
<1>4. T \in G
  BY <1>2, <1>3, FiniteSetInduction DEF G
<1> QED BY <1>1, <1>4 DEF G

LEMMA SumGreater ==
    ASSUME NEW T, IsFiniteSet(T), NEW f, NEW g,
           \A x \in T : f[x] \in Nat /\ g[x] \in Nat /\ g[x] <= f[x],
           NEW y \in T, g[y] < f[y]
    PROVE  SumFunctionOnSet(g, T) < SumFunctionOnSet(f, T)
<1>1. IsFiniteSet(T \ {y})
  BY FS_Subset
<1>2. SumFunctionOnSet(f, T) = f[y] + SumFunctionOnSet(f, T \ {y})
  BY SumRemove
<1>3. SumFunctionOnSet(g, T) = g[y] + SumFunctionOnSet(g, T \ {y})
  BY SumRemove
<1>4. /\ SumFunctionOnSet(f, T \ {y}) \in Nat /\ SumFunctionOnSet(g, T \ {y}) \in Nat
      /\ SumFunctionOnSet(g, T \ {y}) <= SumFunctionOnSet(f, T \ {y})
  BY <1>1, SumAtLeast
<1> QED BY <1>2, <1>3, <1>4

(* The sum over sets M[w] that do not overlap. *)
LEMMA SumOverParts ==
    ASSUME NEW W, IsFiniteSet(W), NEW M, \A w \in W : IsFiniteSet(M[w]),
           \A v, w \in W : v # w => M[v] \cap M[w] = {},
           NEW f, \A w \in W : \A x \in M[w] : f[x] \in Nat
    PROVE  /\ IsFiniteSet(UNION {M[w] : w \in W})
           /\ SumFunctionOnSet(f, UNION {M[w] : w \in W})
                 = SumFunctionOnSet([w \in W |-> SumFunctionOnSet(f, M[w])], W)
<1> DEFINE All(V) == UNION {M[w] : w \in V}
           h == [w \in W |-> SumFunctionOnSet(f, M[w])]
           G == {V \in SUBSET W : /\ IsFiniteSet(All(V))
                                  /\ SumFunctionOnSet(f, All(V)) = SumFunctionOnSet(h, V)}
<1>1. \A w \in W : h[w] = SumFunctionOnSet(f, M[w]) /\ h[w] \in Nat
  BY SumType
<1> HIDE DEF h
<1>2. {} \in G
  <2>1. All({}) = {}
    OBVIOUS
  <2> QED BY <2>1, SumEmpty, FS_EmptySet
<1>3. ASSUME NEW V \in G, NEW w \in W \ V PROVE V \union {w} \in G
  <2>1. All(V \union {w}) = All(V) \union M[w] /\ All(V) \cap M[w] = {}
    OBVIOUS
  <2>2. IsFiniteSet(All(V)) /\ IsFiniteSet(M[w]) /\ V \in SUBSET W /\ IsFiniteSet(V)
    BY FS_Subset
  <2>3. \A x \in All(V) \union M[w] : f[x] \in Nat
    BY <2>2
  <2> HIDE DEF All
  <2>4. IsFiniteSet(All(V) \union M[w])
    BY <2>2, FS_Union
  <2>5. SumFunctionOnSet(f, All(V) \union M[w])
           = SumFunctionOnSet(f, All(V)) + SumFunctionOnSet(f, M[w])
    BY <2>1, <2>2, <2>3, SumUnion
  <2>6. SumFunctionOnSet(h, V \union {w}) = h[w] + SumFunctionOnSet(h, V)
    BY <1>1, <2>2, SumAdd
  <2>7. SumFunctionOnSet(h, V) \in Nat
    BY <1>1, <2>2, SumType
  <2>8. SumFunctionOnSet(f, All(V \union {w})) = SumFunctionOnSet(h, V \union {w})
    <3> DEFINE a == SumFunctionOnSet(h, V)
    <3>1. SumFunctionOnSet(f, All(V)) = a /\ a \in Nat
      BY <2>7
    <3>2. SumFunctionOnSet(f, M[w]) = h[w] /\ h[w] \in Nat
      BY <1>1
    <3>3. SumFunctionOnSet(f, All(V \union {w})) = a + h[w]
      BY <2>1, <2>5, <3>1, <3>2
    <3>4. SumFunctionOnSet(h, V \union {w}) = h[w] + a
      BY <2>6
    <3> HIDE DEF a
    <3> QED BY <3>1, <3>2, <3>3, <3>4
  <2> QED BY <2>1, <2>2, <2>4, <2>8
<1> HIDE DEF G
<1>4. W \in G
  BY <1>2, <1>3, FiniteSetInduction DEF G
<1> QED BY <1>4 DEF G, h

(* And what a union of sets that do not overlap has, element by element. *)
LEMMA CardinalityOfParts ==
    ASSUME NEW W, IsFiniteSet(W), NEW M, \A w \in W : IsFiniteSet(M[w]),
           \A v, w \in W : v # w => M[v] \cap M[w] = {}
    PROVE  Cardinality(UNION {M[w] : w \in W})
             = SumFunctionOnSet([w \in W |-> Cardinality(M[w])], W)
<1> DEFINE All(V) == UNION {M[w] : w \in V}
           h == [w \in W |-> Cardinality(M[w])]
           G == {V \in SUBSET W : /\ IsFiniteSet(All(V))
                                  /\ Cardinality(All(V)) = SumFunctionOnSet(h, V)}
<1>1. \A w \in W : h[w] = Cardinality(M[w]) /\ h[w] \in Nat
  BY FS_CardinalityType
<1> HIDE DEF h
<1>2. {} \in G
  <2>1. All({}) = {}
    OBVIOUS
  <2> QED BY <2>1, SumEmpty, FS_EmptySet
<1>3. ASSUME NEW V \in G, NEW w \in W \ V PROVE V \union {w} \in G
  <2>1. All(V \union {w}) = All(V) \union M[w] /\ All(V) \cap M[w] = {}
    OBVIOUS
  <2>2. IsFiniteSet(All(V)) /\ IsFiniteSet(M[w]) /\ V \in SUBSET W /\ IsFiniteSet(V)
    BY FS_Subset
  <2> HIDE DEF All
  <2>3. /\ IsFiniteSet(All(V) \union M[w])
        /\ Cardinality(All(V) \union M[w])
              = Cardinality(All(V)) + Cardinality(M[w]) - Cardinality(All(V) \cap M[w])
    BY <2>2, FS_Union
  <2>4. Cardinality(All(V) \cap M[w]) = 0
    BY <2>1, FS_EmptySet
  <2>5. SumFunctionOnSet(h, V \union {w}) = h[w] + SumFunctionOnSet(h, V)
    BY <1>1, <2>2, SumAdd
  <2>6. SumFunctionOnSet(h, V) \in Nat
    BY <1>1, <2>2, SumType
  <2>7. Cardinality(All(V \union {w})) = SumFunctionOnSet(h, V \union {w})
    <3> DEFINE a == SumFunctionOnSet(h, V)
    <3>1. Cardinality(All(V)) = a /\ a \in Nat
      BY <2>6
    <3>2. Cardinality(M[w]) = h[w] /\ h[w] \in Nat
      BY <1>1
    <3>3. Cardinality(All(V \union {w})) = a + h[w] - 0
      BY <2>1, <2>3, <2>4, <3>1, <3>2
    <3>4. SumFunctionOnSet(h, V \union {w}) = h[w] + a
      BY <2>5
    <3> HIDE DEF a
    <3> QED BY <3>1, <3>2, <3>3, <3>4
  <2> QED BY <2>1, <2>2, <2>3, <2>7
<1> HIDE DEF G
<1>4. W \in G
  BY <1>2, <1>3, FiniteSetInduction DEF G
<1> QED BY <1>4 DEF G, h

-----------------------------------------------------------------------------
(* The greatest and the least of some naturals. *)
LEMMA MaxOf ==
    ASSUME NEW S \in SUBSET Nat, IsFiniteSet(S), S # {}
    PROVE  Max(S) \in S /\ Max(S) \in Nat /\ \A y \in S : Max(S) >= y
<1> DEFINE Greatest(T) == \E x \in T : \A y \in T : x >= y
           G == {T \in SUBSET S : T = {} \/ Greatest(T)}
<1>1. ASSUME NEW T \in G, NEW z \in S \ T PROVE T \union {z} \in G
  <2>1. CASE T = {}
    BY <2>1
  <2>2. CASE T # {}
    <3>1. PICK x \in T : \A y \in T : x >= y
      BY <2>2
    <3>2. x \in Nat /\ z \in Nat /\ \A y \in T : y \in Nat
      OBVIOUS
    <3>3. CASE x >= z
      BY <3>1, <3>3
    <3>4. CASE z > x
      BY <3>1, <3>2, <3>4
    <3> QED BY <3>2, <3>3, <3>4
  <2> QED BY <2>1, <2>2
<1>2. S \in G
  <2>1. {} \in G
    OBVIOUS
  <2> HIDE DEF G
  <2> QED BY <1>1, <2>1, FiniteSetInduction DEF G
<1>3. \E x \in S : \A y \in S : x >= y
  BY <1>2
<1> QED BY <1>3 DEF Max

LEMMA MinOf ==
    ASSUME NEW S \in SUBSET Nat, S # {}
    PROVE  Min(S) \in S
<1>1. PICK m \in S : \A n \in S : ~(<<n, m>> \in OpToRel(<, Nat))
  BY NatLessThanWellFounded, WFMin
<1>2. \A n \in S : ~(n < m)
  BY <1>1 DEF OpToRel
<1>3. \A n \in S : m =< n
  BY <1>2
<1> QED BY <1>3 DEF Min
=============================================================================
