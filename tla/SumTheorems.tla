---------------------------- MODULE SumTheorems -----------------------------
(***************************************************************************)
(* What a sum over a finite set is, for the balances the other modules     *)
(* state: SumFunctionOnSet is a fold that takes the elements in an order   *)
(* nobody knows. An induction over the set is a set without a strictly     *)
(* smaller one among those that would refute the claim (MinimalSet).       *)
(***************************************************************************)
EXTENDS Integers, FiniteSets, Functions, FiniteSetTheorems, TLAPS

LEMMA MinimalSet ==
    ASSUME NEW T, T # {}, \A s \in T : IsFiniteSet(s)
    PROVE  \E s \in T : \A t \in T : ~(t \subseteq s /\ t # s)
<1> DEFINE S == UNION T
<1>1. T \subseteq FiniteSubsetsOf(S)
  BY DEF FiniteSubsetsOf
<1>2. \E s \in T : \A t \in T : <<t, s>> \notin StrictSubsetOrdering(S)
  BY <1>1, WFMin, FS_StrictSubsetOrderingWellFounded
<1> QED  BY <1>2 DEF StrictSubsetOrdering

LEMMA LeastNatural ==
    ASSUME NEW T \in SUBSET Nat, T # {}
    PROVE  \E n \in T : \A m \in T : n <= m
<1> DEFINE B == {0..(n-1) : n \in T}
<1>1. B # {} /\ \A s \in B : IsFiniteSet(s)
  <2>1. ASSUME NEW n \in T PROVE IsFiniteSet(0..(n-1))
    BY FS_Interval
  <2> QED  BY <2>1
<1>2. PICK s \in B : \A t \in B : ~(t \subseteq s /\ t # s)
  <2> HIDE DEF B
  <2>1. \E s \in B : \A t \in B : ~(t \subseteq s /\ t # s)
    BY <1>1, MinimalSet
  <2> QED  BY <2>1
<1>3. PICK n \in T : s = 0..(n-1)
  OBVIOUS
<1>4. ASSUME NEW m \in T PROVE n <= m
  <2> SUFFICES ASSUME m < n PROVE FALSE
    OBVIOUS
  <2>1. m \in 0..(n-1) /\ m \notin 0..(m-1) /\ 0..(m-1) \subseteq 0..(n-1)
    OBVIOUS
  <2>2. 0..(m-1) \in B
    OBVIOUS
  <2> HIDE DEF B
  <2> QED  BY <1>2, <1>3, <2>1, <2>2
<1> QED  BY <1>4

-----------------------------------------------------------------------------
(* The recursion behind the fold has a solution, and only one.             *)

Pick(s) == CHOOSE x \in s : TRUE

Unfolds(f, D, g) ==
    g = [s \in D |-> IF s = {} THEN 0 ELSE f[Pick(s)] + g[s \ {Pick(s)}]]

SizedSubsets(S, n) == {s \in SUBSET S : Cardinality(s) <= n}

LEMMA PickIn == ASSUME NEW s, s # {} PROVE Pick(s) \in s
BY DEF Pick

LEMMA SumIsChoice ==
    ASSUME NEW f, NEW S
    PROVE  SumFunctionOnSet(f, S) = (CHOOSE g : Unfolds(f, SUBSET S, g))[S]
BY DEF SumFunctionOnSet, FoldFunctionOnSet, MapThenFoldSet, Unfolds, Pick

LEMMA UnfoldsOneMore ==
    ASSUME NEW f, NEW S, IsFiniteSet(S), NEW n \in Nat,
           NEW g, Unfolds(f, SizedSubsets(S, n), g)
    PROVE  \E h : Unfolds(f, SizedSubsets(S, n + 1), h)
<1> DEFINE next(u, s) == IF s = {} THEN 0 ELSE f[Pick(s)] + u[s \ {Pick(s)}]
           h == [s \in SizedSubsets(S, n + 1) |-> next(g, s)]
<1>1. ASSUME NEW s \in SizedSubsets(S, n + 1), s # {}
      PROVE  s \ {Pick(s)} \in SizedSubsets(S, n) /\ s \ {Pick(s)} \in SizedSubsets(S, n + 1)
  <2>1. IsFiniteSet(s) /\ Cardinality(s) \in Nat
    BY FS_Subset, FS_CardinalityType DEF SizedSubsets
  <2>2. Pick(s) \in s
    BY <1>1, PickIn
  <2>3. Cardinality(s \ {Pick(s)}) = Cardinality(s) - 1
    BY <2>1, <2>2, FS_RemoveElement
  <2> QED  BY <2>1, <2>3 DEF SizedSubsets
<1>2. \A s \in SizedSubsets(S, n) : h[s] = g[s]
  <2>1. SizedSubsets(S, n) \subseteq SizedSubsets(S, n + 1)
    <3> SUFFICES ASSUME NEW s \in SizedSubsets(S, n) PROVE Cardinality(s) <= n + 1
      BY DEF SizedSubsets
    <3> QED  BY FS_Subset, FS_CardinalityType DEF SizedSubsets
  <2> QED  BY <2>1 DEF Unfolds
<1>3. ASSUME NEW s \in SizedSubsets(S, n + 1) PROVE h[s] = next(h, s)
  BY <1>1, <1>2
<1>4. h = [s \in SizedSubsets(S, n + 1) |-> next(h, s)]
  <2>1. h = [s \in SizedSubsets(S, n + 1) |-> h[s]]
    OBVIOUS
  <2> HIDE DEF h, next
  <2> QED  BY <1>3, <2>1
<1>5. Unfolds(f, SizedSubsets(S, n + 1), h)
  <2> HIDE DEF h
  <2> QED  BY <1>4 DEF Unfolds
<1> QED  BY <1>5

LEMMA UnfoldsExists ==
    ASSUME NEW f, NEW S, IsFiniteSet(S)
    PROVE  \E g : Unfolds(f, SUBSET S, g)
<1> DEFINE D(n) == SizedSubsets(S, n)
           Missing == {n \in Nat : ~ \E g : Unfolds(f, D(n), g)}
<1>1. \E g : Unfolds(f, D(0), g)
  <2> DEFINE g == [s \in D(0) |-> 0]
  <2>1. ASSUME NEW s \in D(0) PROVE s = {}
    BY FS_Subset, FS_CardinalityType, FS_EmptySet DEF SizedSubsets
  <2>2. Unfolds(f, D(0), g)
    BY <2>1 DEF Unfolds
  <2> QED  BY <2>2
<1>2. Missing = {}
  <2> SUFFICES ASSUME Missing # {} PROVE FALSE
    OBVIOUS
  <2>1. PICK n \in Missing : \A m \in Missing : n <= m
    <3>1. Missing \in SUBSET Nat
      OBVIOUS
    <3> HIDE DEF Missing
    <3> QED  BY <3>1, LeastNatural
  <2>2. n \in Nat /\ n # 0
    BY <1>1
  <2>3. n - 1 \in Nat /\ n - 1 \notin Missing
    BY <2>1, <2>2
  <2>4. PICK g : Unfolds(f, D(n - 1), g)
    BY <2>3
  <2>5. \E h : Unfolds(f, D((n - 1) + 1), h)
    BY <2>3, <2>4, UnfoldsOneMore
  <2> QED  BY <2>1, <2>2, <2>5
<1>3. Cardinality(S) \in Nat /\ D(Cardinality(S)) = SUBSET S
  BY FS_CardinalityType, FS_Subset DEF SizedSubsets
<1>4. \E g : Unfolds(f, D(Cardinality(S)), g)
  BY <1>2, <1>3
<1> QED  BY <1>3, <1>4

LEMMA UnfoldsAgree ==
    ASSUME NEW S, IsFiniteSet(S), NEW T \in SUBSET S,
           NEW f, NEW g, Unfolds(f, SUBSET S, g),
           NEW h, NEW k, Unfolds(h, SUBSET T, k),
           \A x \in T : f[x] = h[x]
    PROVE  g[T] = k[T]
<1> DEFINE Wrong == {u \in SUBSET T : g[u] # k[u]}
<1> SUFFICES ASSUME Wrong # {} PROVE FALSE
  OBVIOUS
<1>1. PICK u \in Wrong : \A t \in Wrong : ~(t \subseteq u /\ t # u)
  <2>1. \A s \in Wrong : IsFiniteSet(s)
    BY FS_Subset
  <2> HIDE DEF Wrong
  <2> QED  BY <2>1, MinimalSet
<1>2. g[u] = IF u = {} THEN 0 ELSE f[Pick(u)] + g[u \ {Pick(u)}]
  BY DEF Unfolds
<1>3. k[u] = IF u = {} THEN 0 ELSE h[Pick(u)] + k[u \ {Pick(u)}]
  BY DEF Unfolds
<1>4. u # {}
  BY <1>2, <1>3
<1>5. Pick(u) \in u
  BY <1>4, PickIn
<1>6. u \ {Pick(u)} \notin Wrong
  BY <1>1, <1>5
<1> QED  BY <1>2, <1>3, <1>4, <1>5, <1>6

-----------------------------------------------------------------------------
(* Sums.                                                                   *)

LEMMA SumEmpty == ASSUME NEW f PROVE SumFunctionOnSet(f, {}) = 0
<1>1. PICK g : Unfolds(f, SUBSET {}, g)
  BY UnfoldsExists, FS_EmptySet
<1>2. Unfolds(f, SUBSET {}, CHOOSE k : Unfolds(f, SUBSET {}, k))
  BY <1>1
<1>3. \A k : Unfolds(f, SUBSET {}, k) => k[{}] = 0
  BY DEF Unfolds
<1> QED  BY <1>2, <1>3, SumIsChoice

LEMMA SumUnfolds ==
    ASSUME NEW f, NEW S, IsFiniteSet(S), NEW g, Unfolds(f, SUBSET S, g), NEW T \in SUBSET S
    PROVE  SumFunctionOnSet(f, T) = g[T]
<1>1. IsFiniteSet(T)
  BY FS_Subset
<1>2. \E k : Unfolds(f, SUBSET T, k)
  BY <1>1, UnfoldsExists
<1>3. \E k : Unfolds(f, SUBSET T, k) /\ k = CHOOSE u : Unfolds(f, SUBSET T, u)
  BY <1>2
<1>4. PICK k : Unfolds(f, SUBSET T, k) /\ SumFunctionOnSet(f, T) = k[T]
  BY <1>3, SumIsChoice
<1>5. Unfolds(f, SUBSET T, k) /\ \A x \in T : f[x] = f[x]
  BY <1>4
<1>6. g[T] = k[T]
  BY <1>5, UnfoldsAgree
<1> QED  BY <1>4, <1>6

LEMMA SumEqual ==
    ASSUME NEW S, IsFiniteSet(S), NEW f, NEW g, \A x \in S : f[x] = g[x]
    PROVE  SumFunctionOnSet(f, S) = SumFunctionOnSet(g, S)
<1>1. PICK u : Unfolds(f, SUBSET S, u)
  BY UnfoldsExists
<1>2. PICK v : Unfolds(g, SUBSET S, v)
  BY UnfoldsExists
<1>3. u[S] = v[S]
  BY <1>1, <1>2, UnfoldsAgree
<1> QED  BY <1>1, <1>2, <1>3, SumUnfolds

LEMMA SumPick ==
    ASSUME NEW f, NEW S, IsFiniteSet(S), S # {}
    PROVE  SumFunctionOnSet(f, S) = f[Pick(S)] + SumFunctionOnSet(f, S \ {Pick(S)})
<1>1. PICK g : Unfolds(f, SUBSET S, g)
  BY UnfoldsExists
<1>2. g[S] = f[Pick(S)] + g[S \ {Pick(S)}]
  BY <1>1 DEF Unfolds
<1>3. SumFunctionOnSet(f, S) = g[S]
  BY <1>1, SumUnfolds
<1>4. SumFunctionOnSet(f, S \ {Pick(S)}) = g[S \ {Pick(S)}]
  BY <1>1, SumUnfolds
<1> QED  BY <1>2, <1>3, <1>4

LEMMA SumInt ==
    ASSUME NEW S, IsFiniteSet(S), NEW f, \A x \in S : f[x] \in Int
    PROVE  SumFunctionOnSet(f, S) \in Int
<1> DEFINE Wrong == {u \in SUBSET S : SumFunctionOnSet(f, u) \notin Int}
<1> SUFFICES ASSUME Wrong # {} PROVE FALSE
  OBVIOUS
<1>1. \A s \in SUBSET S : IsFiniteSet(s)
  BY FS_Subset
<1>2. PICK u \in Wrong : \A t \in Wrong : ~(t \subseteq u /\ t # u)
  <2>1. \A s \in Wrong : IsFiniteSet(s)
    BY <1>1
  <2> HIDE DEF Wrong
  <2> QED  BY <2>1, MinimalSet
<1>3. u # {}
  BY SumEmpty
<1>4. Pick(u) \in u
  BY <1>3, PickIn
<1>5. u \ {Pick(u)} \notin Wrong
  BY <1>2, <1>4
<1>6. SumFunctionOnSet(f, u) = f[Pick(u)] + SumFunctionOnSet(f, u \ {Pick(u)})
  BY <1>1, <1>3, SumPick
<1> QED  BY <1>4, <1>5, <1>6

(* Whichever element is taken first.                                       *)
LEMMA SumRemove ==
    ASSUME NEW S, IsFiniteSet(S), NEW f, \A x \in S : f[x] \in Int, NEW y \in S
    PROVE  SumFunctionOnSet(f, S) = f[y] + SumFunctionOnSet(f, S \ {y})
<1> DEFINE Sum(u) == SumFunctionOnSet(f, u)
           Wrong == {u \in SUBSET S : \E z \in u : Sum(u) # f[z] + Sum(u \ {z})}
<1> SUFFICES ASSUME Wrong # {} PROVE FALSE
  OBVIOUS
<1>1. \A s \in SUBSET S : IsFiniteSet(s) /\ Sum(s) \in Int
  <2> SUFFICES ASSUME NEW s \in SUBSET S PROVE IsFiniteSet(s) /\ Sum(s) \in Int
    OBVIOUS
  <2>1. IsFiniteSet(s)
    BY FS_Subset
  <2> QED  BY <2>1, SumInt
<1>2. PICK u \in Wrong : \A t \in Wrong : ~(t \subseteq u /\ t # u)
  <2>1. \A s \in Wrong : IsFiniteSet(s)
    BY <1>1
  <2> HIDE DEF Wrong
  <2> QED  BY <2>1, MinimalSet
<1>3. PICK z \in u : Sum(u) # f[z] + Sum(u \ {z})
  OBVIOUS
<1> DEFINE x == Pick(u)
<1>4. x \in u
  BY <1>3, PickIn
<1>5. Sum(u) = f[x] + Sum(u \ {x})
  <2>1. IsFiniteSet(u) /\ u # {}
    BY <1>1, <1>3
  <2> QED  BY <2>1, SumPick
<1> HIDE DEF x
<1>6. x # z
  BY <1>3, <1>5
<1>7. u \ {x} \notin Wrong /\ u \ {z} \notin Wrong
  BY <1>2, <1>3, <1>4
<1>8. Sum(u \ {x}) = f[z] + Sum((u \ {x}) \ {z})
  BY <1>3, <1>6, <1>7
<1>9. Sum(u \ {z}) = f[x] + Sum((u \ {z}) \ {x})
  BY <1>4, <1>6, <1>7
<1>10. (u \ {x}) \ {z} = (u \ {z}) \ {x}
  OBVIOUS
<1>11. /\ Sum((u \ {x}) \ {z}) \in Int /\ f[x] \in Int /\ f[z] \in Int
  BY <1>1, <1>3, <1>4
<1>12. Sum(u) = f[x] + (f[z] + Sum((u \ {x}) \ {z}))
  BY <1>5, <1>8
<1>13. f[z] + Sum(u \ {z}) = f[z] + (f[x] + Sum((u \ {x}) \ {z}))
  BY <1>9, <1>10
<1> DEFINE rest == Sum((u \ {x}) \ {z})
<1>14. f[x] + (f[z] + rest) = f[z] + (f[x] + rest)
  <2>1. rest \in Int /\ f[x] \in Int /\ f[z] \in Int
    BY <1>11
  <2> HIDE DEF rest
  <2> QED  BY <2>1
<1> QED  BY <1>3, <1>12, <1>13, <1>14

LEMMA SumAdd ==
    ASSUME NEW S, IsFiniteSet(S), NEW y, y \notin S, NEW f, \A x \in S \cup {y} : f[x] \in Int
    PROVE  SumFunctionOnSet(f, S \cup {y}) = f[y] + SumFunctionOnSet(f, S)
<1>1. IsFiniteSet(S \cup {y})
  BY FS_AddElement
<1>2. (S \cup {y}) \ {y} = S
  OBVIOUS
<1>3. y \in S \cup {y}
  OBVIOUS
<1>4. SumFunctionOnSet(f, S \cup {y}) = f[y] + SumFunctionOnSet(f, (S \cup {y}) \ {y})
  BY <1>1, <1>3, SumRemove
<1> QED  BY <1>2, <1>4

(* One element's share changes.                                            *)
LEMMA SumChange ==
    ASSUME NEW S, IsFiniteSet(S), NEW y \in S, NEW f, NEW g,
           \A x \in S : f[x] \in Int /\ g[x] \in Int,
           \A x \in S \ {y} : f[x] = g[x]
    PROVE  SumFunctionOnSet(g, S) = SumFunctionOnSet(f, S) + (g[y] - f[y])
<1>1. IsFiniteSet(S \ {y})
  BY FS_RemoveElement
<1>2. SumFunctionOnSet(f, S) = f[y] + SumFunctionOnSet(f, S \ {y})
  BY SumRemove
<1>3. SumFunctionOnSet(g, S) = g[y] + SumFunctionOnSet(g, S \ {y})
  BY SumRemove
<1>4. SumFunctionOnSet(f, S \ {y}) = SumFunctionOnSet(g, S \ {y})
  BY <1>1, SumEqual
<1>5. SumFunctionOnSet(f, S \ {y}) \in Int
  BY <1>1, SumInt
<1>6. f[y] \in Int /\ g[y] \in Int
  OBVIOUS
<1> QED  BY <1>2, <1>3, <1>4, <1>5, <1>6

LEMMA SumNat ==
    ASSUME NEW S, IsFiniteSet(S), NEW f, \A x \in S : f[x] \in Nat
    PROVE  SumFunctionOnSet(f, S) \in Nat
<1> DEFINE Wrong == {u \in SUBSET S : SumFunctionOnSet(f, u) \notin Nat}
<1> SUFFICES ASSUME Wrong # {} PROVE FALSE
  OBVIOUS
<1>1. \A s \in SUBSET S : IsFiniteSet(s)
  BY FS_Subset
<1>2. PICK u \in Wrong : \A t \in Wrong : ~(t \subseteq u /\ t # u)
  <2>1. \A s \in Wrong : IsFiniteSet(s)
    BY <1>1
  <2> HIDE DEF Wrong
  <2> QED  BY <2>1, MinimalSet
<1>3. u # {}
  BY SumEmpty
<1>4. Pick(u) \in u
  BY <1>3, PickIn
<1>5. u \ {Pick(u)} \notin Wrong
  BY <1>2, <1>4
<1>6. SumFunctionOnSet(f, u) = f[Pick(u)] + SumFunctionOnSet(f, u \ {Pick(u)})
  BY <1>1, <1>3, SumPick
<1> QED  BY <1>4, <1>5, <1>6

(* Two sums are as far apart as the sum of the differences.                *)
LEMMA SumMinus ==
    ASSUME NEW S, IsFiniteSet(S), NEW f, NEW g, NEW h,
           \A x \in S : f[x] \in Int /\ g[x] \in Int /\ h[x] = f[x] - g[x]
    PROVE  SumFunctionOnSet(h, S) = SumFunctionOnSet(f, S) - SumFunctionOnSet(g, S)
<1> DEFINE Wrong == {u \in SUBSET S :
               SumFunctionOnSet(h, u) # SumFunctionOnSet(f, u) - SumFunctionOnSet(g, u)}
<1> SUFFICES ASSUME Wrong # {} PROVE FALSE
  OBVIOUS
<1>1. \A s \in SUBSET S : IsFiniteSet(s)
  BY FS_Subset
<1>2. PICK u \in Wrong : \A t \in Wrong : ~(t \subseteq u /\ t # u)
  <2>1. \A s \in Wrong : IsFiniteSet(s)
    BY <1>1
  <2> HIDE DEF Wrong
  <2> QED  BY <2>1, MinimalSet
<1>3. u # {} /\ IsFiniteSet(u) /\ u \subseteq S
  <2>1. SumFunctionOnSet(h, {}) = SumFunctionOnSet(f, {}) - SumFunctionOnSet(g, {})
    <3>1. SumFunctionOnSet(f, {}) = 0
      BY SumEmpty
    <3>2. SumFunctionOnSet(g, {}) = 0
      BY SumEmpty
    <3>3. SumFunctionOnSet(h, {}) = 0
      BY SumEmpty
    <3> QED  BY <3>1, <3>2, <3>3
  <2> QED  BY <1>1, <2>1
<1>4. Pick(u) \in u
  BY <1>3, PickIn
<1> DEFINE x == Pick(u)
           v == u \ {x}
<1>5. v \notin Wrong /\ v \in SUBSET S
  BY <1>2, <1>4
<1>6. /\ SumFunctionOnSet(f, u) = f[x] + SumFunctionOnSet(f, v)
      /\ SumFunctionOnSet(g, u) = g[x] + SumFunctionOnSet(g, v)
      /\ SumFunctionOnSet(h, u) = h[x] + SumFunctionOnSet(h, v)
  BY <1>3, SumPick
<1>7. IsFiniteSet(v) /\ \A y \in v : f[y] \in Int /\ g[y] \in Int
  BY <1>1, <1>5
<1>8. SumFunctionOnSet(f, v) \in Int /\ SumFunctionOnSet(g, v) \in Int
  BY <1>7, SumInt
<1>9. f[x] \in Int /\ g[x] \in Int /\ h[x] = f[x] - g[x]
  BY <1>3, <1>4
<1>10. SumFunctionOnSet(h, v) = SumFunctionOnSet(f, v) - SumFunctionOnSet(g, v)
  BY <1>5
<1>11. SumFunctionOnSet(h, u) # SumFunctionOnSet(f, u) - SumFunctionOnSet(g, u)
  OBVIOUS
<1> HIDE DEF x, v, Wrong
<1> QED  BY <1>6, <1>8, <1>9, <1>10, <1>11

LEMMA SumZero ==
    ASSUME NEW S, IsFiniteSet(S), NEW f, \A x \in S : f[x] = 0
    PROVE  SumFunctionOnSet(f, S) = 0
<1>1. SumFunctionOnSet(f, S) = SumFunctionOnSet(f, S) - SumFunctionOnSet(f, S)
  BY SumMinus
<1>2. SumFunctionOnSet(f, S) \in Int
  BY SumInt
<1> QED  BY <1>1, <1>2

(* No share is larger than the sum of shares.                              *)
LEMMA SumMember ==
    ASSUME NEW S, IsFiniteSet(S), NEW f, \A x \in S : f[x] \in Nat, NEW y \in S
    PROVE  f[y] <= SumFunctionOnSet(f, S)
<1>1. SumFunctionOnSet(f, S) = f[y] + SumFunctionOnSet(f, S \ {y})
  BY SumRemove
<1>2. IsFiniteSet(S \ {y})
  BY FS_RemoveElement
<1>3. SumFunctionOnSet(f, S \ {y}) \in Nat
  BY <1>2, SumNat
<1> QED  BY <1>1, <1>3

(* What is outside the set counts nothing.                                 *)
LEMMA SumUnder ==
    ASSUME NEW S, IsFiniteSet(S), NEW f, \A x \in S : f[x] \in Int,
           NEW T \in SUBSET S, NEW g, \A x \in S : g[x] = IF x \in T THEN f[x] ELSE 0
    PROVE  SumFunctionOnSet(f, T) = SumFunctionOnSet(g, S)
<1> DEFINE Wrong == {u \in SUBSET S : SumFunctionOnSet(f, u \cap T) # SumFunctionOnSet(g, u)}
<1>1. SumFunctionOnSet(f, S \cap T) = SumFunctionOnSet(g, S)
  <2> SUFFICES ASSUME Wrong # {} PROVE FALSE
    OBVIOUS
  <2>1. \A s \in SUBSET S : IsFiniteSet(s)
    BY FS_Subset
  <2>2. PICK u \in Wrong : \A t \in Wrong : ~(t \subseteq u /\ t # u)
    <3>1. \A s \in Wrong : IsFiniteSet(s)
      BY <2>1
    <3> HIDE DEF Wrong
    <3> QED  BY <3>1, MinimalSet
  <2>3. u # {} /\ IsFiniteSet(u) /\ IsFiniteSet(u \cap T) /\ u \subseteq S
    <3>1. {} \cap T = {}
      OBVIOUS
    <3> QED  BY <2>1, <3>1, SumEmpty
  <2> DEFINE x == Pick(u)
             v == u \ {x}
  <2>4. x \in u
    BY <2>3, PickIn
  <2>5. v \notin Wrong /\ v \in SUBSET S
    BY <2>2, <2>4
  <2>6. SumFunctionOnSet(g, u) = g[x] + SumFunctionOnSet(g, v)
    BY <2>3, SumPick
  <2>7. SumFunctionOnSet(f, v \cap T) = SumFunctionOnSet(g, v)
    BY <2>5
  <2>8. \A y \in S : g[y] \in Int
    OBVIOUS
  <2>9. IsFiniteSet(v) /\ SumFunctionOnSet(g, v) \in Int
    <3>1. IsFiniteSet(v)
      BY <2>1, <2>5
    <3>2. \A y \in v : g[y] \in Int
      BY <2>5, <2>8
    <3> QED  BY <3>1, <3>2, SumInt
  <2>10. SumFunctionOnSet(f, u \cap T) # SumFunctionOnSet(g, u)
    OBVIOUS
  <2> HIDE DEF Wrong, x
  <2>11. CASE x \in T
    <3>1. (u \cap T) \ {x} = v \cap T /\ x \in u \cap T
      BY <2>4, <2>11
    <3>2. \A y \in u \cap T : f[y] \in Int
      BY <2>3
    <3>3. SumFunctionOnSet(f, u \cap T) = f[x] + SumFunctionOnSet(f, (u \cap T) \ {x})
      BY <2>3, <3>1, <3>2, SumRemove
    <3>4. g[x] = f[x]
      BY <2>3, <2>4, <2>11
    <3> QED  BY <2>6, <2>7, <2>10, <3>1, <3>3, <3>4
  <2>12. CASE x \notin T
    <3>1. u \cap T = v \cap T
      BY <2>12
    <3>2. g[x] = 0
      BY <2>3, <2>4, <2>12
    <3> QED  BY <2>6, <2>7, <2>9, <2>10, <3>1, <3>2
  <2> QED  BY <2>11, <2>12
<1>2. S \cap T = T
  OBVIOUS
<1> QED  BY <1>1, <1>2

(* One element enters the set, leaves it, or changes its share.             *)
LEMMA SumStep ==
    ASSUME NEW S, IsFiniteSet(S), NEW y \in S, NEW T \in SUBSET S, NEW U \in SUBSET S,
           NEW f, NEW g, \A x \in S : f[x] \in Int /\ g[x] \in Int,
           \A x \in S \ {y} : (x \in T <=> x \in U) /\ (x \in T => f[x] = g[x])
    PROVE  SumFunctionOnSet(g, U) = SumFunctionOnSet(f, T)
              + ((IF y \in U THEN g[y] ELSE 0) - (IF y \in T THEN f[y] ELSE 0))
<1> DEFINE before == [x \in S |-> IF x \in T THEN f[x] ELSE 0]
           after == [x \in S |-> IF x \in U THEN g[x] ELSE 0]
<1>1. \A x \in S : /\ before[x] \in Int /\ before[x] = IF x \in T THEN f[x] ELSE 0
                   /\ after[x] \in Int /\ after[x] = IF x \in U THEN g[x] ELSE 0
  OBVIOUS
<1>2. \A x \in S \ {y} : before[x] = after[x]
  OBVIOUS
<1> HIDE DEF before, after
<1>3. SumFunctionOnSet(f, T) = SumFunctionOnSet(before, S)
  BY <1>1, SumUnder
<1>4. SumFunctionOnSet(g, U) = SumFunctionOnSet(after, S)
  BY <1>1, SumUnder
<1>5. SumFunctionOnSet(after, S) = SumFunctionOnSet(before, S) + (after[y] - before[y])
  BY <1>1, <1>2, SumChange
<1> QED  BY <1>1, <1>3, <1>4, <1>5

(* None does.                                                              *)
LEMMA SumStays ==
    ASSUME NEW S, IsFiniteSet(S), NEW T \in SUBSET S, NEW U \in SUBSET S, T = U,
           NEW f, NEW g, \A x \in T : f[x] = g[x]
    PROVE  SumFunctionOnSet(g, U) = SumFunctionOnSet(f, T)
<1>1. IsFiniteSet(T)
  BY FS_Subset
<1> QED  BY <1>1, SumEqual

(* The largest of finitely many numbers.                                   *)
LEMMA LargestNatural ==
    ASSUME NEW T \in SUBSET Nat, NEW bound \in Nat, \A n \in T : n <= bound, T # {}
    PROVE  \E n \in T : \A m \in T : m <= n
<1> DEFINE gaps == {bound - n : n \in T}
<1>1. gaps \in SUBSET Nat /\ gaps # {}
  <2>1. \A n \in T : n \in Nat /\ bound - n \in Nat
    OBVIOUS
  <2> QED  BY <2>1
<1>2. PICK d \in gaps : \A e \in gaps : d <= e
  <2> HIDE DEF gaps
  <2> QED  BY <1>1, LeastNatural
<1>3. PICK n \in T : d = bound - n
  OBVIOUS
<1>4. ASSUME NEW m \in T PROVE m <= n
  <2>1. bound - m \in gaps
    OBVIOUS
  <2> HIDE DEF gaps
  <2> QED  BY <1>2, <1>3, <2>1
<1> QED  BY <1>4

(* Products and quotients.                                                 *)
LEMMA QuotientNatural ==
    ASSUME NEW a \in Nat, NEW b \in Nat \ {0}
    PROVE  a \div b \in Nat
OBVIOUS

LEMMA ProductNatural == ASSUME NEW a \in Nat, NEW b \in Nat PROVE a * b \in Nat
OBVIOUS

LEMMA ProductGrows ==
    ASSUME NEW a \in Nat, NEW b \in Nat, NEW c \in Nat, b <= c
    PROVE  a * b <= a * c
OBVIOUS

(* What is left of a sum when a part is taken out.                         *)
LEMMA SumRest ==
    ASSUME NEW S, IsFiniteSet(S), NEW f, \A x \in S : f[x] \in Int, NEW T \in SUBSET S
    PROVE  SumFunctionOnSet(f, S \ T) = SumFunctionOnSet(f, S) - SumFunctionOnSet(f, T)
<1> DEFINE g == [x \in S |-> IF x \in T THEN f[x] ELSE 0]
           h == [x \in S |-> IF x \in S \ T THEN f[x] ELSE 0]
<1>1. \A x \in S : /\ g[x] = (IF x \in T THEN f[x] ELSE 0) /\ h[x] = (IF x \in S \ T THEN f[x] ELSE 0)
                   /\ f[x] \in Int /\ g[x] \in Int /\ h[x] = f[x] - g[x]
  OBVIOUS
<1> HIDE DEF g, h
<1>2. SumFunctionOnSet(f, T) = SumFunctionOnSet(g, S)
  BY <1>1, SumUnder
<1>3. SumFunctionOnSet(f, S \ T) = SumFunctionOnSet(h, S)
  <2>1. S \ T \in SUBSET S
    OBVIOUS
  <2> QED  BY <1>1, <2>1, SumUnder
<1>4. SumFunctionOnSet(h, S) = SumFunctionOnSet(f, S) - SumFunctionOnSet(g, S)
  BY <1>1, SumMinus
<1> QED  BY <1>2, <1>3, <1>4

(* The same shares under other names.                                      *)
LEMMA SumRenamed ==
    ASSUME NEW S, IsFiniteSet(S), NEW m, \A x \in S, y \in S : m[x] = m[y] => x = y,
           NEW f, NEW g, \A x \in S : f[x] \in Int /\ f[x] = g[m[x]]
    PROVE  SumFunctionOnSet(f, S) = SumFunctionOnSet(g, {m[x] : x \in S})
<1> DEFINE names(u) == {m[x] : x \in u}
           Wrong == {u \in SUBSET S : SumFunctionOnSet(f, u) # SumFunctionOnSet(g, names(u))}
<1> SUFFICES ASSUME Wrong # {} PROVE FALSE
  OBVIOUS
<1>1. \A s \in SUBSET S : IsFiniteSet(s)
  BY FS_Subset
<1>2. PICK u \in Wrong : \A t \in Wrong : ~(t \subseteq u /\ t # u)
  <2>1. \A s \in Wrong : IsFiniteSet(s)
    BY <1>1
  <2> HIDE DEF Wrong
  <2> QED  BY <2>1, MinimalSet
<1>3. u # {} /\ IsFiniteSet(u) /\ u \subseteq S
  <2>1. names({}) = {}
    OBVIOUS
  <2>2. SumFunctionOnSet(f, {}) = SumFunctionOnSet(g, {})
    <3>1. SumFunctionOnSet(f, {}) = 0
      BY SumEmpty
    <3>2. SumFunctionOnSet(g, {}) = 0
      BY SumEmpty
    <3> QED  BY <3>1, <3>2
  <2> QED  BY <1>1, <2>1, <2>2
<1> DEFINE x == Pick(u)
           v == u \ {x}
<1>4. x \in u
  BY <1>3, PickIn
<1>5. SumFunctionOnSet(f, u) = f[x] + SumFunctionOnSet(f, v)
  BY <1>3, SumPick
<1>6. v \notin Wrong /\ v \in SUBSET S
  BY <1>2, <1>4
<1>7. SumFunctionOnSet(f, v) = SumFunctionOnSet(g, names(v))
  BY <1>6
<1>8. SumFunctionOnSet(f, u) # SumFunctionOnSet(g, names(u))
  OBVIOUS
<1> HIDE DEF Wrong, x
<1>9. names(u) \ {m[x]} = names(v) /\ m[x] \in names(u)
  BY <1>3, <1>4
<1>10. IsFiniteSet(names(u)) /\ \A n \in names(u) : g[n] \in Int
  <2>1. IsFiniteSet(names(u))
    <3> DEFINE names_of == [y \in u |-> m[y]]
    <3>1. names_of \in Surjection(u, names(u))
      BY DEF Surjection
    <3> HIDE DEF names_of, names
    <3> QED  BY <1>3, <3>1, FS_Surjection
  <2> QED  BY <1>3, <2>1
<1> HIDE DEF names, v
<1>11. SumFunctionOnSet(g, names(u)) = g[m[x]] + SumFunctionOnSet(g, names(u) \ {m[x]})
  BY <1>9, <1>10, SumRemove
<1>12. f[x] = g[m[x]]
  BY <1>3, <1>4
<1> QED  BY <1>5, <1>7, <1>8, <1>9, <1>11, <1>12

=============================================================================
