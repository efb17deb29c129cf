---------------------------- MODULE SumTheorems ----------------------------
(***************************************************************************)
(* Induction, recursion and sums.  Each induction below takes a minimal    *)
(* counterexample, among numbers or among the subsets of a finite set.     *)
(* SumFunctionOnSet is a fold, a recursive function over subsets.          *)
(***************************************************************************)
EXTENDS Functions, FiniteSetTheorems, TLAPS

\* Induction over finite sets: a set of subsets has a minimal one.
LEMMA MinimalSubset ==
    ASSUME NEW S, IsFiniteSet(S), NEW B, B \subseteq SUBSET S, B # {}
    PROVE  \E T \in B : \A U \in B : U \subseteq T => U = T
<1>1. IsWellFoundedOn(StrictSubsetOrdering(S), SUBSET S)
  BY FS_StrictSubsetOrderingWellFounded, FS_FiniteSubsetsOfFinite
<1>2. PICK T \in B : \A U \in B : ~ (<<U, T>> \in StrictSubsetOrdering(S))
  BY <1>1, WFMin, Zenon
<1>3. ASSUME NEW U \in B, U \subseteq T PROVE U = T
  BY <1>2, <1>3 DEF StrictSubsetOrdering
<1>. QED  BY <1>3

\* A set of numbers has a least one.
LEMMA LeastNat ==
    ASSUME NEW S, S \subseteq Nat, S # {}
    PROVE  \E m \in S : \A n \in S : m <= n
<1>1. PICK k \in S : TRUE
  OBVIOUS
<1>. DEFINE B == {0..l : l \in {m \in S : m <= k}}
<1>2. PICK T \in B : \A U \in B : U \subseteq T => U = T
  <2>1. B \subseteq SUBSET (0..k) /\ 0..k \in B
    BY <1>1
  <2>2. IsFiniteSet(0..k)
    BY <1>1, FS_Interval
  <2>3. B # {}
    BY <2>1
  <2>. DEFINE top == 0..k
  <2>4. B \subseteq SUBSET top /\ IsFiniteSet(top)
    BY <2>1, <2>2
  <2>. HIDE DEF B, top
  <2>. QED  BY <2>3, <2>4, MinimalSubset
<1>3. PICK m \in S : m <= k /\ T = 0..m
  OBVIOUS
<1>4. ASSUME NEW n \in S PROVE m <= n
  <2>1. SUFFICES ASSUME n < m PROVE FALSE
    OBVIOUS
  <2>2. n <= k /\ m \in Nat /\ n \in Nat /\ k \in Nat
    BY <1>1, <1>3, <2>1
  <2>3. 0..n \in B /\ 0..n \subseteq 0..m
    BY <2>1, <2>2
  <2>4. 0..n = 0..m
    BY <1>2, <1>3, <2>3
  <2>5. m \in 0..m /\ m \notin 0..n
    BY <2>1, <2>2
  <2>. QED  BY <2>4, <2>5
<1>. QED  BY <1>4

\* G[x][F] is the right-hand side of the definition of a recursive function F, which
\* depends on the values of F at arguments of smaller measure only.
Recursion(D, V, m, N, G) ==
    /\ V # {} /\ m \in [D -> Nat] /\ N \in Nat /\ \A x \in D : m[x] <= N
    /\ G \in [D -> [[D -> V] -> V]]
    /\ \A x \in D : \A g, h \in [D -> V] :
          (\A y \in D : m[y] < m[x] => g[y] = h[y]) => G[x][g] = G[x][h]

\* Such a function exists.
LEMMA RecursionExists ==
    ASSUME NEW D, NEW V, NEW m, NEW N, NEW G, Recursion(D, V, m, N, G)
    PROVE  \E F \in [D -> V] : \A x \in D : F[x] = G[x][F]
<1>0. /\ m \in [D -> Nat] /\ N \in Nat /\ \A x \in D : m[x] <= N
      /\ G \in [D -> [[D -> V] -> V]]
      /\ \A x \in D : \A g, h \in [D -> V] :
            (\A y \in D : m[y] < m[x] => g[y] = h[y]) => G[x][g] = G[x][h]
  BY DEF Recursion
<1>a. PICK v0 \in V : TRUE
  BY DEF Recursion
<1>. DEFINE Good(F, n) == \A x \in D : m[x] < n => F[x] = G[x][F]
            Bad == {n \in Nat : ~ \E F \in [D -> V] : Good(F, n)}
<1>1. SUFFICES Bad = {}
  <2>1. N + 1 \notin Bad
    BY <1>0, <1>1
  <2>2. PICK F \in [D -> V] : Good(F, N + 1)
    BY <1>0, <2>1
  <2>3. \A x \in D : m[x] < N + 1
    BY <1>0
  <2>. QED  BY <2>2, <2>3
<1>2. SUFFICES ASSUME Bad # {} PROVE FALSE
  OBVIOUS
<1>3. PICK n \in Bad : \A k \in Bad : n <= k
  <2>1. Bad \subseteq Nat
    OBVIOUS
  <2>. HIDE DEF Bad
  <2>. QED  BY <1>2, <2>1, LeastNat
<1>4. n \in Nat /\ ~ \E F \in [D -> V] : Good(F, n)
  OBVIOUS
<1>5. n # 0
  <2>. DEFINE F == [x \in D |-> v0]
  <2>1. F \in [D -> V] /\ Good(F, 0)
    BY <1>0, <1>a
  <2>. HIDE DEF Good
  <2>. QED  BY <1>4, <2>1
<1>6. n - 1 \in Nat /\ n - 1 \notin Bad
  <2>1. n - 1 \in Nat /\ ~(n <= n - 1)
    BY <1>4, <1>5
  <2>. HIDE DEF Bad
  <2>. QED  BY <1>3, <2>1
<1>7. PICK F \in [D -> V] : Good(F, n - 1)
  BY <1>6
<1>. DEFINE H == [x \in D |-> IF m[x] < n - 1 THEN F[x] ELSE G[x][F]]
<1>8. H \in [D -> V]
  BY <1>0
<1>9. Good(H, n)
  <2>. SUFFICES ASSUME NEW x \in D, m[x] < n PROVE H[x] = G[x][H]
    OBVIOUS
  <2>1. \A y \in D : m[y] < m[x] => F[y] = H[y]
    BY <1>0, <1>4
  <2>2. G[x][F] = G[x][H]
    <3>. HIDE DEF H
    <3>. QED  BY <1>0, <1>8, <2>1
  <2>3. H[x] = G[x][F]
    BY <1>0, <1>4, <1>7
  <2>. QED  BY <2>2, <2>3
<1>. QED
  <2>. HIDE DEF Good, H
  <2>. QED  BY <1>4, <1>8, <1>9

\* The same for a function that is defined from one number to the next
Repeats(lo, hi, V, a, g) == lo \in Nat /\ hi \in Nat /\ a \in V /\ g \in [lo..hi -> [V -> V]]

\* There is a function that repeats a step from lo to hi.
LEMMA RepeatExists ==
    ASSUME NEW lo, NEW hi, NEW V, NEW a, NEW g, Repeats(lo, hi, V, a, g)
    PROVE  \E f \in [lo..hi -> V] : \A k \in lo..hi : f[k] = IF k = lo THEN a ELSE g[k][f[k - 1]]
<1>0. lo \in Nat /\ hi \in Nat /\ a \in V /\ g \in [lo..hi -> [V -> V]]
  BY DEF Repeats
<1>. DEFINE D == lo..hi
            w == [k \in D |-> k - lo]
            G == [k \in D |-> [F \in [D -> V] |-> IF k = lo THEN a ELSE g[k][F[k - 1]]]]
<1>1. w \in [D -> Nat] /\ (\A k \in D : w[k] <= hi) /\ V # {}
  BY <1>0
<1>2. \A k \in D : k # lo => k - 1 \in D /\ w[k - 1] < w[k]
  BY <1>0
<1>3. G \in [D -> [[D -> V] -> V]]
  <2>. SUFFICES ASSUME NEW k \in D, NEW F \in [D -> V]
                PROVE  (IF k = lo THEN a ELSE g[k][F[k - 1]]) \in V
    BY Zenon
  <2>1. k # lo => F[k - 1] \in V
    BY <1>2
  <2>. QED  BY <1>0, <2>1
<1>4. ASSUME NEW k \in D, NEW f \in [D -> V], NEW h \in [D -> V],
             \A y \in D : w[y] < w[k] => f[y] = h[y]
      PROVE  G[k][f] = G[k][h]
  <2>1. k # lo => f[k - 1] = h[k - 1]
    <3>. HIDE DEF D, w
    <3>. QED  BY <1>2, <1>4
  <2>. HIDE DEF D, w
  <2>. QED  BY <2>1
<1>5. \E F \in [D -> V] : \A k \in D : F[k] = G[k][F]
  <2>. HIDE DEF G, w, D
  <2>1. Recursion(D, V, w, hi, G)
    BY <1>0, <1>1, <1>3, <1>4 DEF Recursion
  <2>. QED  BY <2>1, RecursionExists
<1>6. PICK F \in [D -> V] : \A k \in D : F[k] = G[k][F]
  BY <1>5
<1>7. \A k \in D : F[k] = IF k = lo THEN a ELSE g[k][F[k - 1]]
  <2>. HIDE DEF D
  <2>. QED  BY <1>6
<1>. QED  BY <1>7

Pick(s) == CHOOSE x \in s : TRUE

\* The element that a fold takes next is in the set.
LEMMA PickIn == ASSUME NEW s, s # {} PROVE Pick(s) \in s
BY DEF Pick

\* it is the function by which the fold of f over S is defined.
IsFold(it, f, S) ==
    it = [s \in SUBSET S |-> IF s = {} THEN 0
                             ELSE f[Pick(s)] + it[s \ {Pick(s)}]]
Fold(f, S) == CHOOSE it : IsFold(it, f, S)

\* SumFunctionOnSet is a fold.
LEMMA SumIsFold ==
    ASSUME NEW f, NEW S
    PROVE  SumFunctionOnSet(f, S) = Fold(f, S)[S]
BY DEF SumFunctionOnSet, FoldFunctionOnSet, MapThenFoldSet, Fold, IsFold, Pick

\* One step of a fold
LEMMA FoldStep ==
    ASSUME NEW f, NEW A, NEW it, IsFold(it, f, A), NEW S \in SUBSET A
    PROVE  /\ S = {} => it[S] = 0
           /\ S # {} => it[S] = f[Pick(S)] + it[S \ {Pick(S)}]
BY DEF IsFold

\* Two folds agree on the finite sets that both are defined on.
LEMMA FoldUnique ==
    ASSUME NEW f, NEW A, NEW B, NEW g, NEW h, IsFold(g, f, A), IsFold(h, f, B),
           NEW S, IsFiniteSet(S), S \subseteq A, S \subseteq B
    PROVE  g[S] = h[S]
<1>. DEFINE Bad == {T \in SUBSET S : g[T] # h[T]}
<1>. SUFFICES ASSUME Bad # {} PROVE FALSE
  OBVIOUS
<1>1. PICK T \in Bad : \A U \in Bad : U \subseteq T => U = T
  <2>. HIDE DEF Bad
  <2>1. Bad \subseteq SUBSET S
    BY DEF Bad
  <2>. QED  BY <2>1, MinimalSubset
<1>2. T \in SUBSET A /\ T \in SUBSET B /\ g[T] # h[T]
  OBVIOUS
<1>3. T # {}
  BY <1>2, FoldStep
<1>. DEFINE U == T \ {Pick(T)}
<1>4. U \subseteq T /\ U # T /\ U \in SUBSET S
  BY <1>3, PickIn
<1>5. g[U] = h[U]
  BY <1>1, <1>4
<1>. HIDE DEF U, Bad
<1>6. g[T] = f[Pick(T)] + g[U] /\ h[T] = f[Pick(T)] + h[U]
  BY <1>2, <1>3, FoldStep DEF U
<1>. QED  BY <1>2, <1>5, <1>6

\* The recursive function exists: a minimal set without one would have one, made
\* of those of its subsets.
LEMMA FoldExists ==
    ASSUME NEW f, NEW S, IsFiniteSet(S)
    PROVE  IsFold(Fold(f, S), f, S)
<1>. DEFINE Bad == {T \in SUBSET S : ~ \E it : IsFold(it, f, T)}
<1>1. Bad = {}
  <2>. SUFFICES ASSUME Bad # {} PROVE FALSE
    OBVIOUS
  <2>1. PICK T \in Bad : \A U \in Bad : U \subseteq T => U = T
    <3>. HIDE DEF Bad
    <3>1. Bad \subseteq SUBSET S
      BY DEF Bad
    <3>. QED  BY <3>1, MinimalSubset
  <2>2. T \subseteq S /\ \A U \in SUBSET T : IsFiniteSet(U)
    BY FS_Subset
  <2>. DEFINE val(u) == Fold(f, u)[u]
              it == [s \in SUBSET T |-> IF s = {} THEN 0
                                        ELSE f[Pick(s)] + val(s \ {Pick(s)})]
  <2>3. ASSUME NEW U \in SUBSET T, U # T PROVE IsFold(Fold(f, U), f, U)
    <3>1. \E g : IsFold(g, f, U)
      BY <2>1, <2>3
    <3>. QED  BY <3>1 DEF Fold
  <2>4. ASSUME NEW U \in SUBSET T, U # T PROVE it[U] = val(U)
    <3>. HIDE DEF Bad
    <3>1. IsFold(Fold(f, U), f, U) /\ U \in SUBSET U
      BY <2>3, <2>4
    <3>2. CASE U = {}
      <4>1. val(U) = 0
        BY <3>1, <3>2, FoldStep
      <4>. QED  BY <3>2, <4>1
    <3>3. CASE U # {}
      <4>. DEFINE V == U \ {Pick(U)}
      <4>1. V \in SUBSET T /\ V # T /\ V \subseteq U /\ IsFiniteSet(V)
        BY <3>3, <2>2, <2>4
      <4>2. IsFold(Fold(f, V), f, V) /\ V \subseteq V
        BY <4>1, <2>3
      <4>3. val(U) = f[Pick(U)] + Fold(f, U)[V]
        BY <3>1, <3>3, FoldStep
      <4>4. Fold(f, U)[V] = val(V)
        <5>. HIDE DEF V
        <5>. QED  BY <3>1, <4>1, <4>2, FoldUnique
      <4>5. it[U] = f[Pick(U)] + val(V)
        BY <3>3
      <4>. QED  BY <4>3, <4>4, <4>5
    <3>. QED  BY <3>2, <3>3
  <2>5. IsFold(it, f, T)
    <3>1. ASSUME NEW s \in SUBSET T, s # {}
          PROVE  val(s \ {Pick(s)}) = it[s \ {Pick(s)}]
      <4>1. s \ {Pick(s)} \in SUBSET T /\ s \ {Pick(s)} # T
        BY <3>1, PickIn
      <4>. HIDE DEF val, it, Bad
      <4>. QED  BY <4>1, <2>4
    <3>2. it = [s \in SUBSET T |-> IF s = {} THEN 0
                                   ELSE f[Pick(s)] + it[s \ {Pick(s)}]]
      <4>. HIDE DEF val
      <4>1. \A s \in SUBSET T :
               it[s] = IF s = {} THEN 0 ELSE f[Pick(s)] + it[s \ {Pick(s)}]
        BY <3>1
      <4>2. it = [s \in SUBSET T |-> it[s]]
        OBVIOUS
      <4>. HIDE DEF it
      <4>. QED  BY <4>1, <4>2
    <3>. HIDE DEF it
    <3>. QED  BY <3>2 DEF IsFold
  <2>. HIDE DEF it
  <2>. QED  BY <2>5
<1>2. \E it : IsFold(it, f, S)
  BY <1>1
<1>. QED  BY <1>2 DEF Fold

-----------------------------------------------------------------------------
(* Laws of sums *)

\* The recursion equation
LEMMA SumStep ==
    ASSUME NEW f, NEW S, IsFiniteSet(S)
    PROVE  /\ S = {} => SumFunctionOnSet(f, S) = 0
           /\ S # {} => SumFunctionOnSet(f, S) = f[Pick(S)] + SumFunctionOnSet(f, S \ {Pick(S)})
<1>. DEFINE U == S \ {Pick(S)}
<1>1. IsFiniteSet(U) /\ U \subseteq S
  BY FS_Subset
<1>2. IsFold(Fold(f, S), f, S) /\ IsFold(Fold(f, U), f, U)
  BY <1>1, FoldExists
<1>3. Fold(f, S)[U] = Fold(f, U)[U]
  <2>. HIDE DEF U
  <2>. QED  BY <1>1, <1>2, FoldUnique
<1>4. SumFunctionOnSet(f, S) = Fold(f, S)[S] /\ SumFunctionOnSet(f, U) = Fold(f, U)[U]
  BY SumIsFold
<1>. QED  BY <1>2, <1>3, <1>4, FoldStep

\* A sum of integers is one; a sum of naturals is one.
LEMMA SumType ==
    ASSUME NEW f, NEW S, IsFiniteSet(S), \A x \in S : f[x] \in Int
    PROVE  /\ SumFunctionOnSet(f, S) \in Int
           /\ (\A x \in S : f[x] >= 0) => SumFunctionOnSet(f, S) >= 0
<1>. DEFINE Good(T) ==
                /\ SumFunctionOnSet(f, T) \in Int
                /\ (\A x \in S : f[x] >= 0) => SumFunctionOnSet(f, T) >= 0
            Bad == {T \in SUBSET S : ~Good(T)}
<1>. SUFFICES ASSUME Bad # {} PROVE FALSE
  OBVIOUS
<1>1. PICK T \in Bad : \A U \in Bad : U \subseteq T => U = T
  <2>. HIDE DEF Bad
  <2>1. Bad \subseteq SUBSET S
    BY DEF Bad
  <2>. QED  BY <2>1, MinimalSubset
<1>2. T \in SUBSET S /\ ~Good(T) /\ IsFiniteSet(T)
  BY FS_Subset
<1>3. T # {}
  <2>1. T = {} => SumFunctionOnSet(f, T) = 0
    BY <1>2, SumStep
  <2>. QED  BY <1>2, <2>1
<1>4. Pick(T) \in T
  BY <1>3, PickIn
<1>. DEFINE U == T \ {Pick(T)}
<1>5. U \in SUBSET S /\ U \subseteq T /\ U # T
  BY <1>2, <1>4
<1>6. Good(U)
  <2>. HIDE DEF Good, U
  <2>. QED  BY <1>1, <1>5
<1>7. SumFunctionOnSet(f, T) = f[Pick(T)] + SumFunctionOnSet(f, U) /\ f[Pick(T)] \in Int
  BY <1>2, <1>3, <1>4, SumStep
<1>. HIDE DEF U, Bad
<1>8. Good(T)
  BY <1>2, <1>4, <1>6, <1>7
<1>. QED  BY <1>2, <1>8

\* Any element may be taken out, not only the one the fold picks.
LEMMA SumTakeOut ==
    ASSUME NEW f, NEW S, IsFiniteSet(S), \A x \in S : f[x] \in Int, NEW y \in S
    PROVE  SumFunctionOnSet(f, S) = f[y] + SumFunctionOnSet(f, S \ {y})
<1>. DEFINE Good(T) == \A x \in T : SumFunctionOnSet(f, T) = f[x] + SumFunctionOnSet(f, T \ {x})
            Bad == {T \in SUBSET S : ~Good(T)}
<1>. SUFFICES ASSUME Bad # {} PROVE FALSE
  OBVIOUS
<1>1. PICK T \in Bad : \A U \in Bad : U \subseteq T => U = T
  <2>. HIDE DEF Bad
  <2>1. Bad \subseteq SUBSET S
    BY DEF Bad
  <2>. QED  BY <2>1, MinimalSubset
<1>2. T \in SUBSET S /\ ~Good(T) /\ IsFiniteSet(T)
  BY FS_Subset
<1>3. PICK x \in T : SumFunctionOnSet(f, T) # f[x] + SumFunctionOnSet(f, T \ {x})
  BY <1>2
<1>. DEFINE p == Pick(T)
<1>4. p \in T /\ SumFunctionOnSet(f, T) = f[p] + SumFunctionOnSet(f, T \ {p})
  BY <1>2, <1>3, PickIn, SumStep
<1>5. x # p
  BY <1>3, <1>4
<1>. DEFINE R == T \ {x, p}
<1>6. \A U \in SUBSET S : U \subseteq T /\ U # T => Good(U)
  <2>. HIDE DEF Good
  <2>. QED  BY <1>1
<1>7. SumFunctionOnSet(f, T \ {p}) = f[x] + SumFunctionOnSet(f, R)
  <2>1. T \ {p} \in SUBSET S /\ T \ {p} # T /\ x \in T \ {p} /\ (T \ {p}) \ {x} = R
    BY <1>2, <1>4, <1>5
  <2>2. Good(T \ {p})
    <3>. HIDE DEF Good, p
    <3>. QED  BY <2>1, <1>6
  <2>. HIDE DEF p, R
  <2>. QED  BY <2>1, <2>2
<1>8. SumFunctionOnSet(f, T \ {x}) = f[p] + SumFunctionOnSet(f, R)
  <2>1. T \ {x} \in SUBSET S /\ T \ {x} # T /\ p \in T \ {x} /\ (T \ {x}) \ {p} = R
    BY <1>2, <1>4, <1>5
  <2>2. Good(T \ {x})
    <3>. HIDE DEF Good, p
    <3>. QED  BY <2>1, <1>6
  <2>. HIDE DEF p, R
  <2>. QED  BY <2>1, <2>2
<1>9. SumFunctionOnSet(f, R) \in Int /\ f[x] \in Int /\ f[p] \in Int
  <2>1. R \in SUBSET S
    BY <1>2
  <2>2. IsFiniteSet(R) /\ \A z \in R : f[z] \in Int
    <3>. HIDE DEF R
    <3>. QED  BY <2>1, FS_Subset
  <2>. HIDE DEF R, p
  <2>. QED  BY <2>2, <1>2, <1>4, SumType
<1>. HIDE DEF R, p
<1>. QED  BY <1>3, <1>4, <1>7, <1>8, <1>9

\* Summands of which one is twice, or at least, the other
LEMMA SumLeq ==
    ASSUME NEW f, NEW g, NEW k \in Nat, NEW S, IsFiniteSet(S),
           \A x \in S : f[x] \in Int /\ g[x] \in Int /\ k * f[x] <= g[x]
    PROVE  k * SumFunctionOnSet(f, S) <= SumFunctionOnSet(g, S)
<1>. DEFINE Good(T) == k * SumFunctionOnSet(f, T) <= SumFunctionOnSet(g, T)
            Bad == {T \in SUBSET S : ~Good(T)}
<1>. SUFFICES ASSUME Bad # {} PROVE FALSE
  OBVIOUS
<1>1. PICK T \in Bad : \A U \in Bad : U \subseteq T => U = T
  <2>. HIDE DEF Bad
  <2>1. Bad \subseteq SUBSET S
    BY DEF Bad
  <2>. QED  BY <2>1, MinimalSubset
<1>2. T \in SUBSET S /\ ~Good(T) /\ IsFiniteSet(T)
  BY FS_Subset
<1>3. T # {}
  <2>1. T = {} => SumFunctionOnSet(f, T) = 0 /\ SumFunctionOnSet(g, T) = 0
    BY <1>2, SumStep
  <2>2. k * 0 = 0
    OBVIOUS
  <2>. QED  BY <1>2, <2>1, <2>2
<1>4. Pick(T) \in T
  BY <1>3, PickIn
<1>. DEFINE U == T \ {Pick(T)}
<1>5. U \in SUBSET S /\ U \subseteq T /\ U # T /\ IsFiniteSet(U)
  BY <1>2, <1>4, FS_Subset
<1>6. Good(U)
  <2>. HIDE DEF Good, U
  <2>. QED  BY <1>1, <1>5
<1>. HIDE DEF U, Bad
<1>7. /\ SumFunctionOnSet(f, T) = f[Pick(T)] + SumFunctionOnSet(f, U)
      /\ SumFunctionOnSet(g, T) = g[Pick(T)] + SumFunctionOnSet(g, U)
  BY <1>2, <1>3, SumStep DEF U
<1>8. SumFunctionOnSet(f, U) \in Int /\ SumFunctionOnSet(g, U) \in Int
  BY <1>5, SumType
<1>9. f[Pick(T)] \in Int /\ g[Pick(T)] \in Int /\ k * f[Pick(T)] <= g[Pick(T)]
  BY <1>2, <1>4
<1>10. k * (f[Pick(T)] + SumFunctionOnSet(f, U)) = k * f[Pick(T)] + k * SumFunctionOnSet(f, U)
  BY <1>8, <1>9
<1>11. k * f[Pick(T)] \in Int /\ k * SumFunctionOnSet(f, U) \in Int
  BY <1>8, <1>9
<1>12. Good(T)
  BY <1>6, <1>7, <1>8, <1>9, <1>10, <1>11
<1>. QED  BY <1>2, <1>12

\* The sum depends on the summands only.
LEMMA SumSame ==
    ASSUME NEW f, NEW g, NEW S, IsFiniteSet(S),
           \A x \in S : f[x] \in Int /\ g[x] = f[x]
    PROVE  SumFunctionOnSet(f, S) = SumFunctionOnSet(g, S)
<1>1. 1 * SumFunctionOnSet(f, S) <= SumFunctionOnSet(g, S) /\ 1 * SumFunctionOnSet(g, S) <= SumFunctionOnSet(f, S)
  BY SumLeq
<1>2. SumFunctionOnSet(f, S) \in Int /\ SumFunctionOnSet(g, S) \in Int
  BY SumType
<1>. QED  BY <1>1, <1>2

\* One summand changes.
LEMMA SumChange ==
    ASSUME NEW f, NEW g, NEW S, IsFiniteSet(S), NEW y \in S,
           \A x \in S : f[x] \in Int /\ g[x] \in Int,
           \A x \in S \ {y} : g[x] = f[x]
    PROVE  SumFunctionOnSet(g, S) = SumFunctionOnSet(f, S) + (g[y] - f[y])
<1>1. IsFiniteSet(S \ {y})
  BY FS_Subset
<1>2. SumFunctionOnSet(f, S \ {y}) = SumFunctionOnSet(g, S \ {y}) /\ SumFunctionOnSet(f, S \ {y}) \in Int
  BY <1>1, SumSame, SumType
<1>3. SumFunctionOnSet(f, S) = f[y] + SumFunctionOnSet(f, S \ {y}) /\ SumFunctionOnSet(g, S) = g[y] + SumFunctionOnSet(g, S \ {y})
  BY SumTakeOut
<1>. QED  BY <1>2, <1>3

\* A sum of naturals does not shrink when elements are added.
LEMMA SumSubset ==
    ASSUME NEW f, NEW S, IsFiniteSet(S), \A x \in S : f[x] \in Nat,
           NEW T \in SUBSET S
    PROVE  SumFunctionOnSet(f, T) <= SumFunctionOnSet(f, S)
<1>. DEFINE Bad == {U \in SUBSET S :
                      T \subseteq U
                      /\ ~(SumFunctionOnSet(f, T) <= SumFunctionOnSet(f, U))}
<1>. SUFFICES ASSUME Bad # {} PROVE FALSE
  OBVIOUS
<1>1. PICK U \in Bad : \A V \in Bad : V \subseteq U => V = U
  <2>. HIDE DEF Bad
  <2>1. Bad \subseteq SUBSET S
    BY DEF Bad
  <2>. QED  BY <2>1, MinimalSubset
<1>2. /\ U \in SUBSET S /\ T \subseteq U /\ IsFiniteSet(U) /\ IsFiniteSet(T)
      /\ ~(SumFunctionOnSet(f, T) <= SumFunctionOnSet(f, U))
  BY FS_Subset
<1>3. SumFunctionOnSet(f, T) \in Int
  BY <1>2, SumType
<1>4. PICK x \in U : x \notin T
  BY <1>2, <1>3
<1>. DEFINE V == U \ {x}
<1>5. V \in SUBSET S /\ V \subseteq U /\ V # U /\ T \subseteq V /\ IsFiniteSet(V)
  BY <1>2, <1>4, FS_Subset
<1>6. SumFunctionOnSet(f, T) <= SumFunctionOnSet(f, V)
  BY <1>1, <1>5
<1>7. SumFunctionOnSet(f, U) = f[x] + SumFunctionOnSet(f, V)
  BY <1>2, SumTakeOut
<1>8. SumFunctionOnSet(f, V) \in Int /\ f[x] \in Nat
  <2>. HIDE DEF V
  <2>. QED  BY <1>2, <1>5, SumType
<1>. HIDE DEF V
<1>. QED  BY <1>2, <1>3, <1>6, <1>7, <1>8

\* Sums of the same summands, in another order
LEMMA SumBijection ==
    ASSUME NEW S, NEW T, IsFiniteSet(S), NEW p \in Bijection(S, T), NEW f, NEW g,
           \A y \in T : g[y] \in Int, \A x \in S : f[x] = g[p[x]]
    PROVE  SumFunctionOnSet(f, S) = SumFunctionOnSet(g, T)
<1>0. /\ p \in [S -> T] /\ \A x, y \in S : p[x] = p[y] => x = y
      /\ \A y \in T : \E x \in S : p[x] = y
  BY DEF Bijection, Injection, Surjection, IsInjective
<1>a. IsFiniteSet(T) /\ \A x \in S : f[x] \in Int
  <2>1. ExistsBijection(S, T)
    BY DEF ExistsBijection
  <2>. QED  BY <1>0, <2>1, FS_Bijection
<1>. DEFINE Im(U) == {p[x] : x \in U}
            Bad == {U \in SUBSET S : SumFunctionOnSet(f, U) # SumFunctionOnSet(g, Im(U))}
<1>1. Bad = {}
  <2>. SUFFICES ASSUME Bad # {} PROVE FALSE
    OBVIOUS
  <2>1. PICK U \in Bad : \A W \in Bad : W \subseteq U => W = U
    <3>. HIDE DEF Bad
    <3>1. Bad \subseteq SUBSET S
      BY DEF Bad
    <3>. QED  BY <3>1, MinimalSubset
  <2>2. /\ U \in SUBSET S /\ IsFiniteSet(U) /\ Im(U) \in SUBSET T /\ IsFiniteSet(Im(U))
        /\ SumFunctionOnSet(f, U) # SumFunctionOnSet(g, Im(U))
    <3>1. U \in SUBSET S /\ SumFunctionOnSet(f, U) # SumFunctionOnSet(g, Im(U))
      OBVIOUS
    <3>2. Im(U) \in SUBSET T
      BY <1>0, <3>1
    <3>. HIDE DEF Im
    <3>. QED  BY <1>a, <3>1, <3>2, FS_Subset
  <2>3. U # {}
    <3>1. SumFunctionOnSet(f, {}) = 0 /\ SumFunctionOnSet(g, {}) = 0
      BY FS_EmptySet, SumStep
    <3>2. U = {} => Im(U) = {}
      OBVIOUS
    <3>. HIDE DEF Im
    <3>. QED  BY <2>2, <3>1, <3>2
  <2>4. PICK y \in U : TRUE
    BY <2>3
  <2>. DEFINE W == U \ {y}
  <2>5. W \in SUBSET S /\ W \subseteq U /\ W # U
    BY <2>2, <2>4
  <2>6. SumFunctionOnSet(f, W) = SumFunctionOnSet(g, Im(W))
    <3>1. W \notin Bad
      <4>. HIDE DEF Bad, W
      <4>. QED  BY <2>1, <2>5
    <3>. HIDE DEF W, Im
    <3>. QED  BY <2>5, <3>1
  <2>7. Im(W) = Im(U) \ {p[y]} /\ p[y] \in Im(U) /\ y \in S
    BY <1>0, <2>2
  <2>8. SumFunctionOnSet(f, U) = f[y] + SumFunctionOnSet(f, W)
    BY <1>a, <2>2, SumTakeOut
  <2>9. SumFunctionOnSet(g, Im(U)) = g[p[y]] + SumFunctionOnSet(g, Im(U) \ {p[y]})
    <3>. HIDE DEF Im
    <3>. QED  BY <2>2, <2>7, SumTakeOut
  <2>. HIDE DEF Im, W, Bad
  <2>. QED  BY <2>2, <2>6, <2>7, <2>8, <2>9
<1>2. Im(S) = T
  BY <1>0
<1>3. S \notin Bad
  BY <1>1
<1>. HIDE DEF Im
<1>. QED  BY <1>2, <1>3
=============================================================================
