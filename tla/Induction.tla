------------------------------ MODULE Induction ------------------------------
(* Induction over numbers and finite sets, with the set of what is proved    *)
(* instead of a predicate, so that the provers can instantiate it, and what  *)
(* follows from it: that recursive functions exist, and what a sum is.       *)
EXTENDS Integers, Functions, FiniteSetTheorems, WellFoundedInduction, TLAPS

-----------------------------------------------------------------------------
(* Induction *)

\* A family of subsets of a finite set has a member that contains no other.
LEMMA LeastSet ==
  ASSUME NEW S, IsFiniteSet(S), NEW F \in SUBSET (SUBSET S), F # {}
  PROVE  \E T \in F : \A U \in F : U \subseteq T => U = T
<1> DEFINE R == StrictSubsetOrdering(S)
<1>1. IsWellFoundedOn(R, SUBSET S)
  BY FS_StrictSubsetOrderingWellFounded, FS_FiniteSubsetsOfFinite
<1>2. PICK T \in F : \A U \in F : <<U, T>> \notin R
  <2> HIDE DEF R
  <2> QED  BY <1>1, WFMin
<1>3. \A U \in F : U \subseteq T => U = T
  BY <1>2 DEF StrictSubsetOrdering
<1> QED  BY <1>3

\* What holds of the empty set, and of a set if it holds without one of its
\* elements, holds of all parts of a finite set.
LEMMA SetInduction ==
  ASSUME NEW S, IsFiniteSet(S), NEW F, {} \in F,
         \A T \in SUBSET S : T # {} => \E x \in T : T \ {x} \in F => T \in F
  PROVE  SUBSET S \subseteq F
<1> SUFFICES ASSUME (SUBSET S) \ F # {} PROVE FALSE
  OBVIOUS
<1> DEFINE G == (SUBSET S) \ F
<1>1. G \in SUBSET (SUBSET S) /\ G # {}
  OBVIOUS
<1>2. PICK T \in G : \A U \in G : U \subseteq T => U = T
  <2> HIDE DEF G
  <2> QED  BY <1>1, LeastSet
<1>3. T \in SUBSET S /\ T \notin F /\ T # {}
  <2>1. T \in (SUBSET S) \ F
    BY <1>2
  <2> QED  BY <2>1
<1>4. PICK x \in T : T \ {x} \in F => T \in F
  BY <1>3
<1>5. T \ {x} \in F
  BY <1>2, <1>3, <1>4
<1> QED  BY <1>2, <1>4, <1>5

\* A set of numbers has a least one.
LEMMA LeastNumber ==
  ASSUME NEW S \in SUBSET Nat, S # {}
  PROVE  \E n \in S : \A k \in S : n <= k
<1>1. PICK m \in S : TRUE
  OBVIOUS
<1> DEFINE I == 0..m
           F == {0..k : k \in {i \in S : i <= m}}
<1>2. IsFiniteSet(I)
  BY FS_Interval
<1>3. F \in SUBSET (SUBSET I) /\ F # {}
  BY <1>1
<1>4. PICK T \in F : \A U \in F : U \subseteq T => U = T
  <2> HIDE DEF F, I
  <2> QED  BY <1>2, <1>3, LeastSet
<1>5. PICK n \in S : n <= m /\ T = 0..n
  BY <1>4
<1>6. ASSUME NEW k \in S, k < n
      PROVE  FALSE
  <2>1. 0..k \in F /\ 0..k \subseteq 0..n
    BY <1>1, <1>5, <1>6
  <2>2. n \in 0..n /\ n \notin 0..k
    BY <1>6
  <2> QED  BY <1>4, <1>5, <2>1, <2>2
<1> QED  BY <1>5, <1>6

\* What holds of 0 and of the successor of each number it holds of, holds of
\* all of them.
LEMMA NumberInduction ==
  ASSUME NEW F, 0 \in F, \A n \in Nat : n \in F => n + 1 \in F
  PROVE  Nat \subseteq F
<1> SUFFICES ASSUME Nat \ F # {} PROVE FALSE
  OBVIOUS
<1>1. PICK n \in Nat \ F : \A k \in Nat \ F : n <= k
  BY LeastNumber
<1>2. n # 0 /\ n - 1 \in Nat
  BY <1>1
<1>3. n - 1 \in F
  BY <1>1, <1>2
<1>4. (n - 1) + 1 = n
  BY <1>1
<1> QED  BY <1>1, <1>2, <1>3, <1>4

\* A finite set of numbers has a greatest one.
LEMMA GreatestNumber ==
  ASSUME NEW S \in SUBSET Int, IsFiniteSet(S), S # {}
  PROVE  \E n \in S : \A k \in S : k <= n
<1> DEFINE F == {T \in SUBSET S : T = {} \/ \E n \in T : \A k \in T : k <= n}
<1>1. {} \in F
  OBVIOUS
<1>2. ASSUME NEW T \in SUBSET S, T # {}, NEW x \in T, T \ {x} \in F
      PROVE  T \in F
  <2>1. CASE T \ {x} = {}
    BY <1>2, <2>1
  <2>2. CASE T \ {x} # {}
    <3>1. PICK n \in T \ {x} : \A k \in T \ {x} : k <= n
      BY <1>2, <2>2
    <3>2. n \in Int /\ x \in Int /\ T \subseteq Int
      BY <1>2, <3>1
    <3>3. CASE x <= n
      BY <1>2, <3>1, <3>3
    <3>4. CASE ~(x <= n)
      <4>1. \A k \in T : k <= x
        BY <3>1, <3>2, <3>4
      <4> QED  BY <1>2, <4>1
    <3> QED  BY <3>3, <3>4
  <2> QED  BY <2>1, <2>2
<1>3. SUBSET S \subseteq F
  <2>1. \A T \in SUBSET S : T # {} => \E x \in T : T \ {x} \in F => T \in F
    BY <1>2
  <2> HIDE DEF F
  <2> QED  BY <1>1, <2>1, SetInduction
<1> QED  BY <1>3

-----------------------------------------------------------------------------
(* Recursive functions *)

\* The equation of MapThenFoldSet has a solution: h goes through the elements
\* in the order in which c picks them.
Folds(h, S, base, c, step) ==
  \A T \in SUBSET S :
    h[T] = IF T = {} THEN base ELSE step[c[T]][h[T \ {c[T]}]]

LEMMA FoldsAgree ==
  ASSUME NEW S, IsFiniteSet(S), NEW base, NEW c, NEW step,
         \A T \in SUBSET S : T # {} => c[T] \in T,
         NEW T \in SUBSET S, NEW U \in SUBSET S, NEW g, NEW h,
         Folds(g, T, base, c, step), Folds(h, U, base, c, step)
  PROVE  \A W \in SUBSET (T \cap U) : g[W] = h[W]
<1> DEFINE F == {W \in SUBSET S : W \subseteq T \cap U => g[W] = h[W]}
<1>1. {} \in F
  BY DEF Folds
<1>2. ASSUME NEW W \in SUBSET S, W # {}, W \ {c[W]} \in F
      PROVE  W \in F
  <2> SUFFICES ASSUME W \subseteq T \cap U PROVE g[W] = h[W]
    OBVIOUS
  <2>1. g[W \ {c[W]}] = h[W \ {c[W]}]
    BY <1>2
  <2>2. g[W] = step[c[W]][g[W \ {c[W]}]]
    BY <1>2, Zenon DEF Folds
  <2>3. h[W] = step[c[W]][h[W \ {c[W]}]]
    BY <1>2, Zenon DEF Folds
  <2> QED  BY <2>1, <2>2, <2>3
<1>3. SUBSET S \subseteq F
  <2>1. \A W \in SUBSET S : W # {} => \E x \in W : W \ {x} \in F => W \in F
    BY <1>2
  <2> HIDE DEF F
  <2> QED  BY <1>1, <2>1, SetInduction
<1> QED  BY <1>3

\* A function on the parts of S that folds.
IsFold(h, S, V, base, c, step) ==
  h \in [SUBSET S -> V] /\ Folds(h, S, base, c, step)

LEMMA FoldExists ==
  ASSUME NEW S, IsFiniteSet(S), NEW V, NEW base \in V, NEW c, NEW step,
         \A T \in SUBSET S : T # {} => c[T] \in T,
         \A x \in S, v \in V : step[x][v] \in V
  PROVE  \E g : IsFold(g, S, V, base, c, step)
<1> DEFINE F == {T \in SUBSET S : ~\E g : IsFold(g, T, V, base, c, step)}
<1> SUFFICES ASSUME F # {} PROVE FALSE
  <2>1. S \in SUBSET S  OBVIOUS
  <2> QED  BY <2>1
<1>1. PICK T \in F : \A U \in F : U \subseteq T => U = T
  <2>1. F \in SUBSET (SUBSET S)  OBVIOUS
  <2> HIDE DEF F
  <2> QED  BY <2>1, LeastSet
<1>2. T \in SUBSET S /\ ~\E g : IsFold(g, T, V, base, c, step)
  BY <1>1
<1> DEFINE G == [U \in SUBSET T |-> CHOOSE g : IsFold(g, U, V, base, c, step)]
<1>3. ASSUME NEW U \in SUBSET T, U # T
      PROVE  IsFold(G[U], U, V, base, c, step)
  <2>1. U \in SUBSET S /\ U \notin F
    BY <1>1, <1>2, <1>3
  <2>2. \E g : IsFold(g, U, V, base, c, step)
    BY <2>1
  <2> QED  BY <2>2
<1> DEFINE H == [U \in SUBSET T |-> G[U][U]]
<1>4. ASSUME NEW U \in SUBSET T, U # T, NEW W \in SUBSET U
      PROVE  G[U][W] = H[W]
  <2>1. W \in SUBSET T /\ W # T
    BY <1>4
  <2>2. Folds(G[U], U, base, c, step) /\ Folds(G[W], W, base, c, step)
    BY <1>3, <1>4, <2>1 DEF IsFold
  <2>3. W \in SUBSET (U \cap W) /\ U \in SUBSET S /\ W \in SUBSET S
    BY <1>2, <1>4
  <2>4. G[U][W] = G[W][W]
    <3> HIDE DEF G
    <3> QED  BY <2>2, <2>3, FoldsAgree
  <2> QED  BY <2>1, <2>4
<1>5. ASSUME NEW U \in SUBSET T, U # T
      PROVE  H[U] \in V
  <2>1. G[U] \in [SUBSET U -> V]
    BY <1>3, <1>5 DEF IsFold
  <2> HIDE DEF G
  <2> QED  BY <2>1
<1>6. T # {} => c[T] \in T /\ T \ {c[T]} \in SUBSET T /\ T \ {c[T]} # T
  BY <1>2
<1> DEFINE top == IF T = {} THEN base ELSE step[c[T]][H[T \ {c[T]}]]
           k == [U \in SUBSET T |-> IF U # T THEN H[U] ELSE top]
<1>7. top \in V
  <2> HIDE DEF H
  <2> QED  BY <1>2, <1>5, <1>6
<1>8. k \in [SUBSET T -> V]
  <2> HIDE DEF H, top
  <2> QED  BY <1>5, <1>7
<1>9. ASSUME NEW U \in SUBSET T
      PROVE  k[U] = IF U = {} THEN base ELSE step[c[U]][k[U \ {c[U]}]]
  <2>1. CASE U = T
    <3> HIDE DEF H
    <3> QED  BY <1>6, <2>1
  <2>2. CASE U # T
    <3>1. G[U][U] = IF U = {} THEN base ELSE step[c[U]][G[U][U \ {c[U]}]]
      <4>1. Folds(G[U], U, base, c, step)
        BY <1>3, <2>2 DEF IsFold
      <4>2. U \in SUBSET U
        OBVIOUS
      <4> HIDE DEF G
      <4> QED  BY <4>1, <4>2, Zenon DEF Folds
    <3>2. U \ {c[U]} \in SUBSET U /\ U \ {c[U]} \in SUBSET T /\ U \ {c[U]} # T
      BY <2>2
    <3>3. G[U][U \ {c[U]}] = H[U \ {c[U]}]
      BY <1>4, <2>2, <3>2
    <3>4. k[U] = H[U] /\ k[U \ {c[U]}] = H[U \ {c[U]}]
      <4> HIDE DEF H
      <4> QED  BY <2>2, <3>2
    <3>5. H[U] = G[U][U]
      OBVIOUS
    <3> HIDE DEF H, G, k
    <3> QED  BY <3>1, <3>3, <3>4, <3>5
  <2> QED  BY <2>1, <2>2
<1>10. IsFold(k, T, V, base, c, step)
  <2> HIDE DEF k
  <2> QED  BY <1>8, <1>9 DEF Folds, IsFold
<1> QED
  <2> HIDE DEF k
  <2> QED  BY <1>2, <1>10

\* r starts with base and goes on with step, up to n.
Goes(r, n, base, step) ==
  /\ r[0] = base
  /\ \A k \in 0..(n - 1) : r[k + 1] = step[r[k]]

LEMMA GoingIsUnique ==
  ASSUME NEW base, NEW step, NEW n \in Nat, NEW m \in Nat, n <= m,
         NEW r, Goes(r, n, base, step), NEW s, Goes(s, m, base, step)
  PROVE  r[n] = s[n]
<1> DEFINE F == {k \in Nat : k <= n => r[k] = s[k]}
<1>1. 0 \in F
  BY DEF Goes
<1>2. ASSUME NEW k \in Nat, k \in F
      PROVE  k + 1 \in F
  <2> SUFFICES ASSUME k + 1 <= n PROVE r[k + 1] = s[k + 1]
    OBVIOUS
  <2>1. r[k] = s[k]
    BY <1>2
  <2>2. k \in 0..(n - 1) /\ k \in 0..(m - 1)
    OBVIOUS
  <2> QED  BY <2>1, <2>2 DEF Goes
<1>3. Nat \subseteq F
  <2> HIDE DEF F
  <2> QED  BY <1>1, <1>2, NumberInduction
<1> QED  BY <1>3

\* A sequence of elements of V that starts with base and goes on with step.
IsRecursion(r, V, base, step) ==
  r \in [Nat -> V] /\ r[0] = base /\ \A k \in Nat : r[k + 1] = step[r[k]]

\* A function over the numbers can be defined by recursion.
LEMMA RecursionExists ==
  ASSUME NEW V, NEW base \in V, NEW step, \A v \in V : step[v] \in V
  PROVE  \E r : IsRecursion(r, V, base, step)
<1> DEFINE Part(r, n) == r \in [0..n -> V] /\ Goes(r, n, base, step)
           F == {n \in Nat : \E r : Part(r, n)}
<1>1. 0 \in F
  <2>1. Part([i \in 0..0 |-> base], 0)
    BY DEF Goes
  <2> QED  BY <2>1
<1>2. ASSUME NEW n \in Nat, n \in F
      PROVE  n + 1 \in F
  <2>1. PICK r : Part(r, n)
    BY <1>2
  <2> DEFINE s == [i \in 0..(n + 1) |-> IF i <= n THEN r[i] ELSE step[r[n]]]
  <2>2. s \in [0..(n + 1) -> V]
    BY <2>1
  <2>3. s[0] = base
    BY <2>1 DEF Goes
  <2>4. ASSUME NEW k \in 0..n
        PROVE  s[k + 1] = step[s[k]]
    <3>1. CASE k = n
      BY <3>1
    <3>2. CASE k # n
      <4>1. k \in 0..(n - 1) /\ k + 1 <= n /\ k <= n
        BY <3>2
      <4> QED  BY <2>1, <4>1 DEF Goes
    <3> QED  BY <3>1, <3>2
  <2>5. Part(s, n + 1)
    <3>1. (n + 1) - 1 = n
      OBVIOUS
    <3> HIDE DEF s
    <3> QED  BY <2>2, <2>3, <2>4, <3>1 DEF Goes
  <2> HIDE DEF s
  <2> QED  BY <2>5
<1>3. Nat \subseteq F
  <2> HIDE DEF F
  <2> QED  BY <1>1, <1>2, NumberInduction
<1> DEFINE R == [n \in Nat |-> CHOOSE r : Part(r, n)]
           q == [n \in Nat |-> R[n][n]]
<1>4. ASSUME NEW n \in Nat
      PROVE  R[n] \in [0..n -> V] /\ Goes(R[n], n, base, step)
  <2>1. \E r : Part(r, n)
    BY <1>3
  <2>2. Part(R[n], n)
    <3> HIDE DEF Part
    <3> QED  BY <2>1
  <2> QED  BY <2>2
<1>5. q \in [Nat -> V]
  <2> HIDE DEF R
  <2> QED  BY <1>4
<1>6. q[0] = base
  <2> HIDE DEF R
  <2> QED  BY <1>4 DEF Goes
<1>7. ASSUME NEW k \in Nat
      PROVE  q[k + 1] = step[q[k]]
  <2>1. R[k + 1][k + 1] = step[R[k + 1][k]]
    <3>1. k \in 0..((k + 1) - 1) /\ k + 1 \in Nat
      OBVIOUS
    <3> HIDE DEF R
    <3> QED  BY <1>4, <3>1 DEF Goes
  <2>2. R[k][k] = R[k + 1][k]
    <3>1. k + 1 \in Nat /\ k <= k + 1
      OBVIOUS
    <3> HIDE DEF R
    <3> QED  BY <1>4, <3>1, GoingIsUnique
  <2> HIDE DEF R
  <2> QED  BY <2>1, <2>2
<1> HIDE DEF q
<1> QED  BY <1>5, <1>6, <1>7 DEF IsRecursion

-----------------------------------------------------------------------------
(* Sums *)

Picked(s) == CHOOSE x \in s : TRUE

\* h sums up the values of f on the parts of S, in the order of Picked.
Sums(h, f, S) ==
  h = [T \in SUBSET S |->
         IF T = {} THEN 0 ELSE f[Picked(T)] + h[T \ {Picked(T)}]]

\* SumFunctionOnSet takes a function that sums up, if there is one.
LEMMA SumUnfolds ==
  ASSUME NEW f, NEW S
  PROVE  SumFunctionOnSet(f, S) = (CHOOSE h : Sums(h, f, S))[S]
BY DEF SumFunctionOnSet, FoldFunctionOnSet, MapThenFoldSet, Picked, Sums

LEMMA SumsExist ==
  ASSUME NEW S, IsFiniteSet(S), NEW f, \A x \in S : f[x] \in Int
  PROVE  \E h : Sums(h, f, S)
<1> DEFINE c == [T \in SUBSET S |-> Picked(T)]
           step == [x \in S |-> [v \in Int |-> f[x] + v]]
<1>1. \A T \in SUBSET S : T # {} => c[T] \in T
  BY DEF Picked
<1>2. \A x \in S, v \in Int : step[x][v] \in Int
  OBVIOUS
<1>3. PICK h : IsFold(h, S, Int, 0, c, step)
  <2>1. 0 \in Int
    OBVIOUS
  <2> HIDE DEF c, step
  <2> QED  BY <1>1, <1>2, <2>1, FoldExists
<1>4. h \in [SUBSET S -> Int]
  BY <1>3 DEF IsFold
<1>5. ASSUME NEW T \in SUBSET S
      PROVE  h[T] = IF T = {} THEN 0 ELSE f[Picked(T)] + h[T \ {Picked(T)}]
  <2>1. h[T] = IF T = {} THEN 0 ELSE step[c[T]][h[T \ {c[T]}]]
    <3> HIDE DEF c, step
    <3> QED  BY <1>3, Zenon DEF IsFold, Folds
  <2>2. c[T] = Picked(T)
    OBVIOUS
  <2>3. ASSUME T # {}
        PROVE  step[Picked(T)][h[T \ {Picked(T)}]]
                 = f[Picked(T)] + h[T \ {Picked(T)}]
    <3>1. Picked(T) \in S
      BY <2>3, <1>1, <2>2
    <3>2. h[T \ {Picked(T)}] \in Int
      BY <1>4
    <3> QED  BY <3>1, <3>2
  <2> QED  BY <2>1, <2>2, <2>3
<1>6. Sums(h, f, S)
  BY <1>4, <1>5 DEF Sums
<1> QED  BY <1>6

\* The functions that sum up for a set and for a part of it agree.
LEMMA SumsAgree ==
  ASSUME NEW S, IsFiniteSet(S), NEW f, NEW g, NEW U \in SUBSET S,
         \A x \in U : f[x] = g[x],
         NEW h, Sums(h, f, S), NEW k, Sums(k, g, U)
  PROVE  h[U] = k[U]
<1> DEFINE F == {T \in SUBSET S : T \subseteq U => h[T] = k[T]}
<1>1. {} \in F
  BY DEF Sums
<1>2. ASSUME NEW T \in SUBSET S, T # {}, T \ {Picked(T)} \in F
      PROVE  T \in F
  <2> SUFFICES ASSUME T \subseteq U PROVE h[T] = k[T]
    OBVIOUS
  <2>1. Picked(T) \in T
    BY <1>2 DEF Picked
  <2>2. h[T \ {Picked(T)}] = k[T \ {Picked(T)}]
    BY <1>2
  <2>3. h[T] = f[Picked(T)] + h[T \ {Picked(T)}]
    BY <1>2 DEF Sums
  <2>4. k[T] = g[Picked(T)] + k[T \ {Picked(T)}]
    BY <1>2 DEF Sums
  <2>5. f[Picked(T)] = g[Picked(T)]
    BY <2>1
  <2> QED  BY <2>2, <2>3, <2>4, <2>5
<1>3. SUBSET S \subseteq F
  <2>1. \A T \in SUBSET S : T # {} => \E x \in T : T \ {x} \in F => T \in F
    <3>1. ASSUME NEW T \in SUBSET S, T # {}
          PROVE  Picked(T) \in T
      BY <3>1 DEF Picked
    <3> QED  BY <1>2, <3>1
  <2> HIDE DEF F
  <2> QED  BY <1>1, <2>1, SetInduction
<1> QED  BY <1>3

\* Functions that agree on a set have the same sum over it.
LEMMA SumOfEqual ==
  ASSUME NEW S, IsFiniteSet(S), NEW f, NEW g,
         \A x \in S : f[x] \in Int /\ f[x] = g[x]
  PROVE  SumFunctionOnSet(f, S) = SumFunctionOnSet(g, S)
<1> DEFINE h == CHOOSE h : Sums(h, f, S)
           k == CHOOSE k : Sums(k, g, S)
<1>1. Sums(h, f, S) /\ Sums(k, g, S)
  BY SumsExist
<1>2. h[S] = k[S]
  <2> HIDE DEF h, k
  <2>1. S \in SUBSET S
    OBVIOUS
  <2> QED  BY <1>1, <2>1, SumsAgree
<1> QED  BY <1>2, SumUnfolds

LEMMA EmptySum ==
  ASSUME NEW f
  PROVE  SumFunctionOnSet(f, {}) = 0
<1>1. IsFiniteSet({})
  BY FS_EmptySet
<1>2. PICK h : Sums(h, f, {})
  BY <1>1, SumsExist
<1>3. Sums(CHOOSE k : Sums(k, f, {}), f, {})
  BY <1>2
<1>4. ASSUME NEW k, Sums(k, f, {})
      PROVE  k[{}] = 0
  BY <1>4 DEF Sums
<1> QED  BY <1>3, <1>4, SumUnfolds

\* A sum is the element picked and the sum of the others.
LEMMA SumFromPicked ==
  ASSUME NEW S, IsFiniteSet(S), S # {}, NEW f, \A x \in S : f[x] \in Int
  PROVE  /\ Picked(S) \in S
         /\ SumFunctionOnSet(f, S)
              = f[Picked(S)] + SumFunctionOnSet(f, S \ {Picked(S)})
<1> DEFINE U == S \ {Picked(S)}
           h == CHOOSE h : Sums(h, f, S)
           k == CHOOSE k : Sums(k, f, U)
<1>0. Picked(S) \in S
  BY DEF Picked
<1>1. U \in SUBSET S /\ IsFiniteSet(U)
  BY FS_Subset
<1>2. Sums(h, f, S) /\ Sums(k, f, U)
  <2> HIDE DEF U
  <2> QED  BY <1>1, SumsExist
<1>3. h[U] = k[U]
  <2> HIDE DEF U, h, k
  <2> QED  BY <1>1, <1>2, SumsAgree
<1>4. h[S] = f[Picked(S)] + h[U]
  <2> HIDE DEF h
  <2> QED  BY <1>2 DEF Sums
<1> QED  BY <1>0, <1>3, <1>4, SumUnfolds

LEMMA SumIsInt ==
  ASSUME NEW S, IsFiniteSet(S), NEW f, \A x \in S : f[x] \in Int
  PROVE  SumFunctionOnSet(f, S) \in Int
<1> DEFINE F == {T \in SUBSET S : SumFunctionOnSet(f, T) \in Int}
<1>1. {} \in F
  BY EmptySum
<1>2. ASSUME NEW T \in SUBSET S, T # {}
      PROVE  Picked(T) \in T /\ (T \ {Picked(T)} \in F => T \in F)
  <2>1. IsFiniteSet(T)
    BY FS_Subset
  <2>2. SumFunctionOnSet(f, T)
          = f[Picked(T)] + SumFunctionOnSet(f, T \ {Picked(T)})
        /\ Picked(T) \in T
    BY <1>2, <2>1, SumFromPicked
  <2> QED  BY <2>2
<1>3. SUBSET S \subseteq F
  <2>1. \A T \in SUBSET S : T # {} => \E x \in T : T \ {x} \in F => T \in F
    BY <1>2
  <2> HIDE DEF F
  <2> QED  BY <1>1, <2>1, SetInduction
<1> QED  BY <1>3

LEMMA SumIsNat ==
  ASSUME NEW S, IsFiniteSet(S), NEW f, \A x \in S : f[x] \in Nat
  PROVE  SumFunctionOnSet(f, S) \in Nat
<1> DEFINE F == {T \in SUBSET S : SumFunctionOnSet(f, T) \in Nat}
<1>1. {} \in F
  BY EmptySum
<1>2. ASSUME NEW T \in SUBSET S, T # {}
      PROVE  Picked(T) \in T /\ (T \ {Picked(T)} \in F => T \in F)
  <2>1. IsFiniteSet(T)
    BY FS_Subset
  <2>2. SumFunctionOnSet(f, T)
          = f[Picked(T)] + SumFunctionOnSet(f, T \ {Picked(T)})
        /\ Picked(T) \in T
    <3>1. \A x \in T : f[x] \in Int
      OBVIOUS
    <3> QED  BY <1>2, <2>1, <3>1, SumFromPicked
  <2> QED  BY <2>2
<1>3. SUBSET S \subseteq F
  <2>1. \A T \in SUBSET S : T # {} => \E x \in T : T \ {x} \in F => T \in F
    BY <1>2
  <2> HIDE DEF F
  <2> QED  BY <1>1, <2>1, SetInduction
<1> QED  BY <1>3

\* The order in which a sum is taken does not matter.
LEMMA SumFromAny ==
  ASSUME NEW S, IsFiniteSet(S), NEW f, \A x \in S : f[x] \in Int, NEW x \in S
  PROVE  SumFunctionOnSet(f, S) = f[x] + SumFunctionOnSet(f, S \ {x})
<1> DEFINE F == {T \in SUBSET S :
                   \A y \in T : SumFunctionOnSet(f, T)
                                  = f[y] + SumFunctionOnSet(f, T \ {y})}
<1> SUFFICES ASSUME S \notin F PROVE FALSE
  OBVIOUS
<1> DEFINE G == (SUBSET S) \ F
<1>1. PICK T \in G : \A U \in G : U \subseteq T => U = T
  <2>1. G \in SUBSET (SUBSET S) /\ G # {}
    OBVIOUS
  <2> HIDE DEF G
  <2> QED  BY <2>1, LeastSet
<1>2. T \in SUBSET S /\ T \notin F
  <2>1. T \in (SUBSET S) \ F
    BY <1>1
  <2> QED  BY <2>1
<1>3. PICK y \in T : SumFunctionOnSet(f, T) # f[y] + SumFunctionOnSet(f, T \ {y})
  BY <1>2
<1>4. PICK z \in T : z = Picked(T) /\ SumFunctionOnSet(f, T)
                                        = f[z] + SumFunctionOnSet(f, T \ {z})
  <2>1. IsFiniteSet(T)
    BY <1>2, FS_Subset
  <2> QED  BY <1>2, <1>3, <2>1, SumFromPicked
<1>5. T \ {z} \in F /\ T \ {y} \in F
  <2>1. ASSUME NEW w \in T
        PROVE  T \ {w} \in F
    <3>1. T \ {w} \in SUBSET S /\ T \ {w} # T
      BY <1>2
    <3>2. T \ {w} \notin G
      <4> HIDE DEF G
      <4> QED  BY <1>1, <3>1
    <3> QED  BY <3>1, <3>2
  <2> QED  BY <2>1
<1>6. y # z
  BY <1>3, <1>4
<1>7. SumFunctionOnSet(f, T \ {z})
        = f[y] + SumFunctionOnSet(f, (T \ {z}) \ {y})
  <2>1. y \in T \ {z}
    BY <1>6
  <2> QED  BY <1>5, <2>1
<1>8. SumFunctionOnSet(f, T \ {y})
        = f[z] + SumFunctionOnSet(f, (T \ {y}) \ {z})
  <2>1. z \in T \ {y}
    BY <1>6
  <2> QED  BY <1>5, <2>1
<1>9. (T \ {z}) \ {y} = (T \ {y}) \ {z}
  OBVIOUS
<1>10. PICK s \in Int : s = SumFunctionOnSet(f, (T \ {y}) \ {z})
  <2>1. IsFiniteSet((T \ {y}) \ {z}) /\ (T \ {y}) \ {z} \subseteq S
    BY <1>2, FS_Subset
  <2> QED  BY <2>1, SumIsInt
<1>11. f[y] \in Int /\ f[z] \in Int
  BY <1>2
<1>12. SumFunctionOnSet(f, T) = f[z] + (f[y] + s)
  BY <1>4, <1>7, <1>9, <1>10
<1>13. SumFunctionOnSet(f, T \ {y}) = f[z] + s
  BY <1>8, <1>10
<1> QED  BY <1>3, <1>10, <1>11, <1>12, <1>13

=============================================================================
