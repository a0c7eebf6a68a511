----------------------------- MODULE SumLemmas ------------------------------
(***************************************************************************)
(* Sums of a function over a finite set (SumFunctionOnSet of Functions)    *)
(* and induction over its subsets, for the modules whose state holds       *)
(* amounts.  The library's induction theorems have an operator as a        *)
(* parameter; here the statement is given as the set of the subsets it is  *)
(* true of, and that subsets of a finite set are well-founded does the     *)
(* rest.                                                                   *)
(***************************************************************************)
EXTENDS FiniteSetTheorems, Functions, TLAPS

(* A non-empty set of subsets of a finite set has a smallest member.       *)
LEMMA SmallestSubset ==
    ASSUME NEW S, IsFiniteSet(S), NEW B, B \subseteq SUBSET S, B # {}
    PROVE  \E T \in B : \A U \in B : ~(U \subseteq T /\ U # T)
<1> DEFINE R == StrictSubsetOrdering(S)
<1>1. FiniteSubsetsOf(S) = SUBSET S
  BY FS_FiniteSubsetsOfFinite
<1>2. IsWellFoundedOn(R, SUBSET S)
  BY <1>1, FS_StrictSubsetOrderingWellFounded
<1> HIDE DEF R
<1>3. \E T \in B : \A U \in B : <<U, T>> \notin R
  BY <1>2, WFMin
<1>4. \A T, U \in B : U \subseteq T /\ U # T => <<U, T>> \in R
  BY DEF R, StrictSubsetOrdering
<1> QED
  BY <1>3, <1>4

(* A statement about the subsets of a finite set, true of a subset when it *)
(* is true of all smaller ones, is true of the set.                        *)
LEMMA FiniteInduction ==
    ASSUME NEW S, IsFiniteSet(S), NEW G,
           \A T \in SUBSET S : (\A U \in SUBSET T : U # T => U \in G) => T \in G
    PROVE  S \in G
<1> DEFINE B == {T \in SUBSET S : T \notin G}
<1> SUFFICES ASSUME B # {} PROVE FALSE
  OBVIOUS
<1>1. PICK T \in B : \A U \in B : ~(U \subseteq T /\ U # T)
  <2>1. B \subseteq SUBSET S
    OBVIOUS
  <2> HIDE DEF B
  <2> QED
    BY <2>1, SmallestSubset
<1>2. \A U \in SUBSET T : U # T => U \in G
  BY <1>1
<1> QED
  BY <1>2

(* The same along the numbers up to n.                                     *)
LEMMA CountingInduction ==
    ASSUME NEW n \in Nat, NEW G, 0 \in G, \A i \in 1..n : i - 1 \in G => i \in G
    PROVE  \A i \in 0..n : i \in G
<1> DEFINE B == {0..i : i \in (0..n) \ G}
<1> SUFFICES ASSUME B # {} PROVE FALSE
  OBVIOUS
<1>1. IsFiniteSet(0..n) /\ B \subseteq SUBSET (0..n)
  <2>1. \A i \in (0..n) \ G : 0..i \subseteq 0..n
    OBVIOUS
  <2>2. IsFiniteSet(0..n)
    BY FS_Interval
  <2> QED BY <2>1, <2>2
<1>2. PICK T \in B : \A U \in B : ~(U \subseteq T /\ U # T)
  <2> DEFINE S == 0..n
  <2>1. IsFiniteSet(S) /\ B \subseteq SUBSET S
    BY <1>1
  <2> HIDE DEF B, S
  <2> QED BY <2>1, SmallestSubset
<1>3. PICK i \in (0..n) \ G : T = 0..i
  BY <1>2
<1>4. i \in 1..n /\ i - 1 \in (0..n) \ G
  BY <1>3
<1>5. 0..(i - 1) \in B /\ 0..(i - 1) \subseteq T /\ i \in T /\ i \notin 0..(i - 1)
  BY <1>3, <1>4
<1> QED
  BY <1>2, <1>5

-----------------------------------------------------------------------------
Some(s) == CHOOSE x \in s : TRUE

(* g computes the sums of f over the subsets of S.                         *)
Body(f, S, g) ==
    [s \in SUBSET S |-> IF s = {} THEN 0 ELSE f[Some(s)] + g[s \ {Some(s)}]]
Sums(f, S, g) == g = Body(f, S, g)

LEMMA SumsAt ==
    ASSUME NEW f, NEW S, NEW g, Sums(f, S, g), NEW s \in SUBSET S
    PROVE  g[s] = IF s = {} THEN 0 ELSE f[Some(s)] + g[s \ {Some(s)}]
BY DEF Sums, Body

LEMMA SomeIn ==
    ASSUME NEW s, s # {}
    PROVE  /\ Some(s) \in s
           /\ s \ {Some(s)} \subseteq s /\ s \ {Some(s)} # s
BY DEF Some

LEMMA SumsAgree ==
    ASSUME NEW f, NEW S, NEW T, IsFiniteSet(S), NEW g, NEW h,
           Sums(f, S, g), Sums(f, T, h)
    PROVE  \A s \in (SUBSET S) \intersect (SUBSET T) : g[s] = h[s]
<1> DEFINE B == {s \in (SUBSET S) \intersect (SUBSET T) : g[s] # h[s]}
<1> SUFFICES ASSUME B # {} PROVE FALSE
  OBVIOUS
<1>1. PICK s \in B : \A u \in B : ~(u \subseteq s /\ u # s)
  <2>1. B \subseteq SUBSET S
    OBVIOUS
  <2> HIDE DEF B
  <2> QED
    BY <2>1, SmallestSubset
<1>2. s \in SUBSET S /\ s \in SUBSET T /\ g[s] # h[s]
  OBVIOUS
<1>3. s # {}
  BY <1>2, SumsAt
<1> DEFINE u == s \ {Some(s)}
<1>4. u \subseteq s /\ u # s
  BY <1>3, SomeIn
<1>5. g[u] = h[u]
  BY <1>1, <1>2, <1>4
<1>6. g[s] = f[Some(s)] + g[u] /\ h[s] = f[Some(s)] + h[u]
  BY <1>2, <1>3, SumsAt
<1> QED
  BY <1>2, <1>5, <1>6

LEMMA SumsExist ==
    ASSUME NEW f, NEW S, IsFiniteSet(S)
    PROVE  \E g : Sums(f, S, g)
<1> DEFINE G == {T \in SUBSET S : \E g : Sums(f, T, g)}
<1>1. ASSUME NEW T \in SUBSET S, \A U \in SUBSET T : U # T => U \in G
      PROVE  T \in G
  <2>1. \A U \in SUBSET T : U # T => \E g : Sums(f, U, g)
    BY <1>1
  <2>2. \A U \in SUBSET T : IsFiniteSet(U)
    BY FS_Subset
  <2> DEFINE V(u) == (CHOOSE g : Sums(f, u, g))[u]
             H == [s \in SUBSET T |-> IF s = {} THEN 0 ELSE f[Some(s)] + V(s \ {Some(s)})]
  <2>3. ASSUME NEW u \in SUBSET T, u # T PROVE H[u] = V(u)
    <3>1. PICK g : g = (CHOOSE x : Sums(f, u, x)) /\ Sums(f, u, g)
      BY <2>1, <2>3
    <3>2. V(u) = g[u]
      BY <3>1
    <3>3. CASE u = {}
      BY <3>1, <3>2, <3>3, SumsAt
    <3>4. CASE u # {}
      <4> DEFINE w == u \ {Some(u)}
      <4>1. w \subseteq u /\ w # u /\ w \in SUBSET T /\ w # T
        BY <3>4, <2>3, SomeIn
      <4>2. PICK h : h = (CHOOSE x : Sums(f, w, x)) /\ Sums(f, w, h)
        BY <2>1, <4>1
      <4>3. V(w) = h[w]
        BY <4>2
      <4>4. IsFiniteSet(u)
        BY <2>2
      <4>5. g[w] = h[w]
        <5> HIDE DEF w
        <5> QED BY <3>1, <4>1, <4>2, <4>4, SumsAgree
      <4>6. g[u] = f[Some(u)] + g[w]
        BY <3>1, <3>4, SumsAt
      <4>7. H[u] = f[Some(u)] + V(w)
        <5> HIDE DEF V
        <5> QED BY <3>4, <2>3
      <4> HIDE DEF V, w
      <4> QED
        BY <3>2, <4>3, <4>5, <4>6, <4>7
    <3> QED
      BY <3>3, <3>4
  <2>4. ASSUME NEW s \in SUBSET T, s # {} PROVE H[s \ {Some(s)}] = V(s \ {Some(s)})
    <3> HIDE DEF V, H
    <3> QED BY <2>3, <2>4, SomeIn
  <2>5. Sums(f, T, H)
    <3> HIDE DEF V
    <3> QED BY <2>4 DEF Sums, Body
  <2> HIDE DEF H
  <2> QED
    BY <2>5
<1>2. S \in G
  <2> HIDE DEF G
  <2> QED BY <1>1, FiniteInduction
<1> QED
  BY <1>2

(* SumFunctionOnSet is the sum that any such g computes.                   *)
LEMMA SumIs ==
    ASSUME NEW f, NEW S, IsFiniteSet(S), NEW g, Sums(f, S, g)
    PROVE  SumFunctionOnSet(f, S) = g[S]
<1> DEFINE it == CHOOSE x : Sums(f, S, x)
<1>1. SumFunctionOnSet(f, S) = it[S]
  BY DEF SumFunctionOnSet, FoldFunctionOnSet, MapThenFoldSet, Sums, Body, Some
<1>2. Sums(f, S, it)
  OBVIOUS
<1> HIDE DEF it
<1>3. S \in (SUBSET S) \intersect (SUBSET S)
  OBVIOUS
<1> QED
  BY <1>1, <1>2, <1>3, SumsAgree

(* The sum over nothing, and over a set taken apart at its Some element.   *)
LEMMA SumUnfold ==
    ASSUME NEW f, NEW S, IsFiniteSet(S)
    PROVE  SumFunctionOnSet(f, S) =
               IF S = {} THEN 0 ELSE f[Some(S)] + SumFunctionOnSet(f, S \ {Some(S)})
<1>1. PICK g : Sums(f, S, g)
  BY SumsExist
<1>2. SumFunctionOnSet(f, S) = g[S]
  BY <1>1, SumIs
<1>3. CASE S = {}
  BY <1>1, <1>2, <1>3, SumsAt
<1>4. CASE S # {}
  <2> DEFINE T == S \ {Some(S)}
  <2>1. T \in SUBSET S /\ IsFiniteSet(T)
    BY FS_RemoveElement
  <2>2. g[S] = f[Some(S)] + g[T]
    BY <1>1, <1>4, SumsAt
  <2> HIDE DEF T
  <2>3. PICK h : Sums(f, T, h)
    BY <2>1, SumsExist
  <2>4. SumFunctionOnSet(f, T) = h[T]
    BY <2>1, <2>3, SumIs
  <2>5. T \in (SUBSET S) \intersect (SUBSET T)
    BY <2>1
  <2>6. g[T] = h[T]
    BY <1>1, <2>3, <2>5, SumsAgree
  <2>7. SumFunctionOnSet(f, S) = f[Some(S)] + SumFunctionOnSet(f, T)
    BY <1>2, <2>2, <2>4, <2>6
  <2> QED
    BY <1>4, <2>7 DEF T
<1> QED
  BY <1>3, <1>4

LEMMA SumEmpty == \A f : SumFunctionOnSet(f, {}) = 0
BY SumUnfold, FS_EmptySet

(* A sum of integers is an integer, of naturals a natural.                 *)
LEMMA SumInt ==
    ASSUME NEW S, IsFiniteSet(S), NEW f, \A x \in S : f[x] \in Int
    PROVE  SumFunctionOnSet(f, S) \in Int
<1> DEFINE G == {T \in SUBSET S : SumFunctionOnSet(f, T) \in Int}
<1>1. ASSUME NEW T \in SUBSET S, \A U \in SUBSET T : U # T => U \in G
      PROVE  T \in G
  <2>1. IsFiniteSet(T)
    BY FS_Subset
  <2>2. CASE T = {}
    BY <2>2, SumEmpty
  <2>3. CASE T # {}
    <3> DEFINE U == T \ {Some(T)}
    <3>1. Some(T) \in T /\ U \in SUBSET T /\ U # T
      BY <2>3, SomeIn
    <3>2. SumFunctionOnSet(f, U) \in Int
      BY <1>1, <3>1
    <3>3. SumFunctionOnSet(f, T) = f[Some(T)] + SumFunctionOnSet(f, U)
      BY <2>1, <2>3, SumUnfold
    <3> HIDE DEF U
    <3> QED
      BY <3>1, <3>2, <3>3
  <2> QED
    BY <2>2, <2>3
<1>2. S \in G
  <2> HIDE DEF G
  <2> QED BY <1>1, FiniteInduction
<1> QED
  BY <1>2

LEMMA SumNat ==
    ASSUME NEW S, IsFiniteSet(S), NEW f, \A x \in S : f[x] \in Nat
    PROVE  SumFunctionOnSet(f, S) \in Nat
<1> DEFINE G == {T \in SUBSET S : SumFunctionOnSet(f, T) \in Nat}
<1>1. ASSUME NEW T \in SUBSET S, \A U \in SUBSET T : U # T => U \in G
      PROVE  T \in G
  <2>1. IsFiniteSet(T)
    BY FS_Subset
  <2>2. CASE T = {}
    BY <2>2, SumEmpty
  <2>3. CASE T # {}
    <3> DEFINE U == T \ {Some(T)}
    <3>1. Some(T) \in T /\ U \in SUBSET T /\ U # T
      BY <2>3, SomeIn
    <3>2. SumFunctionOnSet(f, U) \in Nat
      BY <1>1, <3>1
    <3>3. SumFunctionOnSet(f, T) = f[Some(T)] + SumFunctionOnSet(f, U)
      BY <2>1, <2>3, SumUnfold
    <3> HIDE DEF U
    <3> QED
      BY <3>1, <3>2, <3>3
  <2> QED
    BY <2>2, <2>3
<1>2. S \in G
  <2> HIDE DEF G
  <2> QED BY <1>1, FiniteInduction
<1> QED
  BY <1>2

(* Any element can be taken out of the sum.                                *)
LEMMA SumTakeOut ==
    ASSUME NEW S, IsFiniteSet(S), NEW f, \A x \in S : f[x] \in Int
    PROVE  \A y \in S : SumFunctionOnSet(f, S) = f[y] + SumFunctionOnSet(f, S \ {y})
<1> DEFINE G == {T \in SUBSET S : \A y \in T :
                    SumFunctionOnSet(f, T) = f[y] + SumFunctionOnSet(f, T \ {y})}
<1>1. ASSUME NEW T \in SUBSET S, \A U \in SUBSET T : U # T => U \in G
      PROVE  T \in G
  <2> SUFFICES ASSUME NEW y \in T
               PROVE  SumFunctionOnSet(f, T) = f[y] + SumFunctionOnSet(f, T \ {y})
    OBVIOUS
  <2> DEFINE a == Some(T)  U == T \ {a}  V == T \ {y}  W == U \ {y}
  <2>1. a \in T /\ U \in SUBSET T /\ U # T /\ V \in SUBSET T /\ V # T /\ W \in SUBSET T
    BY SomeIn
  <2>2. IsFiniteSet(T) /\ IsFiniteSet(U) /\ IsFiniteSet(V) /\ IsFiniteSet(W)
    BY <2>1, FS_Subset
  <2>3. SumFunctionOnSet(f, T) = f[a] + SumFunctionOnSet(f, U)
    BY <2>2, SumUnfold
  <2>4. CASE y = a
    BY <2>3, <2>4
  <2>5. CASE y # a
    <3>1. SumFunctionOnSet(f, U) = f[y] + SumFunctionOnSet(f, W)
      BY <1>1, <2>1, <2>5
    <3>2. SumFunctionOnSet(f, V) = f[a] + SumFunctionOnSet(f, W)
      <4>1. V \ {a} = W
        OBVIOUS
      <4>2. SumFunctionOnSet(f, V) = f[a] + SumFunctionOnSet(f, V \ {a})
        BY <1>1, <2>1, <2>5
      <4> QED BY <4>1, <4>2
    <3>3. f[y] \in Int /\ f[a] \in Int /\ SumFunctionOnSet(f, W) \in Int
      <4>1. f[y] \in Int /\ f[a] \in Int /\ \A z \in W : f[z] \in Int
        BY <2>1
      <4> HIDE DEF W
      <4> QED BY <4>1, <2>2, SumInt
    <3> HIDE DEF a, U, V, W
    <3>4. SumFunctionOnSet(f, T) = f[y] + SumFunctionOnSet(f, V)
      BY <2>3, <3>1, <3>2, <3>3
    <3> QED
      BY <3>4 DEF V
  <2> QED
    BY <2>4, <2>5
<1>2. S \in G
  <2> HIDE DEF G
  <2> QED BY <1>1, FiniteInduction
<1> QED
  BY <1>2

(* The sum depends on the function's values only.                          *)
LEMMA SumSame ==
    ASSUME NEW S, IsFiniteSet(S), NEW f, NEW g, \A x \in S : f[x] = g[x]
    PROVE  SumFunctionOnSet(f, S) = SumFunctionOnSet(g, S)
<1> DEFINE G == {T \in SUBSET S : SumFunctionOnSet(f, T) = SumFunctionOnSet(g, T)}
<1>1. ASSUME NEW T \in SUBSET S, \A U \in SUBSET T : U # T => U \in G
      PROVE  T \in G
  <2>1. IsFiniteSet(T)
    BY FS_Subset
  <2>2. CASE T = {}
    BY <2>2, SumEmpty
  <2>3. CASE T # {}
    <3> DEFINE U == T \ {Some(T)}
    <3>1. Some(T) \in T /\ U \in SUBSET T /\ U # T
      BY <2>3, SomeIn
    <3>2. SumFunctionOnSet(f, U) = SumFunctionOnSet(g, U)
      BY <1>1, <3>1
    <3>3. /\ SumFunctionOnSet(f, T) = f[Some(T)] + SumFunctionOnSet(f, U)
          /\ SumFunctionOnSet(g, T) = g[Some(T)] + SumFunctionOnSet(g, U)
      BY <2>1, <2>3, SumUnfold
    <3> HIDE DEF U
    <3> QED
      BY <3>1, <3>2, <3>3
  <2> QED
    BY <2>2, <2>3
<1>2. S \in G
  <2> HIDE DEF G
  <2> QED BY <1>1, FiniteInduction
<1> QED
  BY <1>2

(* A larger function has a larger sum.                                     *)
LEMMA SumMonotone ==
    ASSUME NEW S, IsFiniteSet(S), NEW f, NEW g,
           \A x \in S : f[x] \in Int /\ g[x] \in Int /\ f[x] <= g[x]
    PROVE  SumFunctionOnSet(f, S) <= SumFunctionOnSet(g, S)
<1> DEFINE G == {T \in SUBSET S : SumFunctionOnSet(f, T) <= SumFunctionOnSet(g, T)}
<1>1. ASSUME NEW T \in SUBSET S, \A U \in SUBSET T : U # T => U \in G
      PROVE  T \in G
  <2>1. IsFiniteSet(T)
    BY FS_Subset
  <2>2. CASE T = {}
    BY <2>2, SumEmpty
  <2>3. CASE T # {}
    <3> DEFINE U == T \ {Some(T)}
    <3>1. Some(T) \in T /\ U \in SUBSET T /\ U # T /\ U \in SUBSET S
      BY <2>3, SomeIn
    <3>2. SumFunctionOnSet(f, U) <= SumFunctionOnSet(g, U)
      BY <1>1, <3>1
    <3>3. /\ SumFunctionOnSet(f, T) = f[Some(T)] + SumFunctionOnSet(f, U)
          /\ SumFunctionOnSet(g, T) = g[Some(T)] + SumFunctionOnSet(g, U)
      BY <2>1, <2>3, SumUnfold
    <3> HIDE DEF U
    <3>4. SumFunctionOnSet(f, U) \in Int /\ SumFunctionOnSet(g, U) \in Int
      BY <3>1, FS_Subset, SumInt
    <3> QED
      BY <3>1, <3>2, <3>3, <3>4
  <2> QED
    BY <2>2, <2>3
<1>2. S \in G
  <2> HIDE DEF G
  <2> QED BY <1>1, FiniteInduction
<1> QED
  BY <1>2

(* A sum over a set is the sum over a part of it and over the rest.        *)
LEMMA SumSplit ==
    ASSUME NEW R, IsFiniteSet(R), NEW f, \A x \in R : f[x] \in Int, NEW S \in SUBSET R
    PROVE  SumFunctionOnSet(f, R) = SumFunctionOnSet(f, S) + SumFunctionOnSet(f, R \ S)
<1> DEFINE G == {T \in SUBSET S : SumFunctionOnSet(f, R) =
                    SumFunctionOnSet(f, T) + SumFunctionOnSet(f, R \ T)}
<1>1. ASSUME NEW T \in SUBSET S, \A U \in SUBSET T : U # T => U \in G
      PROVE  T \in G
  <2>1. IsFiniteSet(T) /\ IsFiniteSet(R \ T)
    BY FS_Subset
  <2>2. CASE T = {}
    <3>1. R \ T = R /\ SumFunctionOnSet(f, R) \in Int
      BY <2>2, SumInt
    <3> QED BY <2>2, <3>1, SumEmpty
  <2>3. CASE T # {}
    <3> DEFINE a == Some(T)  U == T \ {a}
    <3>1. a \in T /\ U \in SUBSET T /\ U # T /\ U \in SUBSET R /\ a \in R \ U
      BY <2>3, SomeIn
    <3>2. SumFunctionOnSet(f, R) = SumFunctionOnSet(f, U) + SumFunctionOnSet(f, R \ U)
      BY <1>1, <3>1
    <3>3. SumFunctionOnSet(f, T) = f[a] + SumFunctionOnSet(f, U)
      BY <2>1, <2>3, SumUnfold
    <3>4. SumFunctionOnSet(f, R \ U) = f[a] + SumFunctionOnSet(f, (R \ U) \ {a})
      <4> HIDE DEF U, a
      <4>1. IsFiniteSet(R \ U) /\ \A x \in R \ U : f[x] \in Int
        BY FS_Subset
      <4> QED BY <3>1, <4>1, SumTakeOut
    <3>5. (R \ U) \ {a} = R \ T
      BY <3>1
    <3>6. /\ f[a] \in Int /\ SumFunctionOnSet(f, U) \in Int
          /\ SumFunctionOnSet(f, R \ T) \in Int
      <4> HIDE DEF U, a
      <4>1. IsFiniteSet(U) /\ f[a] \in Int
            /\ (\A x \in R \ T : f[x] \in Int) /\ \A x \in U : f[x] \in Int
        BY <3>1, FS_Subset
      <4> QED BY <2>1, <4>1, SumInt
    <3>7. SumFunctionOnSet(f, R \ U) = f[a] + SumFunctionOnSet(f, R \ T)
      <4> HIDE DEF U, a
      <4> QED BY <3>4, <3>5
    <3> HIDE DEF U, a
    <3> QED
      BY <3>2, <3>3, <3>6, <3>7
  <2> QED
    BY <2>2, <2>3
<1>2. S \in G
  <2>1. IsFiniteSet(S)
    BY FS_Subset
  <2> HIDE DEF G
  <2> QED BY <1>1, <2>1, FiniteInduction
<1> QED
  BY <1>2

(* Two functions that differ at one element.                               *)
LEMMA SumChange ==
    ASSUME NEW S, IsFiniteSet(S), NEW f, NEW g, NEW y \in S,
           \A x \in S : f[x] \in Int /\ g[x] \in Int,
           \A x \in S : x # y => f[x] = g[x]
    PROVE  SumFunctionOnSet(g, S) = SumFunctionOnSet(f, S) + g[y] - f[y]
<1> DEFINE T == S \ {y}
<1>1. IsFiniteSet(T) /\ (\A x \in T : f[x] \in Int) /\ \A x \in T : f[x] = g[x]
  BY FS_Subset
<1>2. /\ SumFunctionOnSet(f, S) = f[y] + SumFunctionOnSet(f, T)
      /\ SumFunctionOnSet(g, S) = g[y] + SumFunctionOnSet(g, T)
  BY SumTakeOut
<1> HIDE DEF T
<1>3. SumFunctionOnSet(f, T) = SumFunctionOnSet(g, T) /\ SumFunctionOnSet(f, T) \in Int
  BY <1>1, SumSame, SumInt
<1> QED
  BY <1>2, <1>3

(* A sum of naturals is at least each of them, and at least any part.      *)
LEMMA SumPart ==
    ASSUME NEW S, IsFiniteSet(S), NEW f, \A x \in S : f[x] \in Nat, NEW T \in SUBSET S
    PROVE  SumFunctionOnSet(f, T) <= SumFunctionOnSet(f, S)
<1>1. /\ IsFiniteSet(T) /\ IsFiniteSet(S \ T)
      /\ (\A x \in T : f[x] \in Nat) /\ \A x \in S \ T : f[x] \in Nat
  BY FS_Subset
<1>2. SumFunctionOnSet(f, T) \in Nat /\ SumFunctionOnSet(f, S \ T) \in Nat
  BY <1>1, SumNat
<1>3. SumFunctionOnSet(f, S) = SumFunctionOnSet(f, T) + SumFunctionOnSet(f, S \ T)
  BY SumSplit
<1> QED
  BY <1>2, <1>3

LEMMA SumMember ==
    ASSUME NEW S, IsFiniteSet(S), NEW f, \A x \in S : f[x] \in Nat, NEW y \in S
    PROVE  f[y] <= SumFunctionOnSet(f, S)
<1>1. IsFiniteSet(S \ {y}) /\ \A x \in S \ {y} : f[x] \in Nat
  BY FS_Subset
<1>2. SumFunctionOnSet(f, S \ {y}) \in Nat
  BY <1>1, SumNat
<1>3. SumFunctionOnSet(f, S) = f[y] + SumFunctionOnSet(f, S \ {y})
  BY SumTakeOut
<1> QED
  BY <1>2, <1>3

LEMMA SumZero ==
    ASSUME NEW S, IsFiniteSet(S), NEW f, \A x \in S : f[x] = 0
    PROVE  SumFunctionOnSet(f, S) = 0
<1> DEFINE G == {T \in SUBSET S : SumFunctionOnSet(f, T) = 0}
<1>1. ASSUME NEW T \in SUBSET S, \A U \in SUBSET T : U # T => U \in G
      PROVE  T \in G
  <2>1. IsFiniteSet(T)
    BY FS_Subset
  <2>2. CASE T = {}
    BY <2>2, SumEmpty
  <2>3. CASE T # {}
    <3>1. SumFunctionOnSet(f, T \ {Some(T)}) = 0
      BY <1>1, <2>3, SomeIn
    <3> QED
      BY <2>1, <2>3, <3>1, SumUnfold, SomeIn
  <2> QED
    BY <2>2, <2>3
<1>2. S \in G
  <2> HIDE DEF G
  <2> QED BY <1>1, FiniteInduction
<1> QED
  BY <1>2
=============================================================================
