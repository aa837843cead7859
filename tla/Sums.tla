---------------------------------- MODULE Sums ----------------------------------
(***************************************************************************)
(* What the sums and folds of the community modules compute (Functions:    *)
(* SumFunction and SumFunctionOnSet; SequencesExt: FoldLeft), for every    *)
(* finite set and sequence.  Each is a function defined by recursion on a  *)
(* set.  The library's induction theorems take an operator; the ones here  *)
(* go through a minimal counterexample instead (WFMin, which takes a set). *)
(***************************************************************************)
EXTENDS Functions, FiniteSetsExt, Integers, FiniteSetTheorems, WellFoundedInduction, TLAPS

\* A collection of finite sets that is not empty has a member none of whose
\* proper subsets is in it.
LEMMA MinimalSet ==
    ASSUME NEW S, IsFiniteSet(S), NEW B \in SUBSET (SUBSET S), B # {}
    PROVE  \E t \in B : \A u \in B : u \subseteq t => u = t
<1>1. IsWellFoundedOn(StrictSubsetOrdering(S), SUBSET S)
  BY FS_StrictSubsetOrderingWellFounded, FS_FiniteSubsetsOfFinite
<1>2. PICK t \in B : \A u \in B : ~(<<u, t>> \in StrictSubsetOrdering(S))
  BY <1>1, WFMin
<1>3. \A u \in B : u \subseteq t => u = t
  BY <1>2 DEF StrictSubsetOrdering
<1> QED  BY <1>3

\* Induction on the finite subsets of S, for a collection of them.
LEMMA SetInduction ==
    ASSUME NEW S, IsFiniteSet(S), NEW P, {} \in P,
           \A t \in SUBSET S : \A x \in S \ t : t \in P => t \cup {x} \in P
    PROVE  S \in P
<1>1. SUFFICES ASSUME S \notin P
               PROVE  FALSE
  OBVIOUS
<1> DEFINE Others == (SUBSET S) \ P
<1>2. PICK t \in Others : \A u \in Others : u \subseteq t => u = t
  <2>1. Others \in SUBSET (SUBSET S) /\ Others # {}
    BY <1>1
  <2> HIDE DEF Others
  <2> QED  BY <2>1, MinimalSet
<1>3. PICK x \in t : TRUE
  BY <1>2
<1>4. t \ {x} \in P
  BY <1>2, <1>3
<1>5. (t \ {x}) \cup {x} = t
  BY <1>3
<1> QED  BY <1>2, <1>3, <1>4, <1>5

\* Induction on the numbers, for a set of them.
LEMMA NumberInduction ==
    ASSUME NEW P, 0 \in P, \A n \in Nat : n \in P => n + 1 \in P
    PROVE  Nat \subseteq P
<1> DEFINE Others == Nat \ P
<1>1. SUFFICES ASSUME Others # {}
               PROVE  FALSE
  OBVIOUS
<1>2. PICK m \in Others : \A k \in Others : ~(<<k, m>> \in OpToRel(<, Nat))
  <2>1. Others \subseteq Nat
    OBVIOUS
  <2> HIDE DEF Others
  <2> QED  BY <1>1, <2>1, NatLessThanWellFounded, WFMin
<1>3. \A k \in Others : ~(k < m)
  BY <1>2 DEF OpToRel
<1>4. m \in Nat /\ m \notin P /\ m # 0
  BY <1>2
<1>5. m - 1 \in Nat /\ m - 1 < m /\ (m - 1) + 1 = m
  BY <1>4
<1>6. m - 1 \in P
  BY <1>3, <1>5
<1> QED  BY <1>4, <1>5, <1>6

-----------------------------------------------------------------------------
(***************************************************************************)
(* A function on the subsets of a finite set, by recursion on what is left *)
(* of a set when one of its elements goes.                                 *)
(***************************************************************************)
Picks(c, S) == \A s \in SUBSET S : s # {} => c[s] \in s

Recursion(g, D, base, c, G) ==
    \A s \in D : g[s] = IF s = {} THEN base ELSE G[s][g[s \ {c[s]}]]

LEMMA RecursionExists ==
    ASSUME NEW S, IsFiniteSet(S), NEW V, NEW base \in V,
           NEW c, Picks(c, S),
           NEW G \in [SUBSET S -> [V -> V]]
    PROVE  \E g \in [SUBSET S -> V] : Recursion(g, SUBSET S, base, c, G)
<1> USE DEF Picks
<1> DEFINE Small(n) == {s \in SUBSET S : Cardinality(s) <= n}
           Done == {n \in Nat : \E g \in [Small(n) -> V] : Recursion(g, Small(n), base, c, G)}
<1>1. \A s \in SUBSET S : IsFiniteSet(s) /\ Cardinality(s) \in Nat
  BY FS_Subset, FS_CardinalityType
<1>2. 0 \in Done
  <2>1. \A s \in Small(0) : s = {}
    BY <1>1, FS_EmptySet
  <2>2. [s \in Small(0) |-> base] \in [Small(0) -> V]
    OBVIOUS
  <2>3. Recursion([s \in Small(0) |-> base], Small(0), base, c, G)
    BY <2>1 DEF Recursion
  <2> QED  BY <2>2, <2>3
<1>3. ASSUME NEW n \in Nat, n \in Done
      PROVE  n + 1 \in Done
  <2>1. PICK g \in [Small(n) -> V] : Recursion(g, Small(n), base, c, G)
    BY <1>3
  <2> DEFINE h == [s \in Small(n + 1) |-> IF s = {} THEN base ELSE G[s][g[s \ {c[s]}]]]
  <2>2. ASSUME NEW s \in Small(n + 1), s # {}
        PROVE  s \ {c[s]} \in Small(n)
    <3>1. c[s] \in s /\ Cardinality(s \ {c[s]}) = Cardinality(s) - 1
      BY <1>1, <2>2, FS_RemoveElement
    <3> QED  BY <1>1, <3>1
  <2>3. h \in [Small(n + 1) -> V]
    <3> SUFFICES ASSUME NEW s \in Small(n + 1), s # {}
                 PROVE  G[s][g[s \ {c[s]}]] \in V
      OBVIOUS
    <3> QED  BY <2>2
  <2>4. \A s \in Small(n) : h[s] = g[s]
    <3>1. \A s \in Small(n) : s \in Small(n + 1)
      BY <1>1
    <3> HIDE DEF Small
    <3> QED  BY <2>1, <3>1 DEF Recursion
  <2>5. Recursion(h, Small(n + 1), base, c, G)
    <3> HIDE DEF Small
    <3> QED  BY <2>2, <2>4 DEF Recursion
  <2>6. \E k \in [Small(n + 1) -> V] : Recursion(k, Small(n + 1), base, c, G)
    <3> HIDE DEF Small, h
    <3> QED  BY <2>3, <2>5
  <2>7. n + 1 \in Nat
    OBVIOUS
  <2> HIDE DEF Small
  <2> QED  BY <2>6, <2>7
<1>4. Cardinality(S) \in Done
  <2>1. Nat \subseteq Done
    <3> HIDE DEF Done
    <3> QED  BY <1>2, <1>3, NumberInduction
  <2> QED  BY <2>1, FS_CardinalityType
<1>5. Small(Cardinality(S)) = SUBSET S
  BY <1>1, FS_Subset
<1>6. \E g \in [Small(Cardinality(S)) -> V] : Recursion(g, Small(Cardinality(S)), base, c, G)
  BY <1>4
<1> QED  BY <1>5, <1>6

Agree(g, h, T) == \A s \in SUBSET T : g[s] = h[s]

\* Two such functions agree wherever both are defined.
LEMMA RecursionUnique ==
    ASSUME NEW S, IsFiniteSet(S), NEW T \in SUBSET S, NEW base, NEW c, NEW G, NEW g, NEW h,
           Picks(c, S), Recursion(g, SUBSET S, base, c, G), Recursion(h, SUBSET T, base, c, G)
    PROVE  Agree(g, h, T)
<1> USE DEF Picks, Agree
<1> DEFINE Bad == {s \in SUBSET T : g[s] # h[s]}
<1>1. SUFFICES ASSUME Bad # {}
               PROVE  FALSE
  OBVIOUS
<1>2. PICK s \in Bad : \A u \in Bad : u \subseteq s => u = s
  <2>1. Bad \in SUBSET (SUBSET S)
    OBVIOUS
  <2> HIDE DEF Bad
  <2> QED  BY <1>1, <2>1, MinimalSet
<1>3. s # {} /\ c[s] \in s
  BY <1>2 DEF Recursion
<1>4. g[s \ {c[s]}] = h[s \ {c[s]}]
  BY <1>2, <1>3
<1> QED  BY <1>2, <1>3, <1>4 DEF Recursion

LEMMA LeastNumber ==
    ASSUME NEW T, T \subseteq Nat, T # {}
    PROVE  \E m \in T : \A k \in T : m <= k
<1>1. PICK m \in T : \A k \in T : ~(<<k, m>> \in OpToRel(<, Nat))
  BY NatLessThanWellFounded, WFMin
<1>2. \A k \in T : k \in Nat /\ ~(k < m)
  BY <1>1 DEF OpToRel
<1>3. m \in Nat /\ \A k \in T : m <= k
  BY <1>2
<1> QED  BY <1>3

LEMMA GreatestNumber ==
    ASSUME NEW n \in Nat, NEW T, T \subseteq 1..n, T # {}
    PROVE  \E m \in T : \A k \in T : k <= m
<1> DEFINE U == {k \in 1..n : \A x \in T : x <= k}
<1>1. U \subseteq Nat /\ U # {}
  <2>1. \A x \in T : x \in 1..n /\ x \in Nat /\ x >= 1 /\ x <= n
    OBVIOUS
  <2>2. PICK x \in T : TRUE
    OBVIOUS
  <2>3. n \in 1..n
    BY <2>1, <2>2
  <2>4. n \in U
    BY <2>1, <2>3
  <2> QED  BY <2>4
<1>2. PICK m \in U : \A k \in U : m <= k
  <2> HIDE DEF U
  <2> QED  BY <1>1, LeastNumber
<1>3. m \in T
  <2>1. SUFFICES ASSUME m \notin T
                 PROVE  FALSE
    OBVIOUS
  <2>2. m \in 1..n /\ \A x \in T : x \in 1..n /\ x <= m
    BY <1>2
  <2>3. \A x \in T : x <= m - 1 /\ m - 1 \in 1..n
    BY <2>1, <2>2
  <2>4. m - 1 \in U
    BY <2>3
  <2> QED  BY <1>2, <2>2, <2>4
<1> QED  BY <1>2, <1>3

-----------------------------------------------------------------------------
(* Sums *)

\* The element a fold takes first, and what it does with it.
First(S) == [s \in SUBSET S |-> CHOOSE x \in s : TRUE]
Adding(f, S) == [s \in SUBSET S |-> [v \in Nat |-> IF s = {} THEN v ELSE f[First(S)[s]] + v]]

LEMMA FirstIsIn ==
    ASSUME NEW S
    PROVE  Picks(First(S), S)
BY DEF First, Picks

\* SumFunctionOnSet satisfies the equation it is defined by.
LEMMA SumRecursion ==
    ASSUME NEW S, IsFiniteSet(S), NEW f, \A x \in S : f[x] \in Nat
    PROVE  \E g \in [SUBSET S -> Nat] :
             /\ Recursion(g, SUBSET S, 0, First(S), Adding(f, S))
             /\ SumFunctionOnSet(f, S) = g[S]
<1> DEFINE Eq(g) == g = [s \in SUBSET S |-> IF s = {} THEN 0
                                          ELSE f[CHOOSE x \in s : TRUE] + g[s \ {CHOOSE x \in s : TRUE}]]
           it == CHOOSE g : Eq(g)
<1>1. Adding(f, S) \in [SUBSET S -> [Nat -> Nat]]
  BY FirstIsIn DEF Adding, Picks
<1>2. PICK g \in [SUBSET S -> Nat] : Recursion(g, SUBSET S, 0, First(S), Adding(f, S))
  BY <1>1, FirstIsIn, RecursionExists
<1>3. Eq(g)
  BY <1>2, FirstIsIn DEF Recursion, First, Adding, Picks
<1>4. Eq(it)
  <2> HIDE DEF Eq
  <2> QED  BY <1>3
<1>5. SumFunctionOnSet(f, S) = it[S]
  BY DEF SumFunctionOnSet, FoldFunctionOnSet, MapThenFoldSet
<1>6. \A s \in SUBSET S : it[s] = g[s]
  <2> DEFINE Bad == {s \in SUBSET S : it[s] # g[s]}
  <2>1. SUFFICES ASSUME Bad # {}
                 PROVE  FALSE
    OBVIOUS
  <2>2. PICK s \in Bad : \A u \in Bad : u \subseteq s => u = s
    <3>1. Bad \in SUBSET (SUBSET S)
      OBVIOUS
    <3> HIDE DEF Bad
    <3> QED  BY <2>1, <3>1, MinimalSet
  <2> DEFINE x == CHOOSE y \in s : TRUE
  <2> HIDE DEF it
  <2>3. s # {}
    BY <1>3, <1>4, <2>2
  <2>4. x \in s
    BY <2>3
  <2>5. it[s \ {x}] = g[s \ {x}]
    BY <2>2, <2>4
  <2>6. it[s] = f[x] + it[s \ {x}] /\ g[s] = f[x] + g[s \ {x}]
    BY <1>3, <1>4, <2>2, <2>3
  <2> QED  BY <2>2, <2>5, <2>6
<1> QED  BY <1>2, <1>5, <1>6

SumsUp(g, f, S) ==
    /\ Recursion(g, SUBSET S, 0, First(S), Adding(f, S))
    /\ \A s \in SUBSET S : SumFunctionOnSet(f, s) = g[s]

\* One function gives the sum over every subset of S.
LEMMA SumOnSubsets ==
    ASSUME NEW S, IsFiniteSet(S), NEW f, \A x \in S : f[x] \in Nat
    PROVE  \E g \in [SUBSET S -> Nat] : SumsUp(g, f, S)
<1>1. PICK g \in [SUBSET S -> Nat] : Recursion(g, SUBSET S, 0, First(S), Adding(f, S))
  BY SumRecursion
<1>2. ASSUME NEW T \in SUBSET S
      PROVE  SumFunctionOnSet(f, T) = g[T]
  <2>1. PICK h \in [SUBSET T -> Nat] : /\ Recursion(h, SUBSET T, 0, First(T), Adding(f, T))
                                       /\ SumFunctionOnSet(f, T) = h[T]
    BY FS_Subset, SumRecursion
  <2>2. \A s \in SUBSET T : First(T)[s] = First(S)[s]
    BY DEF First
  <2>3. \A s \in SUBSET T : Adding(f, T)[s] = Adding(f, S)[s]
    BY <2>2 DEF Adding
  <2>4. Recursion(h, SUBSET T, 0, First(S), Adding(f, S))
    BY <2>1, <2>2, <2>3 DEF Recursion
  <2>5. Agree(g, h, T)
    BY <1>1, <2>4, FirstIsIn, RecursionUnique
  <2> QED  BY <2>1, <2>5 DEF Agree
<1> QED  BY <1>1, <1>2 DEF SumsUp

LEMMA SumIsNatural ==
    ASSUME NEW S, IsFiniteSet(S), NEW f, \A x \in S : f[x] \in Nat
    PROVE  SumFunctionOnSet(f, S) \in Nat
<1>1. PICK g \in [SUBSET S -> Nat] : SumFunctionOnSet(f, S) = g[S]
  BY SumRecursion
<1> QED  BY <1>1

LEMMA SumOfNothing ==
    ASSUME NEW f
    PROVE  SumFunctionOnSet(f, {}) = 0
<1>1. PICK g \in [SUBSET {} -> Nat] : /\ Recursion(g, SUBSET {}, 0, First({}), Adding(f, {}))
                                     /\ SumFunctionOnSet(f, {}) = g[{}]
  BY FS_EmptySet, SumRecursion
<1> QED  BY <1>1 DEF Recursion

\* In whatever order: any element may be the first.
LEMMA SumSplit ==
    ASSUME NEW S, IsFiniteSet(S), NEW f, \A x \in S : f[x] \in Nat, NEW e \in S
    PROVE  SumFunctionOnSet(f, S) = f[e] + SumFunctionOnSet(f, S \ {e})
<1>1. PICK g \in [SUBSET S -> Nat] : SumsUp(g, f, S)
  BY SumOnSubsets
<1> USE DEF SumsUp
<1> DEFINE Bad == {s \in SUBSET S : \E y \in s : g[s] # f[y] + g[s \ {y}]}
<1>2. SUFFICES ASSUME Bad # {}
               PROVE  FALSE
  <2>1. S \notin Bad => g[S] = f[e] + g[S \ {e}]
    OBVIOUS
  <2>2. SumFunctionOnSet(f, S) = g[S] /\ SumFunctionOnSet(f, S \ {e}) = g[S \ {e}]
    BY <1>1
  <2> QED  BY <2>1, <2>2
<1>3. PICK s \in Bad : \A u \in Bad : u \subseteq s => u = s
  <2>1. Bad \in SUBSET (SUBSET S)
    OBVIOUS
  <2> HIDE DEF Bad
  <2> QED  BY <1>2, <2>1, MinimalSet
<1>4. PICK y \in s : g[s] # f[y] + g[s \ {y}]
  BY <1>3
<1> DEFINE c == First(S)[s]
<1>5. c \in s
  BY <1>4, FirstIsIn DEF Picks
<1>6. g[s] = f[c] + g[s \ {c}]
  BY <1>1, <1>4, <1>5 DEF Recursion, Adding
<1> HIDE DEF c
<1>7. c # y
  BY <1>4, <1>6
<1>8. g[s \ {c}] = f[y] + g[(s \ {c}) \ {y}] /\ g[s \ {y}] = f[c] + g[(s \ {y}) \ {c}]
  <2>1. /\ s \ {c} \in SUBSET S /\ s \ {c} \subseteq s /\ s \ {c} # s
        /\ s \ {y} \in SUBSET S /\ s \ {y} \subseteq s /\ s \ {y} # s
        /\ y \in s \ {c} /\ c \in s \ {y}
    BY <1>4, <1>5, <1>7
  <2>2. s \ {c} \notin Bad /\ s \ {y} \notin Bad
    BY <1>3, <2>1
  <2> QED  BY <2>1, <2>2
<1>9. (s \ {c}) \ {y} = (s \ {y}) \ {c} /\ (s \ {c}) \ {y} \in SUBSET S
  OBVIOUS
<1>10. f[c] \in Nat /\ f[y] \in Nat /\ g[(s \ {c}) \ {y}] \in Nat
  BY <1>4, <1>5, <1>9
<1>11. g[s] = f[c] + (f[y] + g[(s \ {c}) \ {y}]) /\ g[s \ {y}] = f[c] + g[(s \ {c}) \ {y}]
  BY <1>6, <1>8, <1>9
<1> QED  BY <1>4, <1>10, <1>11

\* Sums compare as their terms do.
LEMMA SumMonotone ==
    ASSUME NEW S, IsFiniteSet(S), NEW f, NEW h,
           \A x \in S : f[x] \in Nat /\ h[x] \in Nat /\ f[x] <= h[x]
    PROVE  SumFunctionOnSet(f, S) <= SumFunctionOnSet(h, S)
<1> DEFINE P == {s \in SUBSET S : SumFunctionOnSet(f, s) <= SumFunctionOnSet(h, s)}
<1>1. {} \in P
  BY SumOfNothing
<1>2. ASSUME NEW s \in SUBSET S, NEW x \in S \ s, s \in P
      PROVE  s \cup {x} \in P
  <2>1. IsFiniteSet(s \cup {x}) /\ IsFiniteSet(s) /\ (s \cup {x}) \ {x} = s
    BY <1>2, FS_Subset
  <2>2. /\ SumFunctionOnSet(f, s \cup {x}) = f[x] + SumFunctionOnSet(f, s)
        /\ SumFunctionOnSet(h, s \cup {x}) = h[x] + SumFunctionOnSet(h, s)
    BY <2>1, SumSplit
  <2>3. SumFunctionOnSet(f, s) \in Nat /\ SumFunctionOnSet(h, s) \in Nat
    BY <2>1, SumIsNatural
  <2> QED  BY <1>2, <2>2, <2>3
<1>3. S \in P
  <2> HIDE DEF P
  <2> QED  BY <1>1, <1>2, SetInduction
<1> QED  BY <1>3

LEMMA SumOfZeros ==
    ASSUME NEW S, IsFiniteSet(S), NEW f, \A x \in S : f[x] = 0
    PROVE  SumFunctionOnSet(f, S) = 0
<1> DEFINE P == {s \in SUBSET S : SumFunctionOnSet(f, s) = 0}
<1>1. {} \in P
  BY SumOfNothing
<1>2. ASSUME NEW s \in SUBSET S, NEW x \in S \ s, s \in P
      PROVE  s \cup {x} \in P
  <2>1. IsFiniteSet(s \cup {x}) /\ (s \cup {x}) \ {x} = s
    BY <1>2, FS_Subset
  <2>2. SumFunctionOnSet(f, s \cup {x}) = f[x] + SumFunctionOnSet(f, s)
    BY <2>1, SumSplit
  <2> QED  BY <1>2, <2>2
<1>3. S \in P
  <2> HIDE DEF P
  <2> QED  BY <1>1, <1>2, SetInduction
<1> QED  BY <1>3

\* Only what weighs something counts.
LEMMA SumOnSupport ==
    ASSUME NEW S, IsFiniteSet(S), NEW f, \A x \in S : f[x] \in Nat,
           NEW T \in SUBSET S, \A x \in S \ T : f[x] = 0
    PROVE  SumFunctionOnSet(f, S) = SumFunctionOnSet(f, T)
<1> DEFINE P == {s \in SUBSET (S \ T) : SumFunctionOnSet(f, T \cup s) = SumFunctionOnSet(f, T)}
<1>1. {} \in P
  <2>1. T \cup {} = T
    OBVIOUS
  <2> QED  BY <2>1
<1>2. ASSUME NEW s \in SUBSET (S \ T), NEW x \in (S \ T) \ s, s \in P
      PROVE  s \cup {x} \in P
  <2> DEFINE u == T \cup (s \cup {x})
  <2>1. u \subseteq S /\ u \ {x} = T \cup s /\ x \in u /\ f[x] = 0
    OBVIOUS
  <2>2. IsFiniteSet(u) /\ IsFiniteSet(T \cup s)
    BY <2>1, FS_Subset
  <2> HIDE DEF u
  <2>3. SumFunctionOnSet(f, u) = f[x] + SumFunctionOnSet(f, T \cup s)
    BY <2>1, <2>2, SumSplit
  <2>4. SumFunctionOnSet(f, T \cup s) \in Nat
    BY <2>1, <2>2, SumIsNatural
  <2>5. SumFunctionOnSet(f, u) = SumFunctionOnSet(f, T)
    BY <1>2, <2>1, <2>3, <2>4
  <2> QED  BY <2>5 DEF u
<1>3. S \ T \in P
  <2>1. IsFiniteSet(S \ T)
    BY FS_Subset
  <2> HIDE DEF P
  <2> QED  BY <1>1, <1>2, <2>1, SetInduction
<1>4. T \cup (S \ T) = S
  OBVIOUS
<1> QED  BY <1>3, <1>4

\* Sums of terms that are equal one by one.
LEMMA SumCongruent ==
    ASSUME NEW S, IsFiniteSet(S), NEW f, NEW h, \A x \in S : f[x] \in Nat /\ f[x] = h[x]
    PROVE  SumFunctionOnSet(f, S) = SumFunctionOnSet(h, S)
<1>1. SumFunctionOnSet(f, S) <= SumFunctionOnSet(h, S) /\ SumFunctionOnSet(h, S) <= SumFunctionOnSet(f, S)
  BY SumMonotone
<1>2. SumFunctionOnSet(f, S) \in Nat /\ SumFunctionOnSet(h, S) \in Nat
  BY SumIsNatural
<1> QED  BY <1>1, <1>2

\* A function that changes in one place.
Weighs(f, S) == \A x \in S : f[x] \in Nat
AgreeOff(f, h, S, e) == \A x \in S : x # e => f[x] = h[x]

LEMMA SumUpdate ==
    ASSUME NEW S, IsFiniteSet(S), NEW f, NEW h, NEW x \in S,
           Weighs(f, S), Weighs(h, S), AgreeOff(f, h, S, x)
    PROVE  SumFunctionOnSet(h, S) + f[x] = SumFunctionOnSet(f, S) + h[x]
<1> USE DEF Weighs, AgreeOff
<1>1. IsFiniteSet(S \ {x})
  BY FS_RemoveElement
<1>2. SumFunctionOnSet(h, S \ {x}) = SumFunctionOnSet(f, S \ {x})
  <2>1. /\ SumFunctionOnSet(h, S \ {x}) <= SumFunctionOnSet(f, S \ {x})
        /\ SumFunctionOnSet(f, S \ {x}) <= SumFunctionOnSet(h, S \ {x})
    BY <1>1, SumMonotone
  <2> QED  BY <1>1, <2>1, SumIsNatural
<1>3. SumFunctionOnSet(f, S \ {x}) \in Nat
  BY <1>1, SumIsNatural
<1> QED  BY <1>2, <1>3, SumSplit

LEMMA MinIsIn ==
    ASSUME NEW T, T \subseteq Nat, T # {}
    PROVE  Min(T) \in T /\ \A k \in T : Min(T) <= k
BY LeastNumber DEF Min

LEMMA MaxIsIn ==
    ASSUME NEW n \in Nat, NEW T, T \subseteq 0..n, T # {}
    PROVE  Max(T) \in T /\ \A k \in T : k <= Max(T)
<1>1. PICK m \in T : \A k \in T : k <= m
  <2>1. CASE T \subseteq 1..n
    BY <2>1, GreatestNumber
  <2>2. CASE T \cap 1..n = {}
    <3>1. \A k \in T : k = 0
      <4>1. \A k \in 0..n : k = 0 \/ k \in 1..n
        OBVIOUS
      <4> QED  BY <2>2, <4>1
    <3>2. PICK m \in T : m = 0
      BY <3>1
    <3>3. \A k \in T : k <= m
      BY <3>1, <3>2
    <3> QED  BY <3>3
  <2>3. CASE ~(T \subseteq 1..n) /\ T \cap 1..n # {}
    <3>1. T \cap 1..n \subseteq 1..n /\ \A k \in T : k \in T \cap 1..n \/ k = 0
      OBVIOUS
    <3>2. PICK m \in T \cap 1..n : \A k \in T \cap 1..n : k <= m
      BY <2>3, <3>1, GreatestNumber
    <3> QED  BY <3>1, <3>2
  <2> QED  BY <2>1, <2>2, <2>3
<1>2. \A k \in T : m >= k
  BY <1>1
<1>3. Max(T) \in T /\ \A k \in T : Max(T) >= k
  BY <1>2 DEF Max
<1> QED  BY <1>3

-----------------------------------------------------------------------------
(* Folds over sequences *)

Tops(n) == [s \in SUBSET (1..n) |-> Max(s)]

LEMMA TopIsIn ==
    ASSUME NEW n \in Nat
    PROVE  /\ Picks(Tops(n), 1..n)
           /\ \A k \in 1..n : Max(1..k) = k /\ (1..k) \ {k} = 1..(k - 1)
           /\ IsFiniteSet(1..n)
<1>1. ASSUME NEW s \in SUBSET (1..n), s # {}
      PROVE  Max(s) \in s /\ \A x \in s : x <= Max(s)
  <2>1. \E m \in s : \A x \in s : x <= m
    BY <1>1, GreatestNumber
  <2>2. \E m \in s : \A x \in s : m >= x
    BY <2>1
  <2>3. Max(s) \in s /\ \A x \in s : Max(s) >= x
    BY <2>2 DEF Max
  <2>4. \A x \in s : x \in Nat
    BY <1>1
  <2> QED  BY <2>3, <2>4
<1>2. Picks(Tops(n), 1..n)
  BY <1>1 DEF Picks, Tops
<1>3. ASSUME NEW k \in 1..n
      PROVE  Max(1..k) = k /\ (1..k) \ {k} = 1..(k - 1)
  <2>1. 1..k \in SUBSET (1..n) /\ k \in 1..k
    BY <1>3
  <2>2. Max(1..k) \in 1..k /\ k <= Max(1..k)
    BY <1>1, <2>1
  <2> QED  BY <1>3, <2>2
<1>4. IsFiniteSet(1..n)
  BY FS_Interval
<1> QED  BY <1>2, <1>3, <1>4

\* A fold over 1..n satisfies its equation: some function does.
Folds(f, x, G, n) ==
    \A s \in SUBSET (1..n) : f[s] = IF s = {} THEN x ELSE G[Max(s)][f[s \ {Max(s)}]]

LEMMA FoldExists ==
    ASSUME NEW n \in Nat, NEW V, NEW x \in V, NEW G \in [1..n -> [V -> V]]
    PROVE  \E f \in [SUBSET (1..n) -> V] : Folds(f, x, G, n)
<1> DEFINE H == [s \in SUBSET (1..n) |-> [v \in V |-> IF s = {} THEN v ELSE G[Tops(n)[s]][v]]]
<1>1. H \in [SUBSET (1..n) -> [V -> V]]
  <2> SUFFICES ASSUME NEW s \in SUBSET (1..n), s # {}
               PROVE  G[Tops(n)[s]] \in [V -> V]
    OBVIOUS
  <2>1. Tops(n)[s] \in 1..n
    BY TopIsIn DEF Picks
  <2> QED  BY <2>1
<1>2. PICK f \in [SUBSET (1..n) -> V] : Recursion(f, SUBSET (1..n), x, Tops(n), H)
  <2> HIDE DEF H
  <2> QED  BY <1>1, TopIsIn, RecursionExists
<1>3. ASSUME NEW s \in SUBSET (1..n), s # {}
      PROVE  f[s] = G[Max(s)][f[s \ {Max(s)}]]
  <2>1. Tops(n)[s] = Max(s) /\ s \ {Max(s)} \in SUBSET (1..n)
    BY DEF Tops
  <2>2. f[s] = H[s][f[s \ {Max(s)}]]
    BY <1>2, <1>3, <2>1 DEF Recursion
  <2> QED  BY <1>2, <1>3, <2>1, <2>2
<1>4. f[{}] = x
  BY <1>2 DEF Recursion
<1> QED  BY <1>2, <1>3, <1>4 DEF Folds

\* What a fold over a sequence of n goes through, when each step keeps to V.
Through(t, x, G, n) ==
    /\ t[0] = x
    /\ \A k \in 1..n : t[k] = G[k][t[k - 1]]

\* `it' is the function a fold is defined by: on V it takes the steps of G.
Iterates(it, x, G, n, V) ==
    /\ it[{}] = x
    /\ \A s \in SUBSET (1..n) : s # {} /\ it[s \ {Max(s)}] \in V
                                   => it[s] = G[Max(s)][it[s \ {Max(s)}]]

Ends(it, x, G, n, V) == \E t \in [0..n -> V] : Through(t, x, G, n) /\ it[1..n] = t[n]

LEMMA FoldEnds ==
    ASSUME NEW n \in Nat, NEW V, NEW x \in V, NEW G \in [1..n -> [V -> V]], NEW it,
           Iterates(it, x, G, n, V)
    PROVE  Ends(it, x, G, n, V)
<1> DEFINE t == [k \in 0..n |-> it[1..k]]
<1>1. t[0] = x
  <2>1. 1..0 = {} /\ 0 \in 0..n
    OBVIOUS
  <2> QED  BY <2>1 DEF Iterates
<1>2. ASSUME NEW k \in 1..n, t[k - 1] \in V
      PROVE  t[k] = G[k][t[k - 1]] /\ t[k] \in V
  <2> HIDE DEF t
  <2>1. 1..k \in SUBSET (1..n) /\ k \in 1..k /\ k \in 0..n /\ k - 1 \in 0..n
    OBVIOUS
  <2> USE DEF t
  <2>2. (1..k) \ {Max(1..k)} = 1..(k - 1) /\ Max(1..k) = k
    BY <1>2, TopIsIn
  <2>3. it[1..(k - 1)] \in V
    BY <1>2, <2>1
  <2>4. it[1..k] = G[k][it[1..(k - 1)]]
    BY <2>1, <2>2, <2>3 DEF Iterates
  <2>5. G[k][it[1..(k - 1)]] \in V
    BY <2>3
  <2> QED  BY <2>1, <2>4, <2>5
<1>3. \A k \in 0..n : t[k] \in V
  <2> DEFINE P == {k \in Nat : k <= n => t[k] \in V}
  <2>1. 0 \in P
    BY <1>1
  <2>2. ASSUME NEW k \in Nat, k \in P
        PROVE  k + 1 \in P
    <3>1. SUFFICES ASSUME k + 1 <= n
                   PROVE  t[k + 1] \in V
      OBVIOUS
    <3>2. k + 1 \in 1..n /\ (k + 1) - 1 = k /\ t[k] \in V
      BY <2>2, <3>1
    <3> HIDE DEF t
    <3> QED  BY <1>2, <3>2
  <2>3. Nat \subseteq P
    <3> HIDE DEF P
    <3> QED  BY <2>1, <2>2, NumberInduction
  <2> HIDE DEF t
  <2> QED  BY <2>3
<1>4. \A k \in 1..n : t[k] = G[k][t[k - 1]]
  <2> SUFFICES ASSUME NEW k \in 1..n
               PROVE  t[k] = G[k][t[k - 1]]
    OBVIOUS
  <2>1. k - 1 \in 0..n
    OBVIOUS
  <2> HIDE DEF t
  <2> QED  BY <1>2, <1>3, <2>1
<1>5. t \in [0..n -> V] /\ t[n] = it[1..n]
  BY <1>3
<1> QED  BY <1>1, <1>4, <1>5 DEF Through, Ends

LEMMA FoldStays ==
    ASSUME NEW n \in Nat, NEW V, NEW x \in V, NEW G \in [1..n -> [V -> V]], NEW it,
           Iterates(it, x, G, n, V)
    PROVE  it[1..n] \in V
<1>1. PICK t \in [0..n -> V] : it[1..n] = t[n]
  BY FoldEnds DEF Ends
<1>2. n \in 0..n
  OBVIOUS
<1> QED  BY <1>1, <1>2

-----------------------------------------------------------------------------
(* Sums of sums *)

\* A part weighs no more than the whole.
LEMMA SumOfPart ==
    ASSUME NEW S, IsFiniteSet(S), NEW f, \A x \in S : f[x] \in Nat, NEW T \in SUBSET S
    PROVE  SumFunctionOnSet(f, T) <= SumFunctionOnSet(f, S)
<1> DEFINE h == [x \in S |-> IF x \in T THEN f[x] ELSE 0]
<1>1. \A x \in S : h[x] \in Nat /\ h[x] <= f[x]
  OBVIOUS
<1>2. \A x \in T : h[x] \in Nat /\ h[x] = f[x]
  OBVIOUS
<1>3. \A x \in S \ T : h[x] = 0
  OBVIOUS
<1> HIDE DEF h
<1>4. SumFunctionOnSet(h, T) = SumFunctionOnSet(f, T)
  BY <1>2, FS_Subset, SumCongruent
<1>5. SumFunctionOnSet(h, S) = SumFunctionOnSet(h, T)
  BY <1>1, <1>3, SumOnSupport
<1>6. SumFunctionOnSet(h, S) <= SumFunctionOnSet(f, S)
  BY <1>1, SumMonotone
<1> QED  BY <1>4, <1>5, <1>6

LEMMA SumPlus ==
    ASSUME NEW S, IsFiniteSet(S), NEW f, NEW h, NEW k,
           \A x \in S : f[x] \in Nat /\ h[x] \in Nat /\ k[x] = f[x] + h[x]
    PROVE  SumFunctionOnSet(k, S) = SumFunctionOnSet(f, S) + SumFunctionOnSet(h, S)
<1> DEFINE P == {s \in SUBSET S : SumFunctionOnSet(k, s) = SumFunctionOnSet(f, s) + SumFunctionOnSet(h, s)}
<1>1. {} \in P
  BY SumOfNothing
<1>2. ASSUME NEW s \in SUBSET S, NEW x \in S \ s, s \in P
      PROVE  s \cup {x} \in P
  <2>1. IsFiniteSet(s \cup {x}) /\ IsFiniteSet(s) /\ (s \cup {x}) \ {x} = s
    BY <1>2, FS_Subset
  <2>2. \A y \in s \cup {x} : f[y] \in Nat /\ h[y] \in Nat /\ k[y] \in Nat
    OBVIOUS
  <2>3. /\ SumFunctionOnSet(f, s \cup {x}) = f[x] + SumFunctionOnSet(f, s)
        /\ SumFunctionOnSet(h, s \cup {x}) = h[x] + SumFunctionOnSet(h, s)
        /\ SumFunctionOnSet(k, s \cup {x}) = k[x] + SumFunctionOnSet(k, s)
    BY <2>1, <2>2, SumSplit
  <2>4. SumFunctionOnSet(f, s) \in Nat /\ SumFunctionOnSet(h, s) \in Nat
    BY <2>1, SumIsNatural
  <2> QED  BY <1>2, <2>3, <2>4
<1>3. S \in P
  <2> HIDE DEF P
  <2> QED  BY <1>1, <1>2, SetInduction
<1> QED  BY <1>3

LEMMA SumTimes ==
    ASSUME NEW S, IsFiniteSet(S), NEW f, NEW n \in Nat, NEW k,
           \A x \in S : f[x] \in Nat /\ k[x] = f[x] * n
    PROVE  SumFunctionOnSet(k, S) = SumFunctionOnSet(f, S) * n
<1> DEFINE P == {s \in SUBSET S : SumFunctionOnSet(k, s) = SumFunctionOnSet(f, s) * n}
<1>1. {} \in P
  BY SumOfNothing
<1>2. ASSUME NEW s \in SUBSET S, NEW x \in S \ s, s \in P
      PROVE  s \cup {x} \in P
  <2>1. IsFiniteSet(s \cup {x}) /\ IsFiniteSet(s) /\ (s \cup {x}) \ {x} = s
    BY <1>2, FS_Subset
  <2>2. \A y \in s \cup {x} : f[y] \in Nat /\ k[y] \in Nat
    OBVIOUS
  <2>3. /\ SumFunctionOnSet(f, s \cup {x}) = f[x] + SumFunctionOnSet(f, s)
        /\ SumFunctionOnSet(k, s \cup {x}) = k[x] + SumFunctionOnSet(k, s)
    BY <2>1, <2>2, SumSplit
  <2>4. SumFunctionOnSet(f, s) \in Nat /\ f[x] \in Nat
    BY <2>1, SumIsNatural
  <2>5. (f[x] + SumFunctionOnSet(f, s)) * n = f[x] * n + SumFunctionOnSet(f, s) * n
    BY <2>4
  <2> QED  BY <1>2, <2>3, <2>5
<1>3. S \in P
  <2> HIDE DEF P
  <2> QED  BY <1>1, <1>2, SetInduction
<1> QED  BY <1>3

LEMMA SumOfOnes ==
    ASSUME NEW S, IsFiniteSet(S), NEW f, \A x \in S : f[x] = 1
    PROVE  SumFunctionOnSet(f, S) = Cardinality(S)
<1> DEFINE P == {s \in SUBSET S : SumFunctionOnSet(f, s) = Cardinality(s)}
<1>1. {} \in P
  BY SumOfNothing, FS_EmptySet
<1>2. ASSUME NEW s \in SUBSET S, NEW x \in S \ s, s \in P
      PROVE  s \cup {x} \in P
  <2>1. IsFiniteSet(s \cup {x}) /\ IsFiniteSet(s) /\ (s \cup {x}) \ {x} = s
    BY <1>2, FS_Subset
  <2>2. SumFunctionOnSet(f, s \cup {x}) = f[x] + SumFunctionOnSet(f, s)
    BY <2>1, SumSplit
  <2>3. Cardinality(s \cup {x}) = Cardinality(s) + 1 /\ Cardinality(s) \in Nat
    BY <2>1, FS_AddElement, FS_CardinalityType
  <2> QED  BY <1>2, <2>2, <2>3
<1>3. S \in P
  <2> HIDE DEF P
  <2> QED  BY <1>1, <1>2, SetInduction
<1> QED  BY <1>3

\* A sum taken class by class.
Class(s, g, t) == {x \in s : g[x] = t}
ByClass(f, g, s, T) == [t \in T |-> SumFunctionOnSet(f, Class(s, g, t))]

LEMMA SumByClass ==
    ASSUME NEW S, IsFiniteSet(S), NEW T, IsFiniteSet(T), NEW f, NEW g,
           \A x \in S : f[x] \in Nat /\ g[x] \in T
    PROVE  SumFunctionOnSet(ByClass(f, g, S, T), T) = SumFunctionOnSet(f, S)
<1> DEFINE P == {s \in SUBSET S : SumFunctionOnSet(ByClass(f, g, s, T), T) = SumFunctionOnSet(f, s)}
<1>1. {} \in P
  <2>1. \A t \in T : ByClass(f, g, {}, T)[t] = 0
    <3>1. \A t \in T : Class({}, g, t) = {}
      BY DEF Class
    <3> QED  BY <3>1, SumOfNothing DEF ByClass
  <2>2. SumFunctionOnSet(ByClass(f, g, {}, T), T) = 0
    BY <2>1, SumOfZeros
  <2> QED  BY <2>2, SumOfNothing
<1>2. ASSUME NEW s \in SUBSET S, NEW x \in S \ s, s \in P
      PROVE  s \cup {x} \in P
  <2> DEFINE u == s \cup {x}
             a == ByClass(f, g, s, T)
             b == ByClass(f, g, u, T)
             y == g[x]
  <2>1. IsFiniteSet(u) /\ IsFiniteSet(s) /\ u \ {x} = s /\ x \in u /\ y \in T /\ f[x] \in Nat
    BY <1>2, FS_Subset
  <2>2. ASSUME NEW t \in T
        PROVE  /\ IsFiniteSet(Class(s, g, t)) /\ IsFiniteSet(Class(u, g, t))
               /\ a[t] = SumFunctionOnSet(f, Class(s, g, t)) /\ a[t] \in Nat
               /\ b[t] = SumFunctionOnSet(f, Class(u, g, t)) /\ b[t] \in Nat
    <3>1. IsFiniteSet(Class(s, g, t)) /\ IsFiniteSet(Class(u, g, t))
      <4> HIDE DEF u
      <4> QED  BY <2>1, FS_Subset DEF Class
    <3>2. \A z \in Class(s, g, t) \cup Class(u, g, t) : f[z] \in Nat
      BY DEF Class
    <3>3. /\ a[t] = SumFunctionOnSet(f, Class(s, g, t))
          /\ b[t] = SumFunctionOnSet(f, Class(u, g, t))
      BY DEF ByClass
    <3> HIDE DEF a, b, u
    <3> QED  BY <3>1, <3>2, <3>3, SumIsNatural
  <2>3. \A t \in T : t # y => Class(u, g, t) = Class(s, g, t)
    BY DEF Class
  <2>4. Class(u, g, y) \ {x} = Class(s, g, y) /\ x \in Class(u, g, y)
    BY DEF Class
  <2>5. \A z \in Class(u, g, y) : f[z] \in Nat
    BY DEF Class
  <2> HIDE DEF u, a, b, y
  <2>6. b[y] = f[x] + a[y]
    <3> DEFINE c == Class(u, g, y)
    <3>1. IsFiniteSet(c) /\ x \in c /\ \A z \in c : f[z] \in Nat
      BY <2>1, <2>2, <2>4, <2>5
    <3>2. b[y] = SumFunctionOnSet(f, c) /\ a[y] = SumFunctionOnSet(f, c \ {x})
      BY <2>1, <2>2, <2>4
    <3> HIDE DEF c
    <3> QED  BY <3>1, <3>2, SumSplit
  <2>7. \A t \in T : t # y => b[t] = a[t]
    BY <2>2, <2>3
  <2>8. SumFunctionOnSet(b, T) + a[y] = SumFunctionOnSet(a, T) + b[y]
    BY <2>1, <2>2, <2>7, SumUpdate DEF Weighs, AgreeOff
  <2>9. SumFunctionOnSet(b, T) \in Nat /\ SumFunctionOnSet(a, T) \in Nat /\ a[y] \in Nat
    BY <2>1, <2>2, SumIsNatural
  <2>10. SumFunctionOnSet(b, T) = f[x] + SumFunctionOnSet(a, T)
    BY <2>1, <2>6, <2>8, <2>9
  <2>11. \A z \in u : f[z] \in Nat
    BY DEF u
  <2>12. SumFunctionOnSet(f, u) = f[x] + SumFunctionOnSet(f, s)
    BY <2>1, <2>11, SumSplit
  <2> QED  BY <1>2, <2>10, <2>12 DEF a, b, u
<1>3. S \in P
  <2> HIDE DEF P
  <2> QED  BY <1>1, <1>2, SetInduction
<1> QED  BY <1>3
=============================================================================
