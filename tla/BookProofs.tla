------------------------------ MODULE BookProofs ------------------------------
(***************************************************************************)
(* What the operators of the graph and of the book return, for every       *)
(* graph and book.  A hold is divided into parts that are together no more *)
(* of any arc or supply than it was, and whose supplies are exactly what   *)
(* was asked of them; a reservation is of the whole amount, within what is *)
(* free.  Opening, re-holding and discharging a row move the caches and    *)
(* the reservations as they move the rows, and bring no row past its date; *)
(* so do a default and a ring, which leave everybody's position as it was  *)
(* but for the dust that a ring forgives.                                  *)
(*                                                                         *)
(* From these, what every step of the ledger leaves a book.  Most steps    *)
(* are Later: they hear no panel, bring no row past its date and leave     *)
(* sound books sound.  Accepting a panel, hearing one and pruning rows are *)
(* followed through the sum of what the open panels may still award; a     *)
(* re-denomination through the floors of what it moves.                    *)
(***************************************************************************)
EXTENDS Ledger, Sums

-----------------------------------------------------------------------------
(* Sums and orders *)

LEMMA SumIs ==
    ASSUME NEW f
    PROVE  Sum(f) = SumFunctionOnSet(f, DOMAIN f)
BY DEF Sum, FoldFunction, SumFunctionOnSet

LEMMA SumIsInNat ==
    ASSUME NEW S, IsFiniteSet(S), NEW f \in [S -> Nat]
    PROVE  Sum(f) \in Nat
BY SumIs, SumIsNatural

LEMMA FiniteArcs == IsFiniteSet(Arcs)
BY MembersAssumption, FS_Product, FS_Subset DEF Arcs

Below(S, x) == {y \in S : y < x}

LEMMA RankGrows ==
    ASSUME NEW S \in SUBSET Nat, IsFiniteSet(S), NEW x \in S
    PROVE  /\ Cardinality(Below(S, x)) \in 0..Cardinality(S) - 1
           /\ \A y \in S : x < y => Cardinality(Below(S, x)) < Cardinality(Below(S, y))
<1>1. /\ IsFiniteSet(Below(S, x)) /\ Cardinality(Below(S, x)) \in Nat
      /\ IsFiniteSet(Below(S, x) \cup {x})
      /\ Cardinality(Below(S, x) \cup {x}) = Cardinality(Below(S, x)) + 1
  <2>1. Below(S, x) \in SUBSET S /\ x \notin Below(S, x)
    BY DEF Below
  <2>2. IsFiniteSet(Below(S, x))
    BY <2>1, FS_Subset
  <2> QED  BY <2>1, <2>2, FS_CardinalityType, FS_AddElement
<1>2. Cardinality(Below(S, x)) + 1 <= Cardinality(S)
  <2>1. Below(S, x) \cup {x} \in SUBSET S
    BY DEF Below
  <2> QED  BY <1>1, <2>1, FS_Subset
<1>3. ASSUME NEW y \in S, x < y
      PROVE  Cardinality(Below(S, x)) < Cardinality(Below(S, y))
  <2>1. Below(S, x) \cup {x} \in SUBSET Below(S, y)
    <3>1. x \in Nat /\ y \in Nat /\ \A z \in S : z \in Nat
      OBVIOUS
    <3>2. \A z \in S : z < x => z < y
      BY <1>3, <3>1
    <3> QED  BY <1>3, <3>2 DEF Below
  <2>2. IsFiniteSet(Below(S, y)) /\ Cardinality(Below(S, y)) \in Nat
    <3>1. Below(S, y) \in SUBSET S
      BY DEF Below
    <3> QED  BY <3>1, FS_Subset, FS_CardinalityType
  <2>3. Cardinality(Below(S, x)) + 1 <= Cardinality(Below(S, y))
    BY <1>1, <2>1, <2>2, FS_Subset
  <2> QED  BY <1>1, <2>2, <2>3
<1>4. Cardinality(S) \in Nat
  BY FS_CardinalityType
<1> QED  BY <1>1, <1>2, <1>3, <1>4

\* The numbers of a finite set, each of them once.
LEMMA AscendingLists ==
    ASSUME NEW S \in SUBSET Nat, IsFiniteSet(S)
    PROVE  /\ Cardinality(S) \in Nat
           /\ Ascending(S) \in [1..Cardinality(S) -> S]
           /\ \A i, j \in 1..Cardinality(S) : Ascending(S)[i] = Ascending(S)[j] => i = j
           /\ \A x \in S : \E i \in 1..Cardinality(S) : Ascending(S)[i] = x
<1> DEFINE n == Cardinality(S)
           rank == [x \in S |-> Cardinality(Below(S, x))]
<1>1. n \in Nat
  BY FS_CardinalityType
<1>2. rank \in [S -> 0..n - 1]
  BY RankGrows
<1>3. \A x, y \in S : rank[x] = rank[y] => x = y
  <2> SUFFICES ASSUME NEW x \in S, NEW y \in S, x # y
               PROVE  rank[x] # rank[y]
    OBVIOUS
  <2>1. x < y \/ y < x
    OBVIOUS
  <2>2. rank[x] \in Nat /\ rank[y] \in Nat
    BY <1>1, <1>2
  <2>3. (x < y => rank[x] < rank[y]) /\ (y < x => rank[y] < rank[x])
    BY RankGrows
  <2> HIDE DEF rank
  <2> QED  BY <2>1, <2>2, <2>3
<1> HIDE DEF rank
<1>4. \A i \in 0..n - 1 : \E x \in S : rank[x] = i
  <2>1. rank \in Injection(S, 0..n - 1)
    BY <1>2, <1>3 DEF Injection, IsInjective
  <2>2. IsFiniteSet(0..n - 1) /\ Cardinality(0..n - 1) = n
    <3>1. 0 \in Int /\ n - 1 \in Int
      BY <1>1
    <3> QED  BY <1>1, <3>1, FS_Interval
  <2>3. rank \in Surjection(S, 0..n - 1)
    BY <2>1, <2>2, FS_Injection
  <2> QED  BY <2>3 DEF Surjection
<1>5. ASSUME NEW i \in 1..n
      PROVE  Ascending(S)[i] \in S /\ rank[Ascending(S)[i]] = i - 1
  <2>1. Ascending(S)[i] = CHOOSE x \in S : Cardinality({y \in S : y < x}) = i - 1
    BY DEF Ascending
  <2>2. \E x \in S : Cardinality({y \in S : y < x}) = i - 1
    BY <1>1, <1>4 DEF rank, Below
  <2> QED  BY <2>1, <2>2 DEF rank, Below
<1>6. Ascending(S) \in [1..n -> S]
  BY <1>5 DEF Ascending
<1>7. \A i, j \in 1..n : Ascending(S)[i] = Ascending(S)[j] => i = j
  <2> SUFFICES ASSUME NEW i \in 1..n, NEW j \in 1..n, Ascending(S)[i] = Ascending(S)[j]
               PROVE  i = j
    OBVIOUS
  <2>1. i - 1 = j - 1
    BY <1>5
  <2> QED  BY <1>1, <2>1
<1>8. ASSUME NEW x \in S
      PROVE  \E i \in 1..n : Ascending(S)[i] = x
  <2>1. rank[x] \in 0..n - 1
    BY <1>2
  <2>2. rank[x] + 1 \in 1..n /\ (rank[x] + 1) - 1 = rank[x]
    BY <1>1, <2>1
  <2>3. Ascending(S)[rank[x] + 1] = x
    BY <1>3, <1>5, <2>2
  <2> QED  BY <2>2, <2>3
<1> QED  BY <1>1, <1>6, <1>7, <1>8

-----------------------------------------------------------------------------
(* Holds and the routes they divide into *)

HoldSet == [edges : [Arcs -> Nat], supply : [Members -> Nat]]

\* Routes are walks of any length here: a path is one that does not repeat.
FlowSet == UNION {[D -> Nat] : D \in {D \in SUBSET Seq(Members) : IsFiniteSet(D)}}

LEMMA FlowTypes ==
    ASSUME NEW h \in FlowSet
    PROVE  /\ h \in [DOMAIN h -> Nat] /\ IsFiniteSet(DOMAIN h) /\ DOMAIN h \in SUBSET Seq(Members)
           /\ \A D \in SUBSET DOMAIN h : Restrict(h, D) \in FlowSet /\ DOMAIN Restrict(h, D) = D
<1>1. h \in [DOMAIN h -> Nat] /\ IsFiniteSet(DOMAIN h) /\ DOMAIN h \in SUBSET Seq(Members)
  BY DEF FlowSet
<1>2. ASSUME NEW D \in SUBSET DOMAIN h
      PROVE  Restrict(h, D) \in FlowSet /\ DOMAIN Restrict(h, D) = D
  <2>1. Restrict(h, D) \in [D -> Nat] /\ IsFiniteSet(D) /\ D \in SUBSET Seq(Members)
    BY <1>1, FS_Subset DEF Restrict
  <2> QED  BY <2>1 DEF FlowSet
<1> QED  BY <1>1, <1>2

LEMMA FlowSum ==
    ASSUME NEW h \in FlowSet
    PROVE  Sum(h) \in Nat
BY FlowTypes, SumIsInNat

LEMMA HeldType ==
    ASSUME NEW h \in FlowSet
    PROVE  Held(h) \in HoldSet
<1>1. ASSUME NEW a \in Arcs
      PROVE  HeldOn(h, a) \in Nat
  BY FlowTypes, FlowSum DEF HeldOn
<1>2. ASSUME NEW u \in Members
      PROVE  Drawn(h, u) \in Nat
  BY FlowTypes, FlowSum DEF Drawn, From
<1> QED  BY <1>1, <1>2 DEF Held, HoldSet

LEMMA AloneType ==
    ASSUME NEW p \in Seq(Members), NEW v \in Nat
    PROVE  Alone(p, v) \in FlowSet
<1>1. Alone(p, v) \in [{p} -> Nat] /\ IsFiniteSet({p}) /\ {p} \in SUBSET Seq(Members)
  BY FS_Singleton DEF Alone
<1> QED  BY <1>1 DEF FlowSet

LEMMA CarryingType ==
    ASSUME NEW h \in FlowSet, NEW p \in Seq(Members), NEW v \in Nat
    PROVE  Carrying(h, p, v) \in FlowSet /\ DOMAIN Carrying(h, p, v) = DOMAIN h \cup {p}
<1> DEFINE D == DOMAIN h \cup {p}
<1>1. IsFiniteSet(D) /\ D \in SUBSET Seq(Members)
  BY FlowTypes, FS_AddElement
<1>2. \A r \in D : (IF r \in DOMAIN h THEN h[r] ELSE 0) + (IF r = p THEN v ELSE 0) \in Nat
  BY FlowTypes
<1>3. Carrying(h, p, v) \in [D -> Nat]
  BY <1>2 DEF Carrying
<1> QED  BY <1>1, <1>3 DEF FlowSet

LEMMA NoHoldType == NoHold \in FlowSet /\ DOMAIN NoHold = {}
<1>1. NoHold \in [{} -> Nat] /\ IsFiniteSet({}) /\ {} \in SUBSET Seq(Members)
  BY FS_EmptySet DEF NoHold
<1> QED  BY <1>1 DEF FlowSet

LEMMA NothingType == Nothing \in HoldSet
BY NoHoldType, HeldType DEF Nothing

LEMMA MinusIsNatural ==
    ASSUME NEW x \in Nat, NEW y \in Nat
    PROVE  Minus(x, y) \in Nat /\ Minus(x, y) <= x
BY DEF Minus

LEMMA WithoutType ==
    ASSUME NEW x \in HoldSet, NEW y \in HoldSet
    PROVE  /\ Without(x, y) \in HoldSet
           /\ Underwriters(Without(x, y)) \subseteq Underwriters(x)
<1>1. \A a \in Arcs : Minus(x.edges[a], y.edges[a]) \in Nat
  BY MinusIsNatural DEF HoldSet
<1>2. \A u \in Members : /\ x.supply[u] \in Nat
                         /\ Minus(x.supply[u], y.supply[u]) \in Nat
                         /\ Minus(x.supply[u], y.supply[u]) <= x.supply[u]
  BY MinusIsNatural DEF HoldSet
<1>3. Without(x, y) \in HoldSet
  BY <1>1, <1>2 DEF Without, HoldSet
<1>4. \A u \in Members : Without(x, y).supply[u] = Minus(x.supply[u], y.supply[u])
  BY DEF Without
<1> QED  BY <1>2, <1>3, <1>4 DEF Underwriters

LEMMA HeldAmountType ==
    ASSUME NEW x \in HoldSet
    PROVE  /\ HeldAmount(x) \in Nat /\ IsFiniteSet(Underwriters(x))
           /\ Underwriters(x) \in SUBSET Members
<1>1. x.supply \in [Members -> Nat]
  BY DEF HoldSet
<1> QED  BY <1>1, MembersAssumption, SumIsInNat, FS_Subset DEF HeldAmount, Underwriters

\* What an underwriter supplies is what its own routes carry.
Starting(h, u) == {r \in DOMAIN h : r[1] = u}

LEMMA DrawnIs ==
    ASSUME NEW h \in FlowSet, NEW u
    PROVE  LET D == Starting(h, u)
           IN /\ IsFiniteSet(D) /\ From(h, u) \in [D -> Nat] /\ \A r \in D : From(h, u)[r] = h[r]
              /\ Drawn(h, u) = SumFunctionOnSet(h, D) /\ Drawn(h, u) \in Nat
<1> DEFINE D == Starting(h, u)
<1>1. D \in SUBSET DOMAIN h /\ From(h, u) = Restrict(h, D)
  BY DEF From, Starting
<1>2. h \in [DOMAIN h -> Nat] /\ IsFiniteSet(D)
  BY <1>1, FlowTypes, FS_Subset
<1> HIDE DEF D
<1>3. From(h, u) \in [D -> Nat] /\ \A r \in D : From(h, u)[r] = h[r] /\ h[r] \in Nat
  BY <1>1, <1>2 DEF Restrict
<1>4. Sum(From(h, u)) = SumFunctionOnSet(From(h, u), D)
  BY <1>3, SumIs
<1>5. SumFunctionOnSet(From(h, u), D) = SumFunctionOnSet(h, D) /\ SumFunctionOnSet(h, D) \in Nat
  BY <1>2, <1>3, SumCongruent, SumIsNatural
<1>6. Drawn(h, u) = Sum(From(h, u))
  BY DEF Drawn
<1> QED  BY <1>2, <1>3, <1>4, <1>5, <1>6 DEF D

-----------------------------------------------------------------------------
(* The places of the graph a hold may weigh on: its arcs and its supplies *)

Places == ({"arc"} \X Arcs) \cup ({"supply"} \X Members)

At(x, k) == IF k[1] = "arc" THEN x.edges[k[2]] ELSE x.supply[k[2]]

\* The routes that pass a place, and what some routes carry through it.
Via(k) == {r \in Seq(Members) : IF k[1] = "arc" THEN Crosses(r, k[2]) ELSE r[1] = k[2]}

Load(h, R) == SumFunctionOnSet(h, DOMAIN h \cap R)

LEMMA PlaceKinds ==
    ASSUME NEW k \in Places
    PROVE  \/ k[1] = "arc" /\ k[2] \in Arcs
           \/ k[1] = "supply" /\ k[2] \in Members
BY DEF Places

LEMMA PlaceOf ==
    /\ \A a \in Arcs : <<"arc", a>> \in Places
    /\ \A u \in Members : <<"supply", u>> \in Places
BY DEF Places

LEMMA AtType ==
    ASSUME NEW x \in HoldSet, NEW k \in Places
    PROVE  At(x, k) \in Nat
BY PlaceKinds DEF At, HoldSet

LEMMA AtArc ==
    ASSUME NEW x, NEW a
    PROVE  At(x, <<"arc", a>>) = x.edges[a]
BY DEF At

LEMMA AtSupply ==
    ASSUME NEW x, NEW u
    PROVE  At(x, <<"supply", u>>) = x.supply[u]
BY DEF At

\* A hold is what it takes of each place.
LEMMA HoldsEqual ==
    ASSUME NEW x \in HoldSet, NEW y \in HoldSet, \A k \in Places : At(x, k) = At(y, k)
    PROVE  x = y
<1>1. \A a \in Arcs : x.edges[a] = y.edges[a]
  BY PlaceOf, AtArc
<1>2. \A u \in Members : x.supply[u] = y.supply[u]
  BY PlaceOf, AtSupply
<1>3. x.edges \in [Arcs -> Nat] /\ y.edges \in [Arcs -> Nat] /\ x.supply \in [Members -> Nat]
      /\ y.supply \in [Members -> Nat]
  BY DEF HoldSet
<1>4. x.edges = y.edges /\ x.supply = y.supply
  BY <1>1, <1>2, <1>3
<1> QED  BY <1>4 DEF HoldSet

LEMMA LoadType ==
    ASSUME NEW h \in FlowSet, NEW R
    PROVE  /\ IsFiniteSet(DOMAIN h \cap R) /\ Load(h, R) \in Nat
           /\ \A r \in DOMAIN h : h[r] \in Nat
<1>1. h \in [DOMAIN h -> Nat] /\ IsFiniteSet(DOMAIN h)
  BY FlowTypes
<1>2. IsFiniteSet(DOMAIN h \cap R) /\ \A r \in DOMAIN h : h[r] \in Nat
  BY <1>1, FS_Subset
<1>3. Load(h, R) \in Nat
  BY <1>2, SumIsNatural DEF Load
<1> QED  BY <1>2, <1>3

LEMMA HeldAt ==
    ASSUME NEW h \in FlowSet, NEW k \in Places
    PROVE  At(Held(h), k) = Load(h, Via(k))
<1> DEFINE D == DOMAIN h \cap Via(k)
           f == Restrict(h, D)
<1>1. DOMAIN h \in SUBSET Seq(Members)
  BY FlowTypes
<1>5. At(Held(h), k) = Sum(f)
  <2>1. CASE k[1] = "arc"
    <3>1. D = {r \in DOMAIN h : Crosses(r, k[2])}
      BY <1>1, <2>1 DEF Via
    <3> QED  BY <2>1, <3>1, PlaceKinds DEF At, Held, HeldOn
  <2>2. CASE k[1] # "arc"
    <3>1. D = {r \in DOMAIN h : r[1] = k[2]}
      BY <1>1, <2>2 DEF Via
    <3> QED  BY <2>2, <3>1, PlaceKinds DEF At, Held, Drawn, From
  <2> QED  BY <2>1, <2>2
<1>6. f \in [D -> Nat] /\ \A r \in D : f[r] = h[r] /\ f[r] \in Nat
  BY LoadType DEF Restrict
<1>7. IsFiniteSet(D)
  BY LoadType
<1> HIDE DEF D, f
<1>8. Sum(f) = SumFunctionOnSet(f, D)
  BY <1>6, SumIs
<1>9. SumFunctionOnSet(f, D) = SumFunctionOnSet(h, D)
  BY <1>6, <1>7, SumCongruent
<1> QED  BY <1>5, <1>8, <1>9 DEF Load, D

\* One more route adds what it carries wherever it passes.
LEMMA LoadCarrying ==
    ASSUME NEW h \in FlowSet, NEW p \in Seq(Members), NEW v \in Nat, NEW R
    PROVE  Load(Carrying(h, p, v), R) = Load(h, R) + (IF p \in R THEN v ELSE 0)
<1> DEFINE c == Carrying(h, p, v)
           C == DOMAIN c \cap R
           D == DOMAIN h \cap R
           f == [r \in C |-> IF r \in D THEN h[r] ELSE 0]
<1>1. c \in FlowSet /\ DOMAIN c = DOMAIN h \cup {p}
  BY CarryingType
<1>2. ASSUME NEW r \in DOMAIN c
      PROVE  c[r] = (IF r \in DOMAIN h THEN h[r] ELSE 0) + (IF r = p THEN v ELSE 0)
  BY <1>1, <1>2 DEF Carrying
<1>3. IsFiniteSet(C) /\ IsFiniteSet(D)
  <2> HIDE DEF c
  <2> QED  BY <1>1, LoadType
<1>4. D \subseteq C /\ (p \in C <=> p \in R) /\ \A r \in C : r \in R /\ (r \in D <=> r \in DOMAIN h)
  <2> HIDE DEF c
  <2> QED  BY <1>1
<1>5. \A r \in DOMAIN h : h[r] \in Nat
  BY LoadType
<1>6. \A r \in C : f[r] \in Nat /\ (r # p => c[r] = f[r]) /\ (r = p => c[r] = f[r] + v) /\ c[r] \in Nat
  <2> SUFFICES ASSUME NEW r \in C
               PROVE  f[r] \in Nat /\ (r # p => c[r] = f[r]) /\ (r = p => c[r] = f[r] + v) /\ c[r] \in Nat
    OBVIOUS
  <2>1. r \in DOMAIN c /\ (r \in D <=> r \in DOMAIN h)
    BY <1>4
  <2>2. c[r] = (IF r \in DOMAIN h THEN h[r] ELSE 0) + (IF r = p THEN v ELSE 0)
    BY <1>2, <2>1
  <2>3. f[r] = IF r \in DOMAIN h THEN h[r] ELSE 0
    BY <2>1
  <2> DEFINE was == f[r]
             now == c[r]
  <2>4. was \in Nat
    BY <1>5, <2>3
  <2>5. now = was + (IF r = p THEN v ELSE 0)
    BY <2>2, <2>3
  <2> HIDE DEF was, now
  <2>6. (r # p => now = was) /\ (r = p => now = was + v) /\ now \in Nat
    BY <2>4, <2>5
  <2> QED  BY <2>4, <2>6 DEF was, now
<1>7. (\A r \in D : f[r] = h[r]) /\ (\A r \in C \ D : f[r] = 0) /\ \A r \in D : r \in DOMAIN h
  BY <1>4
<1> HIDE DEF c, f, C, D
<1>10. SumFunctionOnSet(f, C) = SumFunctionOnSet(h, D)
  <2>1. SumFunctionOnSet(f, C) = SumFunctionOnSet(f, D)
    BY <1>3, <1>4, <1>6, <1>7, SumOnSupport
  <2>2. \A r \in D : f[r] \in Nat /\ f[r] = h[r]
    BY <1>4, <1>6, <1>7
  <2>3. SumFunctionOnSet(f, D) = SumFunctionOnSet(h, D)
    BY <1>3, <2>2, SumCongruent
  <2> QED  BY <2>1, <2>3
<1>11. SumFunctionOnSet(f, C) \in Nat /\ SumFunctionOnSet(c, C) \in Nat
  BY <1>3, <1>6, SumIsNatural
<1>12. Load(h, R) = SumFunctionOnSet(h, D) /\ Load(c, R) = SumFunctionOnSet(c, C)
  BY DEF Load, C, D
<1>13. CASE p \notin R
  <2>1. \A r \in C : c[r] \in Nat /\ c[r] = f[r]
    BY <1>4, <1>6, <1>13
  <2>2. SumFunctionOnSet(c, C) = SumFunctionOnSet(f, C)
    BY <1>3, <2>1, SumCongruent
  <2> QED  BY <1>10, <1>11, <1>12, <1>13, <2>2 DEF c
<1>14. CASE p \in R
  <2>1. p \in C /\ c[p] = f[p] + v /\ f[p] \in Nat
    BY <1>4, <1>6, <1>14
  <2>2. Weighs(f, C) /\ Weighs(c, C) /\ AgreeOff(f, c, C, p)
    BY <1>6 DEF Weighs, AgreeOff
  <2>3. SumFunctionOnSet(c, C) + f[p] = SumFunctionOnSet(f, C) + c[p]
    BY <1>3, <2>1, <2>2, SumUpdate
  <2>4. SumFunctionOnSet(c, C) = SumFunctionOnSet(f, C) + v
    BY <1>11, <2>1, <2>3
  <2> QED  BY <1>10, <1>12, <1>14, <2>4 DEF c
<1> QED  BY <1>13, <1>14

LEMMA LoadAlone ==
    ASSUME NEW p \in Seq(Members), NEW v \in Nat, NEW R
    PROVE  Load(Alone(p, v), R) = IF p \in R THEN v ELSE 0
<1> DEFINE h == Alone(p, v)
           D == DOMAIN h \cap R
<1>1. h \in FlowSet /\ DOMAIN h = {p} /\ h[p] = v
  BY AloneType DEF Alone
<1> HIDE DEF h
<1>2. Load(h, R) = SumFunctionOnSet(h, D)
  BY DEF Load
<1>3. CASE p \in R
  <2>1. D = {p} /\ {p} \ {p} = {}
    BY <1>1, <1>3
  <2> HIDE DEF D
  <2>2. SumFunctionOnSet(h, {p}) = h[p] + SumFunctionOnSet(h, {p} \ {p})
    BY <1>1, FS_Singleton, SumSplit
  <2>3. SumFunctionOnSet(h, {p} \ {p}) = 0
    BY <2>1, SumOfNothing
  <2>4. Load(h, R) = v
    BY <1>1, <1>2, <2>1, <2>2, <2>3
  <2> QED  BY <1>3, <2>4 DEF h
<1>4. CASE p \notin R
  <2>1. D = {}
    BY <1>1, <1>4
  <2> HIDE DEF D
  <2> QED  BY <1>2, <1>4, <2>1, SumOfNothing DEF h
<1> QED  BY <1>3, <1>4

LEMMA NoLoad ==
    ASSUME NEW R
    PROVE  Load(NoHold, R) = 0
<1>1. DOMAIN NoHold \cap R = {}
  BY NoHoldType
<1> QED  BY <1>1, SumOfNothing DEF Load

\* Nothing is nothing at every place.
LEMMA NothingAt ==
    ASSUME NEW k \in Places
    PROVE  At(Nothing, k) = 0
BY NoHoldType, HeldAt, NoLoad DEF Nothing

LEMMA WithoutAt ==
    ASSUME NEW x \in HoldSet, NEW y \in HoldSet, NEW k \in Places
    PROVE  At(Without(x, y), k) = Minus(At(x, k), At(y, k))
BY PlaceKinds DEF At, Without

\* The walks from u that take an arc at every step.
Walks(u) == {p \in Seq(Members) : /\ Len(p) >= 1 /\ p[1] = u
                                  /\ \A i \in 1..Len(p) - 1 : p[i] # p[i + 1]}

LEMMA WalkGrows ==
    ASSUME NEW u, NEW p \in Walks(u), NEW m \in Members, m # Last(p)
    PROVE  Append(p, m) \in Walks(u)
<1>1. p \in Seq(Members) /\ Len(p) \in Nat /\ Len(p) >= 1
  BY DEF Walks
<1>2. /\ Append(p, m) \in Seq(Members) /\ Len(Append(p, m)) = Len(p) + 1
      /\ Append(p, m)[Len(p) + 1] = m
      /\ \A i \in 1..Len(p) : Append(p, m)[i] = p[i]
  BY <1>1
<1>3. ASSUME NEW i \in 1..Len(p)
      PROVE  Append(p, m)[i] # Append(p, m)[i + 1]
  <2>1. CASE i = Len(p)
    BY <1>1, <1>2, <2>1 DEF Last
  <2>2. CASE i # Len(p)
    <3>1. i \in 1..Len(p) - 1 /\ i + 1 \in 1..Len(p)
      BY <1>1, <2>2
    <3> QED  BY <1>2, <3>1 DEF Walks
  <2> QED  BY <2>1, <2>2
<1>4. Append(p, m)[1] = u
  BY <1>1, <1>2 DEF Walks
<1>5. Len(Append(p, m)) - 1 = Len(p) /\ Len(Append(p, m)) >= 1
  BY <1>1, <1>2
<1> QED  BY <1>2, <1>3, <1>4, <1>5 DEF Walks

LEMMA WalkType ==
    ASSUME NEW edges, NEW u \in Members, NEW d
    PROVE  Walk(edges, u, d) \in Walks(u)
<1> DEFINE n == Cardinality(Members)
           q == [k \in 1..n |-> k]
           V == Walks(u)
           next(p) == {m \in Members \ {Last(p)} : edges[<<Last(p), m>>] > 0}
           step(p) == IF Last(p) = d \/ next(p) = {} THEN p ELSE Append(p, Min(next(p)))
           G == [k \in 1..n |-> [p \in V |-> step(p)]]
           Eq(f) == f = [s \in SUBSET (1..n) |-> IF s = {} THEN <<u>> ELSE step(f[s \ {Max(s)}])]
           it == CHOOSE f : Eq(f)
<1>1. n \in Nat
  BY MembersAssumption, FS_CardinalityType
<1>2. <<u>> \in V
  <2>1. <<u>> \in Seq(Members) /\ Len(<<u>>) = 1 /\ <<u>>[1] = u /\ 1..Len(<<u>>) - 1 = {}
    OBVIOUS
  <2> QED  BY <2>1 DEF Walks
<1>3. ASSUME NEW p \in V
      PROVE  step(p) \in V
  <2>1. CASE next(p) = {} \/ Last(p) = d
    BY <2>1
  <2>2. CASE next(p) # {} /\ Last(p) # d
    <3>1. next(p) \subseteq Nat
      BY MembersAssumption
    <3>2. Min(next(p)) \in next(p)
      <4> HIDE DEF next
      <4> QED  BY <2>2, <3>1, MinIsIn
    <3>3. Min(next(p)) \in Members /\ Min(next(p)) # Last(p)
      BY <3>2
    <3> HIDE DEF next
    <3> QED  BY <2>2, <3>3, WalkGrows
  <2> QED  BY <2>1, <2>2
<1> HIDE DEF step
<1>4. G \in [1..n -> [V -> V]]
  BY <1>3
<1>5. PICK f \in [SUBSET (1..n) -> V] : Folds(f, <<u>>, G, n)
  <2> HIDE DEF G, V
  <2> QED  BY <1>1, <1>2, <1>4, FoldExists
<1>6. ASSUME NEW s \in SUBSET (1..n), s # {}
      PROVE  Max(s) \in 1..n /\ s \ {Max(s)} \in SUBSET (1..n)
  BY <1>1, <1>6, TopIsIn DEF Picks, Tops
<1>7. Eq(f)
  <2>1. \A s \in SUBSET (1..n) : f[s] = IF s = {} THEN <<u>> ELSE step(f[s \ {Max(s)}])
    BY <1>5, <1>6 DEF Folds
  <2> HIDE DEF V
  <2> QED  BY <1>5, <2>1
<1>8. Eq(it)
  <2> HIDE DEF Eq
  <2> QED  BY <1>7
<1>9. Walk(edges, u, d) = it[1..n]
  <2>1. DOMAIN q = 1..n
    OBVIOUS
  <2> QED  BY <2>1 DEF Walk, FoldLeft, MapThenFoldSet, step
<1> HIDE DEF it
<1>10. Iterates(it, <<u>>, G, n, V)
  BY <1>6, <1>8 DEF Iterates
<1>11. it[1..n] \in V
  <2> HIDE DEF G, V
  <2> QED  BY <1>1, <1>2, <1>4, <1>10, FoldStays
<1> QED  BY <1>9, <1>11

\* A route as a decomposition takes it: from its underwriter to the debtor, and
\* through no member twice.
Reaches(r, d) == Len(r) >= 1 /\ Last(r) = d /\ IsInjective(r)

\* What a decomposition goes through: routes of x's underwriters, and what is
\* left of x, together what x holds of every place.
Partial(x, d) == {s \in [left : HoldSet, routes : FlowSet, flow : BOOLEAN] :
                    /\ \A k \in Places : At(s.left, k) + Load(s.routes, Via(k)) = At(x, k)
                    /\ \A r \in DOMAIN s.routes : r[1] \in Underwriters(x) /\ Reaches(r, d)}

LEMMA PartialLeft ==
    ASSUME NEW x \in HoldSet, NEW d, NEW s \in Partial(x, d)
    PROVE  Underwriters(s.left) \subseteq Underwriters(x)
<1> SUFFICES ASSUME NEW u \in Members, s.left.supply[u] > 0
             PROVE  x.supply[u] > 0
  BY DEF Underwriters
<1> DEFINE k == <<"supply", u>>
<1>1. k \in Places /\ At(s.left, k) = s.left.supply[u] /\ At(x, k) = x.supply[u]
  BY PlaceOf, AtSupply
<1> HIDE DEF k
<1>2. s.routes \in FlowSet /\ s.left \in HoldSet /\ At(s.left, k) + Load(s.routes, Via(k)) = At(x, k)
  BY <1>1 DEF Partial
<1>3. Load(s.routes, Via(k)) \in Nat /\ At(s.left, k) \in Nat
  BY <1>1, <1>2, LoadType, AtType
<1> QED  BY <1>1, <1>2, <1>3

\* A walk takes no more than the least of what is left on its way.
LEMMA WalkFits ==
    ASSUME NEW x \in HoldSet, NEW u \in Members, NEW p \in Walks(u)
    PROVE  LET v == Min({x.supply[p[1]]} \cup {x.edges[<<p[i], p[i + 1]>>] : i \in 1..Len(p) - 1})
           IN v \in Nat /\ \A k \in Places : p \in Via(k) => v <= At(x, k)
<1> DEFINE steps == {x.edges[<<p[i], p[i + 1]>>] : i \in 1..Len(p) - 1}
           all == {x.supply[p[1]]} \cup steps
           v == Min(all)
<1>1. p \in Seq(Members) /\ p[1] = u /\ Len(p) \in Nat /\ Len(p) >= 1
  BY DEF Walks
<1>2. x.supply[p[1]] \in Nat
  BY <1>1 DEF HoldSet
<1>3. ASSUME NEW i \in 1..Len(p) - 1
      PROVE  x.edges[<<p[i], p[i + 1]>>] \in Nat
  <2>1. i \in 1..Len(p) /\ i + 1 \in 1..Len(p) /\ p[i] # p[i + 1]
    BY <1>1 DEF Walks
  <2>2. p[i] \in Members /\ p[i + 1] \in Members
    BY <1>1, <2>1
  <2>3. <<p[i], p[i + 1]>> \in Arcs
    BY <2>1, <2>2 DEF Arcs
  <2> QED  BY <2>3 DEF HoldSet
<1>4. steps \subseteq Nat
  BY <1>3
<1>5. v \in all /\ \A y \in all : v <= y
  <2>1. all \subseteq Nat /\ all # {}
    BY <1>2, <1>4
  <2> HIDE DEF all
  <2> QED  BY <2>1, MinIsIn
<1>6. v \in Nat
  BY <1>2, <1>4, <1>5
<1>7. ASSUME NEW k \in Places, p \in Via(k)
      PROVE  At(x, k) \in all
  <2>1. CASE k[1] = "arc"
    <3>1. k[2] \in Arcs /\ Crosses(p, k[2])
      BY <1>7, <2>1, PlaceKinds DEF Via
    <3>2. PICK i \in 1..Len(p) - 1 : p[i] = k[2][1] /\ p[i + 1] = k[2][2]
      BY <3>1 DEF Crosses
    <3>3. k[2] = <<p[i], p[i + 1]>>
      BY <3>1, <3>2 DEF Arcs
    <3>4. At(x, k) = x.edges[<<p[i], p[i + 1]>>]
      BY <2>1, <3>3 DEF At
    <3> QED  BY <3>4
  <2>2. CASE k[1] # "arc"
    BY <1>7, <2>2 DEF At, Via
  <2> QED  BY <2>1, <2>2
<1> HIDE DEF all
<1>8. \A k \in Places : p \in Via(k) => v <= At(x, k)
  BY <1>5, <1>7
<1> QED  BY <1>6, <1>8 DEF all

LEMMA FollowedType ==
    ASSUME NEW x \in HoldSet, NEW d, NEW s \in Partial(x, d), NEW u \in Underwriters(x), u \in Members,
           NEW p \in Walks(u)
    PROVE  Followed(s, d, p) \in Partial(x, d)
<1> DEFINE v == Min({s.left.supply[p[1]]} \cup {s.left.edges[<<p[i], p[i + 1]>>] : i \in 1..Len(p) - 1})
<1>1. /\ s.left \in HoldSet /\ s.routes \in FlowSet /\ s.flow \in BOOLEAN
      /\ \A k \in Places : At(s.left, k) + Load(s.routes, Via(k)) = At(x, k)
      /\ \A r \in DOMAIN s.routes : r[1] \in Underwriters(x) /\ Reaches(r, d)
      /\ s \in [left : HoldSet, routes : FlowSet, flow : BOOLEAN]
  BY DEF Partial
<1>2. p \in Seq(Members) /\ p[1] = u /\ Len(p) \in Nat /\ Len(p) >= 1
  BY DEF Walks
<1>3. v \in Nat /\ \A k \in Places : p \in Via(k) => v <= At(s.left, k)
  BY <1>1, WalkFits
<1> HIDE DEF v
<1>4. CASE Last(p) # d \/ ~IsInjective(p)
  <2>1. Followed(s, d, p) = [s EXCEPT !.flow = FALSE]
    BY <1>4 DEF Followed
  <2>2. /\ [s EXCEPT !.flow = FALSE] \in [left : HoldSet, routes : FlowSet, flow : BOOLEAN]
        /\ [s EXCEPT !.flow = FALSE].left = s.left /\ [s EXCEPT !.flow = FALSE].routes = s.routes
    BY <1>1
  <2> QED  BY <1>1, <2>1, <2>2 DEF Partial
<1>5. CASE ~(Last(p) # d \/ ~IsInjective(p))
  <2> DEFINE h == Alone(p, v)
             l == Without(s.left, Held(h))
             r == Carrying(s.routes, p, v)
             e == [s EXCEPT !.left = l, !.routes = r]
  <2>1. Followed(s, d, p) = e
    BY <1>5 DEF Followed, v
  <2>2. h \in FlowSet /\ Held(h) \in HoldSet
    BY <1>2, <1>3, AloneType, HeldType
  <2>3. l \in HoldSet
    BY <1>1, <2>2, WithoutType
  <2>4. r \in FlowSet /\ DOMAIN r = DOMAIN s.routes \cup {p}
    BY <1>1, <1>2, <1>3, CarryingType
  <2>5. ASSUME NEW k \in Places
        PROVE  At(l, k) + Load(r, Via(k)) = At(x, k)
    <3> DEFINE y == IF p \in Via(k) THEN v ELSE 0
    <3>1. At(Held(h), k) = y /\ Load(r, Via(k)) = Load(s.routes, Via(k)) + y
      <4>1. Load(h, Via(k)) = y
        BY <1>2, <1>3, LoadAlone
      <4>2. Load(r, Via(k)) = Load(s.routes, Via(k)) + y
        BY <1>1, <1>2, <1>3, LoadCarrying
      <4>3. At(Held(h), k) = Load(h, Via(k))
        <5> HIDE DEF h
        <5> QED  BY <2>2, HeldAt
      <4> QED  BY <4>1, <4>2, <4>3
    <3>2. At(l, k) = Minus(At(s.left, k), At(Held(h), k))
      <4> HIDE DEF h
      <4> QED  BY <1>1, <2>2, WithoutAt
    <3>3. /\ At(s.left, k) \in Nat /\ Load(s.routes, Via(k)) \in Nat
          /\ At(s.left, k) + Load(s.routes, Via(k)) = At(x, k)
      BY <1>1, AtType, LoadType
    <3>4. y \in Nat /\ y <= At(s.left, k)
      BY <1>3, <3>3
    <3> HIDE DEF y, h, l, r
    <3> QED  BY <3>1, <3>2, <3>3, <3>4 DEF Minus
  <2>6. Reaches(p, d) /\ p[1] \in Underwriters(x)
    BY <1>2, <1>5 DEF Reaches
  <2> HIDE DEF l, r
  <2>7. e \in [left : HoldSet, routes : FlowSet, flow : BOOLEAN] /\ e.left = l /\ e.routes = r
    BY <1>1, <2>3, <2>4
  <2> HIDE DEF e
  <2> QED  BY <1>1, <2>1, <2>4, <2>5, <2>6, <2>7 DEF Partial
<1> QED  BY <1>4, <1>5

LEMMA OneRouteType ==
    ASSUME NEW x \in HoldSet, NEW d, NEW s \in Partial(x, d)
    PROVE  OneRoute(s, d) \in Partial(x, d)
<1>1. CASE Underwriters(s.left) = {} \/ ~s.flow
  BY <1>1 DEF OneRoute
<1>2. CASE ~(Underwriters(s.left) = {} \/ ~s.flow)
  <2> DEFINE u == Min(Underwriters(s.left))
             p == Walk(s.left.edges, u, d)
  <2>1. OneRoute(s, d) = Followed(s, d, p)
    BY <1>2 DEF OneRoute
  <2>2. s.left \in HoldSet /\ Underwriters(s.left) \subseteq Underwriters(x)
    BY PartialLeft DEF Partial
  <2>3. Underwriters(s.left) \subseteq Nat /\ Underwriters(s.left) \subseteq Members
    BY <2>2, HeldAmountType, MembersAssumption
  <2>4. u \in Underwriters(s.left)
    BY <1>2, <2>3, MinIsIn
  <2>5. u \in Underwriters(x) /\ u \in Members
    BY <2>2, <2>3, <2>4
  <2> HIDE DEF u
  <2>6. p \in Walks(u)
    BY <2>5, WalkType
  <2> HIDE DEF p
  <2> QED  BY <2>1, <2>5, <2>6, FollowedType
<1> QED  BY <1>1, <1>2

LEMMA DecomposedType ==
    ASSUME NEW x \in HoldSet, NEW d
    PROVE  /\ Decomposed(x, d).routes \in FlowSet
           /\ Decomposed(x, d).flow \in BOOLEAN
           /\ \A r \in DOMAIN Decomposed(x, d).routes : r[1] \in Underwriters(x) /\ Reaches(r, d)
           /\ \A k \in Places : Load(Decomposed(x, d).routes, Via(k)) <= At(x, k)
           /\ Decomposed(x, d).flow =>
                 \A k \in Places : Load(Decomposed(x, d).routes, Via(k)) = At(x, k)
<1> DEFINE arcs == {a \in Arcs : x.edges[a] > 0}
           n == Cardinality(arcs) + Cardinality(Underwriters(x))
           b == [left |-> x, routes |-> NoHold, flow |-> TRUE]
           V == Partial(x, d)
           G == [k \in 1..n |-> [s \in V |-> OneRoute(s, d)]]
           Eq(f) == f = [s \in SUBSET (1..n) |-> IF s = {} THEN b ELSE OneRoute(f[s \ {Max(s)}], d)]
           it == CHOOSE f : Eq(f)
<1>1. n \in Nat
  <2>1. IsFiniteSet(arcs)
    BY FiniteArcs, FS_Subset
  <2>2. Cardinality(arcs) \in Nat /\ Cardinality(Underwriters(x)) \in Nat
    BY <2>1, HeldAmountType, FS_CardinalityType
  <2> QED  BY <2>2
<1>2. b \in V
  <2>1. \A k \in Places : At(x, k) \in Nat /\ Load(NoHold, Via(k)) = 0
    BY AtType, NoLoad
  <2>3. b.left = x /\ b.routes = NoHold /\ b \in [left : HoldSet, routes : FlowSet, flow : BOOLEAN]
    BY NoHoldType
  <2> HIDE DEF b
  <2> QED  BY <2>1, <2>3, NoHoldType DEF Partial
<1>3. G \in [1..n -> [V -> V]]
  BY OneRouteType
<1>4. PICK f \in [SUBSET (1..n) -> V] : Folds(f, b, G, n)
  <2> HIDE DEF G, V, b, n
  <2> QED  BY <1>1, <1>2, <1>3, FoldExists
<1>5. ASSUME NEW s \in SUBSET (1..n), s # {}
      PROVE  Max(s) \in 1..n /\ s \ {Max(s)} \in SUBSET (1..n)
  BY <1>1, <1>5, TopIsIn DEF Picks, Tops
<1>6. Eq(f)
  <2> HIDE DEF b, n
  <2>1. \A s \in SUBSET (1..n) : f[s] = IF s = {} THEN b ELSE OneRoute(f[s \ {Max(s)}], d)
    BY <1>4, <1>5 DEF Folds
  <2> HIDE DEF V
  <2> QED  BY <1>4, <2>1
<1>7. Eq(it)
  <2> HIDE DEF Eq
  <2> QED  BY <1>6
<1>8. Decomposed(x, d) = Whole(it[1..n])
  BY DEF Decomposed, FoldLeft, MapThenFoldSet
<1> HIDE DEF it, b, n
<1>9. Iterates(it, b, G, n, V)
  BY <1>5, <1>7 DEF Iterates
<1>10. it[1..n] \in V
  <2> HIDE DEF G, V
  <2> QED  BY <1>1, <1>2, <1>3, <1>9, FoldStays
<1>11. /\ it[1..n].routes \in FlowSet /\ it[1..n].left \in HoldSet /\ it[1..n].flow \in BOOLEAN
       /\ Decomposed(x, d).routes = it[1..n].routes /\ Decomposed(x, d).flow \in BOOLEAN
  BY <1>8, <1>10 DEF Whole, Partial
<1>12. ASSUME NEW k \in Places
       PROVE  /\ Load(it[1..n].routes, Via(k)) <= At(x, k)
              /\ it[1..n].left = Nothing => Load(it[1..n].routes, Via(k)) = At(x, k)
  <2>1. At(it[1..n].left, k) + Load(it[1..n].routes, Via(k)) = At(x, k)
    BY <1>10 DEF Partial
  <2>2. At(it[1..n].left, k) \in Nat /\ Load(it[1..n].routes, Via(k)) \in Nat
    BY <1>11, LoadType, AtType
  <2>3. it[1..n].left = Nothing => At(it[1..n].left, k) = 0
    BY NothingAt
  <2> QED  BY <2>1, <2>2, <2>3
<1>13. Decomposed(x, d).flow => it[1..n].left = Nothing
  <2>1. SUFFICES ASSUME it[1..n].left # Nothing
                 PROVE  ~Decomposed(x, d).flow
    OBVIOUS
  <2>2. Decomposed(x, d) = [routes |-> it[1..n].routes, flow |-> FALSE]
    BY <1>8, <2>1 DEF Whole
  <2> QED  BY <2>2
<1>14. \A r \in DOMAIN it[1..n].routes : r[1] \in Underwriters(x) /\ Reaches(r, d)
  BY <1>10 DEF Partial
<1> HIDE DEF V
<1> QED  BY <1>11, <1>12, <1>13, <1>14

LEMMA ProductIsNatural ==
    ASSUME NEW x \in Nat, NEW y \in Nat
    PROVE  x * y \in Nat
OBVIOUS

LEMMA QuotientIsNatural ==
    ASSUME NEW x \in Nat, NEW y \in Nat \ {0}
    PROVE  x \div y \in Nat
OBVIOUS

LEMMA SharesType ==
    ASSUME NEW D, IsFiniteSet(D), NEW w \in [D -> Nat], NEW n \in Nat, NEW rank, NEW capped
    PROVE  Shares(w, n, rank, capped) \in [D -> Nat]
<1> DEFINE total == Sum(w)
           q == [k \in DOMAIN w |-> (w[k] * n) \div total]
           rem == [k \in DOMAIN w |-> (w[k] * n) % total]
           may == {k \in DOMAIN w : capped => q[k] < w[k]}
           turn(k) == Cardinality({j \in may : rem[j] > rem[k] \/ (rem[j] = rem[k] /\ rank[j] < rank[k])})
           extra == {k \in may : turn(k) < Minus(n, Sum(q))}
<1>1. total \in Nat
  BY SumIsInNat
<1>2. Shares(w, n, rank, capped) = IF total = 0 THEN w
                                   ELSE [k \in DOMAIN w |-> IF k \in extra THEN q[k] + 1 ELSE q[k]]
  BY DEF Shares
<1>3. ASSUME NEW k \in D, total # 0
      PROVE  q[k] \in Nat
  <2>1. w[k] * n \in Nat
    BY ProductIsNatural
  <2>2. total \in Nat \ {0}
    BY <1>1, <1>3
  <2> HIDE DEF total
  <2> QED  BY <2>1, <2>2, QuotientIsNatural
<1> HIDE DEF total, q, extra
<1> QED  BY <1>2, <1>3

\* What a division of the supply of x may keep of each of its underwriters.
Kept(x) == {f \in [Underwriters(x) -> Nat] : \A u \in Underwriters(x) : f[u] <= x.supply[u]}

LEMMA SuppliedType ==
    ASSUME NEW x \in HoldSet
    PROVE  Supplied(x) \in Kept(x)
BY DEF Supplied, Underwriters, Restrict, HoldSet, Kept

LEMMA DividedType ==
    ASSUME NEW x \in HoldSet, NEW d, NEW kept \in Kept(x), HeldAmount(x) # 0
    PROVE  Divided(x, Decomposed(x, d), kept) \in HoldSet
<1> DEFINE p == Decomposed(x, d)
           h == p.routes
           share == [u \in Underwriters(x) |-> Allocated(From(h, u), kept[u], Rank(From(h, u)))]
           total == HeldAmount(x)
           keep == Sum(kept)
           carried == [r \in DOMAIN h |-> share[r[1]][r]]
           edges == [a \in Arcs |-> (2 * x.edges[a] * keep + total) \div (2 * total)]
           draws == [u \in Members |-> IF u \in Underwriters(x) THEN kept[u] ELSE 0]
<1>1. h \in FlowSet /\ \A r \in DOMAIN h : r[1] \in Underwriters(x)
  BY DecomposedType
<1>2. Divided(x, p, kept) = IF p.flow THEN Held(carried) ELSE [edges |-> edges, supply |-> draws]
  BY DEF Divided
<1>3. Held(carried) \in HoldSet
  <2>1. ASSUME NEW r \in DOMAIN h
        PROVE  share[r[1]][r] \in Nat
    <3> DEFINE u == r[1]
               D == {s \in DOMAIN h : s[1] = u}
    <3>1. u \in Underwriters(x) /\ kept[u] \in Nat
      BY <1>1 DEF Kept
    <3>2. From(h, u) \in [D -> Nat] /\ IsFiniteSet(D)
      <4>1. D \in SUBSET DOMAIN h
        OBVIOUS
      <4>2. From(h, u) = Restrict(h, D)
        BY DEF From
      <4> HIDE DEF D, h
      <4> QED  BY <1>1, <4>1, <4>2, FlowTypes
    <3>3. Allocated(From(h, u), kept[u], Rank(From(h, u))) \in [D -> Nat]
      <4> HIDE DEF D, h, u
      <4> QED  BY <3>1, <3>2, SharesType DEF Allocated
    <3>4. share[u] = Allocated(From(h, u), kept[u], Rank(From(h, u)))
      BY <3>1
    <3>5. r \in D
      OBVIOUS
    <3> HIDE DEF share, D, h
    <3> QED  BY <3>3, <3>4, <3>5
  <2>2. carried \in [DOMAIN h -> Nat]
    <3> HIDE DEF share, h
    <3> QED  BY <2>1
  <2>3. carried \in FlowSet
    <3> HIDE DEF carried, h
    <3> QED  BY <1>1, <2>2, FlowTypes DEF FlowSet
  <2> HIDE DEF carried
  <2> QED  BY <2>3, HeldType
<1>4. [edges |-> edges, supply |-> draws] \in HoldSet
  <2>1. keep \in Nat
    BY HeldAmountType, MembersAssumption, FS_Subset, SumIsInNat DEF Kept
  <2>2. total \in Nat \ {0}
    BY HeldAmountType
  <2>3. ASSUME NEW a \in Arcs
        PROVE  edges[a] \in Nat
    <3>1. x.edges[a] \in Nat
      BY DEF HoldSet
    <3> HIDE DEF keep, total
    <3>2. 2 * x.edges[a] \in Nat
      BY <3>1
    <3>3. 2 * x.edges[a] * keep \in Nat
      BY <2>1, <3>2, ProductIsNatural
    <3>4. 2 * x.edges[a] * keep + total \in Nat /\ 2 * total \in Nat \ {0}
      BY <2>2, <3>3
    <3>5. (2 * x.edges[a] * keep + total) \div (2 * total) \in Nat
      BY <3>4, QuotientIsNatural
    <3> QED  BY <3>5
  <2>4. draws \in [Members -> Nat]
    BY DEF Kept
  <2>5. edges \in [Arcs -> Nat]
    BY <2>3
  <2> HIDE DEF edges, draws
  <2> QED  BY <2>4, <2>5 DEF HoldSet
<1> HIDE DEF carried, edges, draws
<1> QED  BY <1>2, <1>3, <1>4

LEMMA PieceType ==
    ASSUME NEW x \in HoldSet, NEW d, NEW u \in Underwriters(x)
    PROVE  Piece(x, d, u) \in HoldSet
<1> DEFINE p == Decomposed(x, d)
           edges == [a \in Arcs |-> Shares(Supplied(x), x.edges[a], Id(x), FALSE)[u]]
           draws == [m \in Members |-> IF m = u THEN x.supply[u] ELSE 0]
<1>1. Piece(x, d, u) = IF p.flow THEN Held(From(p.routes, u)) ELSE [edges |-> edges, supply |-> draws]
  BY DEF Piece, PartOf
<1>2. Held(From(p.routes, u)) \in HoldSet
  <2>1. From(p.routes, u) \in FlowSet
    BY DecomposedType, FlowTypes DEF From
  <2> HIDE DEF p
  <2> QED  BY <2>1, HeldType
<1>3. edges \in [Arcs -> Nat]
  <2> SUFFICES ASSUME NEW a \in Arcs
               PROVE  Shares(Supplied(x), x.edges[a], Id(x), FALSE)[u] \in Nat
    OBVIOUS
  <2>1. x.edges[a] \in Nat /\ IsFiniteSet(Underwriters(x))
    BY HeldAmountType DEF HoldSet
  <2>2. Shares(Supplied(x), x.edges[a], Id(x), FALSE) \in [Underwriters(x) -> Nat]
    BY <2>1, SuppliedType, SharesType DEF Kept
  <2> QED  BY <2>2
<1>4. draws \in [Members -> Nat]
  BY DEF HoldSet, Underwriters
<1> HIDE DEF edges, draws
<1> QED  BY <1>1, <1>2, <1>3, <1>4 DEF HoldSet

-----------------------------------------------------------------------------
(* Orders, and the routes in order *)

Orders(R, S) ==
    /\ \A x, y \in S : x = y \/ <<x, y>> \in R \/ <<y, x>> \in R
    /\ \A x, y, z \in S : <<x, y>> \in R /\ <<y, z>> \in R => <<x, z>> \in R

LEMMA LeastOfOrder ==
    ASSUME NEW S, IsFiniteSet(S), S # {}, NEW R, Orders(R, S)
    PROVE  \E x \in S : \A y \in S : y = x \/ <<x, y>> \in R
<1> DEFINE P == {s \in SUBSET S : s # {} => \E x \in s : \A y \in s : y = x \/ <<x, y>> \in R}
<1>1. {} \in P
  OBVIOUS
<1>2. ASSUME NEW s \in SUBSET S, NEW v \in S \ s, s \in P
      PROVE  s \cup {v} \in P
  <2>1. CASE s = {}
    BY <2>1
  <2>2. CASE s # {}
    <3>1. PICK x \in s : \A y \in s : y = x \/ <<x, y>> \in R
      BY <1>2, <2>2
    <3>2. <<x, v>> \in R \/ <<v, x>> \in R
      BY <1>2 DEF Orders
    <3>3. <<v, x>> \in R => \A y \in s : <<v, y>> \in R
      BY <1>2, <3>1 DEF Orders
    <3> QED  BY <3>1, <3>2, <3>3
  <2> QED  BY <2>1, <2>2
<1>3. S \in P
  <2> HIDE DEF P
  <2> QED  BY <1>1, <1>2, SetInduction
<1> QED  BY <1>3

LEMMA EntryOfSeq ==
    ASSUME NEW S, NEW s \in Seq(S), NEW i \in 1..Len(s)
    PROVE  s[i] \in S
OBVIOUS

LEMMA WithinBoth ==
    \A x, y \in Nat : \A i \in 1..Less(x, y) : i \in Nat /\ 1 <= i /\ i <= x /\ i <= y
BY DEF Less

LEMMA RouteTransitive ==
    ASSUME NEW r \in Seq(Nat), NEW s \in Seq(Nat), NEW t \in Seq(Nat),
           RouteBefore(r, s), RouteBefore(s, t)
    PROVE  RouteBefore(r, t)
<1>1. PICK i \in 1..Less(Len(r), Len(s)) : r[i] < s[i] /\ \A k \in 1..i - 1 : r[k] = s[k]
  BY DEF RouteBefore
<1>2. PICK j \in 1..Less(Len(s), Len(t)) : s[j] < t[j] /\ \A k \in 1..j - 1 : s[k] = t[k]
  BY DEF RouteBefore
<1> DEFINE k == Less(i, j)
<1>11. Len(r) \in Nat /\ Len(s) \in Nat /\ Len(t) \in Nat
  OBVIOUS
<1>12. i \in Nat /\ 1 <= i /\ i <= Len(r) /\ i <= Len(s)
  BY ONLY <1>11, i \in 1..Less(Len(r), Len(s)), WithinBoth
<1>13. j \in Nat /\ 1 <= j /\ j <= Len(s) /\ j <= Len(t)
  BY ONLY <1>11, j \in 1..Less(Len(s), Len(t)), WithinBoth
<1>3. /\ i \in Nat /\ 1 <= i /\ i <= Len(r) /\ i <= Len(s)
      /\ j \in Nat /\ 1 <= j /\ j <= Len(s) /\ j <= Len(t)
  BY <1>12, <1>13
<1>4. k \in 1..Less(Len(r), Len(t)) /\ k <= i /\ k <= j
  BY <1>3 DEF Less
<1>5. r[k] \in Nat /\ s[k] \in Nat /\ t[k] \in Nat
  <2>1. k \in Int /\ 1 <= k
    <3> DEFINE m == Less(Len(r), Len(t))
    <3> HIDE DEF k, m
    <3> QED  BY <1>4 DEF m
  <2> HIDE DEF k
  <2>2. k \in 1..Len(r) /\ k \in 1..Len(s) /\ k \in 1..Len(t)
    BY <1>3, <1>4, <2>1
  <2>3. r[k] \in Nat
    BY <2>2, EntryOfSeq
  <2>4. s[k] \in Nat
    BY <2>2, EntryOfSeq
  <2>5. t[k] \in Nat
    BY <2>2, EntryOfSeq
  <2> QED  BY <2>3, <2>4, <2>5
<1>6. r[k] < t[k]
  <2>1. CASE i < j
    <3>1. k = i /\ i \in 1..j - 1
      BY <1>3, <2>1 DEF Less
    <3> HIDE DEF k
    <3> QED  BY <1>1, <1>2, <1>5, <3>1
  <2>2. CASE j < i
    <3>1. k = j /\ j \in 1..i - 1
      BY <1>3, <2>2 DEF Less
    <3> HIDE DEF k
    <3> QED  BY <1>1, <1>2, <1>5, <3>1
  <2>3. CASE i = j
    <3>1. k = j /\ k = i
      BY <1>3, <2>3 DEF Less
    <3> HIDE DEF k
    <3> QED  BY <1>1, <1>2, <1>5, <3>1
  <2> QED  BY <1>3, <2>1, <2>2, <2>3
<1>7. \A m \in 1..k - 1 : r[m] = t[m]
  <2> SUFFICES ASSUME NEW m \in 1..k - 1
               PROVE  r[m] = t[m]
    OBVIOUS
  <2>1. m \in 1..i - 1 /\ m \in 1..j - 1
    <3> HIDE DEF k
    <3>1. k \in Nat
      BY <1>4
    <3> QED  BY <1>3, <1>4, <3>1
  <2> HIDE DEF k
  <2> QED  BY <1>1, <1>2, <2>1
<1> HIDE DEF k
<1> QED  BY <1>4, <1>6, <1>7 DEF RouteBefore

Begins(r, s) == Len(r) < Len(s) /\ \A i \in 1..Len(r) : r[i] = s[i]

LEMMA RoutesPart ==
    ASSUME NEW r \in Seq(Nat), NEW s \in Seq(Nat), ~Begins(r, s), ~Begins(s, r)
    PROVE  r = s \/ RouteBefore(r, s) \/ RouteBefore(s, r)
<1> DEFINE n == Less(Len(r), Len(s))
           apart == {i \in 1..n : r[i] # s[i]}
<1>1. /\ r \in Seq(Nat) /\ Len(r) \in Nat /\ s \in Seq(Nat) /\ Len(s) \in Nat
  OBVIOUS
<1>2. n \in Nat /\ n <= Len(r) /\ n <= Len(s) /\ (n = Len(r) \/ n = Len(s))
  BY <1>1 DEF Less
<1>3. n = Less(Len(r), Len(s)) /\ n = Less(Len(s), Len(r))
  BY <1>1 DEF Less
<1> HIDE DEF n
<1>4. CASE apart = {}
  <2>1. \A i \in 1..n : r[i] = s[i]
    BY <1>4
  <2>2. CASE Len(r) = Len(s)
    <3>1. n = Len(r) /\ n = Len(s)
      BY <1>2, <2>2
    <3>2. r \in [1..n -> Nat] /\ s \in [1..n -> Nat]
      <4>1. r \in [1..Len(r) -> Nat] /\ s \in [1..Len(s) -> Nat]
        OBVIOUS
      <4> QED  BY <3>1, <4>1
    <3>3. r = [i \in 1..n |-> r[i]] /\ s = [i \in 1..n |-> s[i]]
      BY <3>2
    <3>4. r = s
      BY <2>1, <3>3
    <3> QED  BY <3>4
  <2>3. CASE Len(r) < Len(s)
    <3>1. n = Len(r)
      BY <1>1, <1>2, <2>3
    <3> QED  BY <2>1, <2>3, <3>1 DEF Begins
  <2>4. CASE Len(s) < Len(r)
    <3>1. n = Len(s)
      BY <1>1, <1>2, <2>4
    <3>2. \A i \in 1..Len(s) : s[i] = r[i]
      BY <2>1, <3>1
    <3> QED  BY <2>4, <3>2 DEF Begins
  <2> QED  BY <1>1, <2>2, <2>3, <2>4
<1>5. CASE apart # {}
  <2>1. PICK i \in apart : \A j \in apart : i <= j
    <3>1. apart \subseteq Nat
      OBVIOUS
    <3> HIDE DEF apart
    <3> QED  BY <1>5, <3>1, LeastNumber
  <2>2. i \in 1..n /\ r[i] \in Nat /\ s[i] \in Nat /\ r[i] # s[i]
    <3>1. i \in 1..Len(r) /\ i \in 1..Len(s)
      BY <1>1, <1>2
    <3> QED  BY <1>1, <3>1
  <2>3. \A j \in 1..i - 1 : r[j] = s[j]
    <3> SUFFICES ASSUME NEW j \in 1..i - 1, r[j] # s[j]
                 PROVE  FALSE
      OBVIOUS
    <3>1. j \in 1..n /\ j < i
      BY <1>2, <2>2
    <3>2. i <= j
      BY <2>1, <3>1
    <3> QED  BY <2>2, <3>1, <3>2
  <2>4. r[i] < s[i] \/ s[i] < r[i]
    BY <2>2
  <2> HIDE DEF apart
  <2> QED  BY <1>3, <2>2, <2>3, <2>4 DEF RouteBefore
<1> QED  BY <1>4, <1>5

-----------------------------------------------------------------------------
(* What a hold is divided into is never more than the part asked for *)

Ahead(R, S, x) == {y \in S : <<y, x>> \in R}

\* In an order everyone has a place of their own.
LEMMA PlacesDiffer ==
    ASSUME NEW S, IsFiniteSet(S), NEW R, Orders(R, S), \A x \in S : <<x, x>> \notin R
    PROVE  /\ \A x \in S : Cardinality(Ahead(R, S, x)) \in Nat
           /\ \A x, y \in S : x # y => Cardinality(Ahead(R, S, x)) # Cardinality(Ahead(R, S, y))
<1>1. ASSUME NEW x \in S
      PROVE  IsFiniteSet(Ahead(R, S, x)) /\ Cardinality(Ahead(R, S, x)) \in Nat
  <2>1. Ahead(R, S, x) \subseteq S
    BY DEF Ahead
  <2> QED  BY <2>1, FS_Subset, FS_CardinalityType
<1>2. ASSUME NEW x \in S, NEW y \in S, <<x, y>> \in R
      PROVE  Cardinality(Ahead(R, S, x)) < Cardinality(Ahead(R, S, y))
  <2> DEFINE a == Ahead(R, S, x)
             b == Ahead(R, S, y)
  <2>1. x \notin a /\ a \cup {x} \subseteq b
    BY <1>2 DEF Ahead, Orders
  <2>2. IsFiniteSet(a) /\ IsFiniteSet(b) /\ Cardinality(a) \in Nat /\ Cardinality(b) \in Nat
    BY <1>1
  <2> HIDE DEF a, b
  <2>3. Cardinality(a \cup {x}) = Cardinality(a) + 1
    BY <2>1, <2>2, FS_AddElement
  <2>4. Cardinality(a \cup {x}) <= Cardinality(b)
    BY <2>1, <2>2, FS_Subset
  <2>5. Cardinality(a) < Cardinality(b)
    BY <2>2, <2>3, <2>4
  <2> QED  BY <2>5 DEF a, b
<1>3. ASSUME NEW x \in S, NEW y \in S, x # y
      PROVE  Cardinality(Ahead(R, S, x)) # Cardinality(Ahead(R, S, y))
  <2>1. <<x, y>> \in R \/ <<y, x>> \in R
    BY <1>3 DEF Orders
  <2>2. /\ <<x, y>> \in R => Cardinality(Ahead(R, S, x)) < Cardinality(Ahead(R, S, y))
        /\ <<y, x>> \in R => Cardinality(Ahead(R, S, y)) < Cardinality(Ahead(R, S, x))
    BY <1>2
  <2>3. Cardinality(Ahead(R, S, x)) \in Nat /\ Cardinality(Ahead(R, S, y)) \in Nat
    BY <1>1
  <2> QED  BY <2>1, <2>2, <2>3
<1> QED  BY <1>1, <1>3

\* Of them e have fewer than e ahead, when there are as many.
LEMMA FewAreFirst ==
    ASSUME NEW S, IsFiniteSet(S), NEW R, Orders(R, S), \A x \in S : <<x, x>> \notin R, NEW e \in Nat
    PROVE  LET first == {x \in S : Cardinality(Ahead(R, S, x)) < e}
           IN /\ IsFiniteSet(first) /\ Cardinality(first) \in Nat /\ Cardinality(first) <= e
              /\ e <= Cardinality(S) => Cardinality(first) = e
<1> DEFINE first == {x \in S : Cardinality(Ahead(R, S, x)) < e}
           place == [x \in first |-> Cardinality(Ahead(R, S, x))]
<1>1. \A x \in first : x \in S /\ Cardinality(Ahead(R, S, x)) \in 0..e - 1
  BY PlacesDiffer
<1>2. \A x, y \in first : x # y => Cardinality(Ahead(R, S, x)) # Cardinality(Ahead(R, S, y))
  BY PlacesDiffer
<1> HIDE DEF first
<1>3. place \in Injection(first, 0..e - 1)
  BY <1>1, <1>2 DEF Injection, IsInjective
<1> HIDE DEF place
<1>4. IsFiniteSet(0..e - 1) /\ Cardinality(0..e - 1) = e
  <2>1. 0 \in Int /\ e - 1 \in Int
    OBVIOUS
  <2> QED  BY <2>1, FS_Interval
<1>5. IsFiniteSet(first) /\ Cardinality(first) <= e
  BY <1>3, <1>4, FS_Injection
<1>6. Cardinality(first) \in Nat /\ Cardinality(S) \in Nat
  BY <1>5, FS_CardinalityType
<1>7. ASSUME e <= Cardinality(S)
      PROVE  Cardinality(first) = e
  <2> DEFINE n == Cardinality(S)
             last == S \ first
             after == [x \in last |-> Cardinality(Ahead(R, S, x)) - e]
  <2>1. ASSUME NEW x \in S
        PROVE  Cardinality(Ahead(R, S, x)) \in Nat /\ Cardinality(Ahead(R, S, x)) <= n - 1
    <3>1. Ahead(R, S, x) \subseteq S \ {x}
      BY DEF Ahead
    <3>2. IsFiniteSet(S \ {x}) /\ Cardinality(S \ {x}) = n - 1
      BY FS_RemoveElement
    <3>3. Cardinality(Ahead(R, S, x)) <= n - 1
      BY <3>1, <3>2, FS_Subset
    <3> QED  BY <3>3, PlacesDiffer
  <2>2. \A x \in last : x \in S /\ Cardinality(Ahead(R, S, x)) - e \in 0..n - e - 1
    <3> SUFFICES ASSUME NEW x \in last
                 PROVE  x \in S /\ Cardinality(Ahead(R, S, x)) - e \in 0..n - e - 1
      OBVIOUS
    <3>1. x \in S /\ ~(Cardinality(Ahead(R, S, x)) < e)
      BY DEF first
    <3> QED  BY <1>6, <2>1, <3>1
  <2>3. \A x, y \in last : x # y => Cardinality(Ahead(R, S, x)) - e # Cardinality(Ahead(R, S, y)) - e
    <3> SUFFICES ASSUME NEW x \in last, NEW y \in last, x # y
                 PROVE  Cardinality(Ahead(R, S, x)) - e # Cardinality(Ahead(R, S, y)) - e
      OBVIOUS
    <3>1. Cardinality(Ahead(R, S, x)) # Cardinality(Ahead(R, S, y))
      BY PlacesDiffer
    <3>2. Cardinality(Ahead(R, S, x)) \in Nat /\ Cardinality(Ahead(R, S, y)) \in Nat
      BY <2>1
    <3> QED  BY <3>1, <3>2
  <2>4. IsFiniteSet(last) /\ first \subseteq S /\ last = S \ first
    <3>1. first \subseteq S
      BY DEF first
    <3> QED  BY <3>1, FS_Difference
  <2> HIDE DEF last
  <2>5. after \in Injection(last, 0..n - e - 1)
    BY <2>2, <2>3 DEF Injection, IsInjective
  <2> HIDE DEF after
  <2>6. IsFiniteSet(0..n - e - 1) /\ Cardinality(0..n - e - 1) = n - e
    <3>1. 0 \in Int /\ n - e - 1 \in Int /\ n - e - 1 - 0 + 1 = n - e /\ n - e \in Nat
      BY <1>6, <1>7
    <3> HIDE DEF n
    <3>2. n - e = 0 => 0..n - e - 1 = {}
      BY <3>1
    <3> QED  BY <3>1, <3>2, FS_Interval, FS_EmptySet
  <2>7. Cardinality(last) <= n - e
    BY <2>5, <2>6, FS_Injection
  <2>8. Cardinality(last) = Cardinality(S) - Cardinality(S \cap first) /\ S \cap first = first
    BY <2>4, FS_Difference
  <2>9. Cardinality(last) \in Nat /\ Cardinality(last) = Cardinality(S) - Cardinality(first)
    BY <2>4, <2>8, FS_CardinalityType
  <2> HIDE DEF first
  <2> QED  BY <1>5, <1>6, <1>7, <2>7, <2>9
<1> QED  BY <1>5, <1>6, <1>7 DEF first

LEMMA QuotientFits ==
    ASSUME NEW a \in Nat, NEW t \in Nat \ {0}
    PROVE  /\ a \div t \in Nat /\ (a \div t) * t <= a
           /\ a % t \in Nat
           /\ (a \div t) * t + (a % t) = a
           /\ a % t < t
OBVIOUS

LEMMA ProductGrows ==
    ASSUME NEW x \in Nat, NEW y \in Nat, NEW t \in Nat, x <= y
    PROVE  x * t <= y * t /\ t * x <= t * y
<1>1. y - x \in Nat /\ y * t = x * t + (y - x) * t
  OBVIOUS
<1>2. (y - x) * t \in Nat /\ x * t \in Nat
  BY <1>1, ProductIsNatural
<1>3. t * x = x * t /\ t * y = y * t
  OBVIOUS
<1> QED  BY <1>1, <1>2, <1>3

LEMMA FactorCancels ==
    ASSUME NEW x \in Nat, NEW y \in Nat, NEW t \in Nat \ {0}, x * t <= y * t
    PROVE  x <= y
<1>1. CASE y < x
  <2>1. y + 1 <= x
    BY <1>1
  <2>2. x * t = (y + 1) * t + (x - (y + 1)) * t
    OBVIOUS
  <2>3. x - (y + 1) \in Nat
    BY <2>1
  <2>4. (x - (y + 1)) * t \in Nat
    BY <2>3, ProductIsNatural
  <2>5. (y + 1) * t = y * t + t
    OBVIOUS
  <2>6. y * t \in Nat
    BY ProductIsNatural
  <2> HIDE <1>1
  <2> QED  BY <2>2, <2>4, <2>5, <2>6
<1> QED  BY <1>1

\* Largest remainder first, and no tie in rank: n is shared out, or at most n
\* where no entry may take more than it has.
LEMMA SharesBounded ==
    ASSUME NEW D, IsFiniteSet(D), NEW w \in [D -> Nat], NEW n \in Nat, NEW rank \in [D -> Nat], NEW capped,
           \A j, k \in D : rank[j] = rank[k] => j = k
    PROVE  /\ Sum(Shares(w, n, rank, capped)) <= n
           /\ Sum(w) # 0 /\ (capped => n <= Sum(w)) => Sum(Shares(w, n, rank, capped)) = n
           /\ capped /\ n <= Sum(w) => \A k \in D : Shares(w, n, rank, capped)[k] <= w[k]
<1> DEFINE total == Sum(w)
           q == [k \in DOMAIN w |-> (w[k] * n) \div total]
           rem == [k \in DOMAIN w |-> (w[k] * n) % total]
           may == {k \in DOMAIN w : capped => q[k] < w[k]}
           turn(k) == Cardinality({j \in may : rem[j] > rem[k] \/ (rem[j] = rem[k] /\ rank[j] < rank[k])})
           extra == {k \in may : turn(k) < Minus(n, Sum(q))}
           more == [k \in D |-> IF k \in extra THEN 1 ELSE 0]
           all == [k \in D |-> IF k \in extra THEN q[k] + 1 ELSE q[k]]
<1>1. total \in Nat /\ total = SumFunctionOnSet(w, D)
  BY SumIsInNat, SumIs
<1>2. Shares(w, n, rank, capped) = IF total = 0 THEN w ELSE all
  BY DEF Shares
<1>3. CASE total = 0
  <2>1. \A k \in D : w[k] \in Nat
    OBVIOUS
  <2> HIDE DEF total, all
  <2> QED  BY <1>2, <1>3, <2>1 DEF total
<1>4. CASE total # 0
  <2>1. total \in Nat \ {0} /\ DOMAIN w = D
    BY <1>1, <1>4
  <2>2. ASSUME NEW k \in D
        PROVE  /\ w[k] \in Nat /\ w[k] * n \in Nat
               /\ q[k] \in Nat /\ q[k] * total <= w[k] * n /\ rem[k] \in Nat
               /\ q[k] * total + rem[k] = w[k] * n /\ rem[k] <= total
    <3>1. w[k] \in Nat /\ w[k] * n \in Nat
      BY ProductIsNatural
    <3>2. q[k] = (w[k] * n) \div total /\ rem[k] = (w[k] * n) % total
      BY <2>1
    <3> DEFINE a == w[k] * n
               quotient == a \div total
               left == a % total
    <3> HIDE DEF total, q, rem
    <3>3. a \in Nat
      BY <3>1
    <3>4. q[k] = quotient /\ rem[k] = left
      BY <3>2
    <3>5. /\ quotient \in Nat /\ quotient * total <= a /\ left \in Nat
          /\ quotient * total + left = a /\ left < total
      <4> HIDE DEF a
      <4> QED  BY <2>1, <3>3, QuotientFits
    <3>6. left <= total
      <4> HIDE DEF a, left
      <4> QED  BY <2>1, <3>5
    <3> HIDE DEF quotient, left
    <3> QED  BY <3>1, <3>4, <3>5, <3>6
  <2>3. q = [k \in D |-> q[k]] /\ q \in [D -> Nat] /\ rem \in [D -> Nat]
    <3>1. DOMAIN q = D /\ DOMAIN rem = D /\ q = [k \in DOMAIN q |-> q[k]] /\ rem = [k \in DOMAIN rem |-> rem[k]]
      BY <2>1
    <3> HIDE DEF q, rem
    <3> QED  BY <2>2, <3>1
  <2> HIDE DEF total, q, rem
  <2>19. \A k \in D : k \in may <=> (capped => q[k] < w[k])
    BY <2>1
  <2> DEFINE s == SumFunctionOnSet(q, D)
  <2>4. s \in Nat /\ s = Sum(q)
    BY <2>3, SumIs, SumIsNatural
  <2>5. s <= n
    <3> DEFINE a == [k \in D |-> q[k] * total]
               b == [k \in D |-> w[k] * n]
    <3>1. \A k \in D : a[k] \in Nat /\ b[k] \in Nat /\ a[k] <= b[k]
      BY <2>1, <2>2, ProductIsNatural
    <3>2. \A k \in D : q[k] \in Nat /\ a[k] = q[k] * total /\ w[k] \in Nat /\ b[k] = w[k] * n
      BY <2>2
    <3> HIDE DEF a, b
    <3>3. SumFunctionOnSet(a, D) = s * total
      BY <2>1, <3>2, SumTimes
    <3>4. SumFunctionOnSet(b, D) = total * n
      BY <1>1, <3>2, SumTimes
    <3>5. SumFunctionOnSet(a, D) <= SumFunctionOnSet(b, D)
      BY <3>1, SumMonotone
    <3> HIDE DEF s
    <3>6. total * n = n * total
      BY <2>1
    <3>7. s * total <= n * total
      BY <3>3, <3>4, <3>5, <3>6
    <3> QED  BY <2>1, <2>4, <3>7, FactorCancels
  <2> DEFINE e == Minus(n, Sum(q))
             R == {p \in may \X may : \/ rem[p[1]] > rem[p[2]]
                                      \/ rem[p[1]] = rem[p[2]] /\ rank[p[1]] < rank[p[2]]}
             first == {x \in may : Cardinality(Ahead(R, may, x)) < e}
  <2>6. e \in Nat /\ s + e = n
    <3> HIDE DEF s
    <3>1. e = Minus(n, s)
      BY <2>4
    <3> HIDE DEF e
    <3> QED  BY <2>4, <2>5, <3>1 DEF Minus
  <2>7. may \subseteq D /\ IsFiniteSet(may)
    <3>1. may \subseteq D
      BY <2>1
    <3> HIDE DEF may
    <3> QED  BY <3>1, FS_Subset
  <2>8. \A x, y \in may : <<x, y>> \in R <=> \/ rem[x] > rem[y]
                                             \/ rem[x] = rem[y] /\ rank[x] < rank[y]
    <3> HIDE DEF may
    <3> QED  OBVIOUS
  <2>9. \A x \in may : rem[x] \in Nat /\ rank[x] \in Nat
    BY <2>2, <2>7
  <2>10. extra = first
    <3>1. ASSUME NEW k \in may
          PROVE  turn(k) = Cardinality(Ahead(R, may, k))
      <4>1. {j \in may : rem[j] > rem[k] \/ (rem[j] = rem[k] /\ rank[j] < rank[k])} = Ahead(R, may, k)
        <5> HIDE DEF may, R
        <5> QED  BY <2>8 DEF Ahead
      <4> QED  BY <4>1
    <3> HIDE DEF may, R, e
    <3> QED  BY <3>1 DEF e
  <2> HIDE DEF may, R, e
  <2>11. Orders(R, may) /\ \A x \in may : <<x, x>> \notin R
    <3>1. ASSUME NEW x \in may, NEW y \in may, x # y
          PROVE  <<x, y>> \in R \/ <<y, x>> \in R
      <4>1. rank[x] # rank[y]
        BY <2>7, <3>1
      <4>2. rem[x] \in Nat /\ rem[y] \in Nat /\ rank[x] \in Nat /\ rank[y] \in Nat
        BY <2>9
      <4>3. \/ rem[x] > rem[y] \/ (rem[x] = rem[y] /\ rank[x] < rank[y])
            \/ rem[y] > rem[x] \/ (rem[y] = rem[x] /\ rank[y] < rank[x])
        BY <4>1, <4>2
      <4> QED  BY <2>8, <4>3
    <3>2. \A x, y, z \in may : <<x, y>> \in R /\ <<y, z>> \in R => <<x, z>> \in R
      BY <2>8, <2>9
    <3>3. \A x \in may : <<x, x>> \notin R
      BY <2>8, <2>9
    <3> QED  BY <3>1, <3>2, <3>3 DEF Orders
  <2>12. IsFiniteSet(first) /\ Cardinality(first) \in Nat /\ Cardinality(first) <= e
    BY <2>6, <2>7, <2>11, FewAreFirst
  <2>20. ASSUME capped => n <= total
         PROVE  e <= Cardinality(may)
    <3> DEFINE aa == [k \in D |-> q[k] * total]
               bb == [k \in D |-> w[k] * n]
               one == [k \in may |-> 1]
               tot == [k \in may |-> one[k] * total]
               c == Cardinality(may)
    <3>1. ASSUME NEW k \in D
          PROVE  /\ aa[k] = q[k] * total /\ bb[k] = w[k] * n /\ bb[k] = aa[k] + rem[k]
                 /\ w[k] \in Nat /\ q[k] \in Nat /\ aa[k] \in Nat /\ bb[k] \in Nat /\ rem[k] \in Nat
                 /\ rem[k] <= total
      <4>1. q[k] * total \in Nat
        BY <2>1, <2>2, ProductIsNatural
      <4> QED  BY <2>2, <4>1
    <3>2. ASSUME NEW k \in D \ may
          PROVE  rem[k] = 0
      <4>1. capped /\ ~(q[k] < w[k])
        BY <2>19
      <4>2. w[k] <= q[k]
        BY <2>2, <4>1
      <4>3. w[k] * total <= q[k] * total /\ w[k] * n <= w[k] * total
        <5>1. w[k] \in Nat /\ q[k] \in Nat /\ total \in Nat /\ n <= total
          BY <2>1, <2>2, <2>20, <4>1
        <5> QED  BY <4>2, <5>1, ProductGrows
      <4>4. w[k] * total \in Nat /\ q[k] * total \in Nat /\ w[k] * n \in Nat
        BY <2>1, <2>2, ProductIsNatural
      <4>5. q[k] * total + rem[k] = w[k] * n /\ rem[k] \in Nat
        BY <2>2
      <4> DEFINE y1 == q[k] * total
                 y2 == w[k] * total
                 y3 == w[k] * n
                 y4 == rem[k]
      <4>6. y2 <= y1 /\ y3 <= y2 /\ y1 + y4 = y3 /\ y1 \in Nat /\ y2 \in Nat /\ y3 \in Nat /\ y4 \in Nat
        BY <4>3, <4>4, <4>5
      <4> HIDE DEF y1, y2, y3, y4
      <4>7. y4 = 0
        BY ONLY <4>6
      <4> QED  BY <4>7 DEF y4
    <3> HIDE DEF aa, bb
    <3>3. SumFunctionOnSet(aa, D) = s * total
      BY <2>1, <3>1, SumTimes
    <3>4. SumFunctionOnSet(bb, D) = total * n
      BY <1>1, <3>1, SumTimes
    <3>5. SumFunctionOnSet(bb, D) = SumFunctionOnSet(aa, D) + SumFunctionOnSet(rem, D)
      BY <3>1, SumPlus
    <3>6. SumFunctionOnSet(rem, D) = SumFunctionOnSet(rem, may)
      BY <2>7, <3>1, <3>2, SumOnSupport
    <3>7. \A k \in may : one[k] = 1 /\ one[k] \in Nat /\ tot[k] = one[k] * total
      OBVIOUS
    <3>8. \A k \in may : tot[k] = total
      BY <2>1
    <3>9. \A k \in may : rem[k] \in Nat /\ tot[k] \in Nat /\ rem[k] <= tot[k]
      BY <2>1, <2>7, <3>1, <3>8
    <3> HIDE DEF one, tot
    <3>10. SumFunctionOnSet(one, may) = c
      BY <2>7, <3>7, SumOfOnes
    <3>11. SumFunctionOnSet(tot, may) = c * total
      BY <2>1, <2>7, <3>7, <3>10, SumTimes
    <3>12. SumFunctionOnSet(rem, may) <= c * total
      BY <2>7, <3>9, <3>11, SumMonotone
    <3>13. c \in Nat
      BY <2>7, FS_CardinalityType
    <3> HIDE DEF c, s
    <3>14. total * n = s * total + e * total
      <4>1. total * n = total * (s + e)
        BY <2>6
      <4> QED  BY <2>1, <2>4, <2>6, <4>1
    <3> DEFINE z1 == s * total
               z2 == e * total
               z3 == c * total
               z4 == SumFunctionOnSet(rem, may)
    <3>15. z1 \in Nat /\ z2 \in Nat /\ z3 \in Nat
      BY <2>1, <2>4, <2>6, <3>13, ProductIsNatural
    <3>16. z1 + z2 = z1 + z4 /\ z4 <= z3
      BY <3>3, <3>4, <3>5, <3>6, <3>12, <3>14
    <3>17. z4 \in Nat
      BY <2>7, <3>9, SumIsNatural
    <3> HIDE DEF z1, z2, z3, z4
    <3>18. z2 <= z3
      BY <3>15, <3>16, <3>17
    <3>19. e <= c
      BY <2>1, <2>6, <3>13, <3>18, FactorCancels DEF z2, z3
    <3> QED  BY <3>19 DEF c
  <2>21. (capped => n <= total) => Cardinality(first) = e
    BY <2>6, <2>7, <2>11, <2>20, FewAreFirst
  <2>13. first \subseteq D
    BY <2>7
  <2> HIDE DEF first, extra
  <2>14. SumFunctionOnSet(more, D) = Cardinality(first)
    <3>1. \A k \in D : more[k] \in Nat
      OBVIOUS
    <3>2. \A k \in D \ first : more[k] = 0
      BY <2>10
    <3>3. \A k \in first : more[k] = 1
      BY <2>10, <2>13
    <3> HIDE DEF more
    <3>4. SumFunctionOnSet(more, D) = SumFunctionOnSet(more, first)
      BY <2>13, <3>1, <3>2, SumOnSupport
    <3>5. SumFunctionOnSet(more, first) = Cardinality(first)
      BY <2>12, <3>3, SumOfOnes
    <3> QED  BY <3>4, <3>5
  <2>15. \A k \in D : q[k] \in Nat /\ more[k] \in Nat /\ all[k] = q[k] + more[k]
    BY <2>2
  <2>16. Sum(all) = SumFunctionOnSet(all, D)
    <3>1. DOMAIN all = D
      OBVIOUS
    <3> HIDE DEF all
    <3> QED  BY <3>1, SumIs
  <2>22. ASSUME capped, n <= total, NEW k \in D
         PROVE  all[k] <= w[k]
    <3>1. q[k] <= w[k]
      <4>1. w[k] * n <= w[k] * total /\ w[k] * n \in Nat /\ w[k] * total \in Nat /\ q[k] * total \in Nat
        BY <2>1, <2>2, <2>22, ProductGrows, ProductIsNatural
      <4>2. q[k] * total <= w[k] * n
        BY <2>2
      <4> DEFINE y1 == q[k] * total
                 y2 == w[k] * total
                 y3 == w[k] * n
      <4>3. y1 <= y3 /\ y3 <= y2 /\ y1 \in Nat /\ y2 \in Nat /\ y3 \in Nat
        BY <4>1, <4>2
      <4> HIDE DEF y1, y2, y3
      <4>4. y1 <= y2
        BY <4>3
      <4>5. w[k] \in Nat /\ q[k] \in Nat
        BY <2>2
      <4> QED  BY <2>1, <4>4, <4>5, FactorCancels DEF y1, y2
    <3>2. k \in first => q[k] < w[k]
      BY <2>19, <2>22 DEF first
    <3>3. all[k] = IF k \in first THEN q[k] + 1 ELSE q[k]
      BY <2>10
    <3>4. w[k] \in Nat /\ q[k] \in Nat
      BY <2>2
    <3> HIDE DEF all
    <3> QED  BY <3>1, <3>2, <3>3, <3>4
  <2> HIDE DEF all, more
  <2>17. SumFunctionOnSet(all, D) = s + SumFunctionOnSet(more, D)
    BY <2>15, SumPlus
  <2> HIDE DEF s
  <2>18. Sum(all) <= n /\ ((capped => n <= total) => Sum(all) = n)
    BY <2>4, <2>6, <2>12, <2>14, <2>16, <2>17, <2>21
  <2>23. Shares(w, n, rank, capped) = all
    BY <1>2, <1>4
  <2> QED  BY <2>18, <2>22, <2>23 DEF total
<1> QED  BY <1>3, <1>4

\* What a flow holds is what its routes carry.
LEMMA HeldOf ==
    ASSUME NEW h \in FlowSet, \A r \in DOMAIN h : r[1] \in Members
    PROVE  HeldAmount(Held(h)) = Sum(h)
<1> DEFINE D == DOMAIN h
           g == [r \in D |-> r[1]]
           w == [u \in Members |-> Drawn(h, u)]
           c == ByClass(h, g, D, Members)
<1>1. IsFiniteSet(D) /\ IsFiniteSet(Members) /\ \A r \in D : h[r] \in Nat /\ g[r] \in Members
  BY FlowTypes, MembersAssumption
<1>2. ASSUME NEW u \in Members
      PROVE  w[u] \in Nat /\ w[u] = c[u]
  <2>1. Class(D, g, u) = Starting(h, u)
    BY DEF Class, Starting
  <2>2. c[u] = SumFunctionOnSet(h, Class(D, g, u))
    BY DEF ByClass
  <2>3. Drawn(h, u) = SumFunctionOnSet(h, Starting(h, u)) /\ Drawn(h, u) \in Nat
    BY DrawnIs
  <2> HIDE DEF c
  <2> QED  BY <2>1, <2>2, <2>3
<1>3. HeldAmount(Held(h)) = SumFunctionOnSet(w, Members)
  <2>1. Held(h).supply = w /\ DOMAIN w = Members
    BY DEF Held
  <2> HIDE DEF w
  <2> QED  BY <2>1, SumIs DEF HeldAmount
<1>4. SumFunctionOnSet(w, Members) = SumFunctionOnSet(c, Members)
  <2> HIDE DEF w, c
  <2> QED  BY <1>1, <1>2, SumCongruent
<1>5. SumFunctionOnSet(c, Members) = SumFunctionOnSet(h, D)
  <2> HIDE DEF D, g
  <2> QED  BY <1>1, SumByClass
<1> QED  BY <1>3, <1>4, <1>5, SumIs

\* Where no sequence begins another, each has its own rank.
LEMMA RanksApart ==
    ASSUME NEW h, IsFiniteSet(DOMAIN h), \A r \in DOMAIN h : r \in Seq(Nat),
           \A r, s \in DOMAIN h : ~Begins(r, s)
    PROVE  /\ Rank(h) \in [DOMAIN h -> Nat]
           /\ \A r, s \in DOMAIN h : Rank(h)[r] = Rank(h)[s] => r = s
           /\ \A r \in DOMAIN h : Rank(h)[r] < Cardinality(DOMAIN h)
<1> DEFINE D == DOMAIN h
           R == {z \in D \X D : RouteBefore(z[1], z[2])}
<1>1. IsFiniteSet(D)
  OBVIOUS
<1>2. \A r \in D : r \in Seq(Nat) /\ Len(r) \in Nat
  OBVIOUS
<1>3. \A r, s \in D : ~Begins(r, s)
  OBVIOUS
<1> HIDE DEF D
<1>4. \A r, s \in D : <<r, s>> \in R <=> RouteBefore(r, s)
  OBVIOUS
<1> HIDE DEF R
<1>5. Orders(R, D)
  <2>1. \A r, s \in D : r = s \/ <<r, s>> \in R \/ <<s, r>> \in R
    <3> SUFFICES ASSUME NEW r \in D, NEW s \in D
                 PROVE  r = s \/ RouteBefore(r, s) \/ RouteBefore(s, r)
      BY <1>4
    <3> QED  BY <1>2, <1>3, RoutesPart
  <2>2. ASSUME NEW r \in D, NEW s \in D, NEW t \in D, <<r, s>> \in R, <<s, t>> \in R
        PROVE  <<r, t>> \in R
    <3>1. RouteBefore(r, s) /\ RouteBefore(s, t)
      BY <1>4, <2>2
    <3>2. RouteBefore(r, t)
      BY <1>2, <3>1, RouteTransitive
    <3> QED  BY <1>4, <3>2
  <2> QED  BY <2>1, <2>2 DEF Orders
<1>6. \A r \in D : <<r, r>> \notin R
  <2> SUFFICES ASSUME NEW r \in D, RouteBefore(r, r)
               PROVE  FALSE
    BY <1>4
  <2>1. PICK i \in 1..Less(Len(r), Len(r)) : r[i] < r[i]
    BY DEF RouteBefore
  <2>2. i \in 1..Len(r)
    BY <1>2 DEF Less
  <2>3. r[i] \in Nat
    BY <1>2, <2>2, EntryOfSeq
  <2> QED  BY <2>1, <2>3
<1>7. \A r \in D : Rank(h)[r] = Cardinality(Ahead(R, D, r))
  <2> SUFFICES ASSUME NEW r \in D
               PROVE  Rank(h)[r] = Cardinality(Ahead(R, D, r))
    OBVIOUS
  <2>1. Ahead(R, D, r) = {s \in D : RouteBefore(s, r)}
    BY <1>4 DEF Ahead
  <2>2. Rank(h)[r] = Cardinality({s \in D : RouteBefore(s, r)})
    BY DEF Rank, D
  <2> QED  BY <2>1, <2>2
<1>8. /\ \A r \in D : Cardinality(Ahead(R, D, r)) \in Nat
      /\ \A r, s \in D : r # s => Cardinality(Ahead(R, D, r)) # Cardinality(Ahead(R, D, s))
  BY <1>1, <1>5, <1>6, PlacesDiffer
<1>9. Rank(h) \in [D -> Nat]
  <2>1. Rank(h) = [r \in D |-> Rank(h)[r]]
    BY DEF Rank, D
  <2> QED  BY <1>7, <1>8, <2>1
<1>10. ASSUME NEW r \in D
       PROVE  Cardinality(Ahead(R, D, r)) < Cardinality(D)
  <2>1. Ahead(R, D, r) \in SUBSET (D \ {r})
    BY <1>6 DEF Ahead
  <2>2. IsFiniteSet(D \ {r}) /\ Cardinality(D \ {r}) = Cardinality(D) - 1
    BY <1>1, FS_RemoveElement
  <2>3. Cardinality(Ahead(R, D, r)) <= Cardinality(D \ {r})
    BY <2>1, <2>2, FS_Subset
  <2>4. Cardinality(D) \in Nat /\ Cardinality(Ahead(R, D, r)) \in Nat
    BY <1>1, <1>8, FS_CardinalityType
  <2> QED  BY <2>2, <2>3, <2>4
<1> QED  BY <1>7, <1>8, <1>9, <1>10 DEF D

\* Of the routes to one debtor none begins another: each has its own rank.
LEMMA RanksDiffer ==
    ASSUME NEW h \in FlowSet, NEW d, \A r \in DOMAIN h : Reaches(r, d)
    PROVE  /\ Rank(h) \in [DOMAIN h -> Nat]
           /\ \A r, s \in DOMAIN h : Rank(h)[r] = Rank(h)[s] => r = s
<1> DEFINE D == DOMAIN h
<1>1. IsFiniteSet(D) /\ D \in SUBSET Seq(Members)
  BY FlowTypes
<1>2. \A r \in D : r \in Seq(Nat) /\ Len(r) \in Nat
  <2> SUFFICES ASSUME NEW r \in D
               PROVE  r \in Seq(Nat) /\ Len(r) \in Nat
    OBVIOUS
  <2>1. r \in Seq(Members)
    BY <1>1
  <2>2. r \in [1..Len(r) -> Members] /\ Len(r) \in Nat
    BY <2>1
  <2>3. r \in [1..Len(r) -> Nat]
    BY <2>2, MembersAssumption
  <2> QED  BY <2>2, <2>3
<1>3. ASSUME NEW r \in D, NEW s \in D
      PROVE  ~Begins(r, s)
  <2>1. SUFFICES ASSUME Begins(r, s)
                 PROVE  FALSE
    OBVIOUS
  <2>2. /\ Len(r) \in Nat /\ Len(s) \in Nat /\ Len(r) >= 1 /\ Len(r) < Len(s)
        /\ r[Len(r)] = d /\ s[Len(s)] = d /\ IsInjective(s) /\ DOMAIN s = 1..Len(s)
    BY <1>2, <2>1 DEF Begins, Reaches, Last
  <2>3. s[Len(r)] = r[Len(r)]
    <3>1. Len(r) \in 1..Len(r)
      BY <2>2
    <3> QED  BY <2>1, <3>1 DEF Begins
  <2>4. Len(r) \in 1..Len(s) /\ Len(s) \in 1..Len(s)
    BY <2>2
  <2>5. Len(r) = Len(s)
    BY <2>2, <2>3, <2>4 DEF IsInjective
  <2> QED  BY <2>2, <2>5
<1> HIDE DEF D
<1> QED  BY <1>1, <1>2, <1>3, RanksApart DEF D

\* An amount within a supply, divided over it: all of it, and no entry above
\* its own.
LEMMA AllocatedKeeps ==
    ASSUME NEW D, IsFiniteSet(D), NEW w \in [D -> Nat], NEW keep \in Nat, NEW rank \in [D -> Nat],
           \A j, k \in D : rank[j] = rank[k] => j = k, keep <= Sum(w)
    PROVE  /\ Allocated(w, keep, rank) \in [D -> Nat] /\ Sum(Allocated(w, keep, rank)) = keep
           /\ \A k \in D : Allocated(w, keep, rank)[k] <= w[k]
<1> DEFINE c == TRUE
           s == Shares(w, keep, rank, c)
<1> HIDE DEF c
<1>1. /\ Sum(s) <= keep /\ (Sum(w) # 0 => Sum(s) = keep)
      /\ \A k \in D : s[k] <= w[k]
  <2>1. c
    BY DEF c
  <2>2. Sum(s) <= keep
    BY SharesBounded
  <2>3. Sum(w) # 0 /\ (c => keep <= Sum(w)) => Sum(s) = keep
    BY SharesBounded
  <2>4. c /\ keep <= Sum(w) => \A k \in D : s[k] <= w[k]
    BY SharesBounded
  <2> HIDE DEF s
  <2> QED  BY <2>1, <2>2, <2>3, <2>4
<1>2. s \in [D -> Nat]
  BY SharesType
<1>3. Allocated(w, keep, rank) = s
  BY DEF Allocated, c
<1>4. Sum(s) \in Nat /\ Sum(w) \in Nat
  <2> HIDE DEF s
  <2> QED  BY <1>2, SumIsInNat
<1>5. Sum(s) = keep
  <2> HIDE DEF s
  <2> QED  BY <1>1, <1>4
<1> HIDE DEF s
<1> QED  BY <1>1, <1>2, <1>3, <1>5

\* What a division along routes leaves on each of them.
Split(x, p, kept) ==
    LET share == [u \in Underwriters(x) |-> Allocated(From(p.routes, u), kept[u], Rank(From(p.routes, u)))]
    IN [r \in DOMAIN p.routes |-> share[r[1]][r]]

\* No route carries more than before, and each underwriter keeps what it was given.
LEMMA SplitFits ==
    ASSUME NEW x \in HoldSet, NEW d, NEW kept \in Kept(x), Decomposed(x, d).flow
    PROVE  LET h == Decomposed(x, d).routes
               s == Split(x, Decomposed(x, d), kept)
           IN /\ s \in FlowSet /\ h \in FlowSet /\ DOMAIN s = DOMAIN h
              /\ \A r \in DOMAIN h : s[r] <= h[r] /\ r[1] \in Members
              /\ \A u \in Members : Drawn(s, u) = IF u \in Underwriters(x) THEN kept[u] ELSE 0
<1> DEFINE p == Decomposed(x, d)
           h == p.routes
           share == [v \in Underwriters(x) |-> Allocated(From(h, v), kept[v], Rank(From(h, v)))]
           carried == Split(x, p, kept)
<1>1. /\ h \in FlowSet /\ IsFiniteSet(DOMAIN h) /\ DOMAIN h \in SUBSET Seq(Members)
      /\ \A r \in DOMAIN h : r[1] \in Underwriters(x) /\ Reaches(r, d)
      /\ \A k \in Places : Load(h, Via(k)) = At(x, k)
  BY DecomposedType, FlowTypes
<1>2. Underwriters(x) \subseteq Members
  BY HeldAmountType
<1>3. DOMAIN carried = DOMAIN h /\ \A r \in DOMAIN h : carried[r] = share[r[1]][r]
  BY DEF Split
<1> HIDE DEF p, carried
<1>4. ASSUME NEW u \in Underwriters(x)
      PROVE  LET D == Starting(h, u)
             IN /\ share[u] \in [D -> Nat] /\ Sum(share[u]) = kept[u]
                /\ \A r \in D : share[u][r] <= h[r]
  <2> DEFINE D == Starting(h, u)
             w == From(h, u)
             n == kept[u]
             rank == Rank(w)
  <2>1. w \in FlowSet /\ DOMAIN w = D /\ w \in [D -> Nat] /\ IsFiniteSet(D)
    <3>1. D \in SUBSET DOMAIN h /\ w = Restrict(h, D)
      BY DEF From, Starting
    <3> HIDE DEF D, w, h
    <3>2. w \in FlowSet /\ DOMAIN w = D
      BY <1>1, <3>1, FlowTypes
    <3> QED  BY <3>2, FlowTypes
  <2>2. \A r \in DOMAIN w : Reaches(r, d)
    <3>1. \A r \in D : r \in DOMAIN h
      BY DEF Starting
    <3> HIDE DEF D, w, h
    <3> QED  BY <1>1, <2>1, <3>1
  <2>3. n \in Nat /\ n <= x.supply[u]
    BY <1>4 DEF Kept
  <2>4. Sum(w) = x.supply[u]
    <3> DEFINE k == <<"supply", u>>
    <3>1. u \in Members /\ k \in Places /\ At(x, k) = x.supply[u]
      BY <1>2, PlaceOf, AtSupply
    <3>2. At(Held(h), k) = Held(h).supply[u]
      BY AtSupply
    <3> HIDE DEF k
    <3>3. At(Held(h), k) = At(x, k)
      BY <1>1, <3>1, HeldAt
    <3>4. Held(h).supply[u] = Drawn(h, u)
      BY <3>1 DEF Held
    <3> HIDE DEF w
    <3> QED  BY <3>1, <3>2, <3>3, <3>4 DEF Drawn, w
  <2>5. \A r \in D : w[r] = h[r]
    BY <1>1, DrawnIs
  <2> HIDE DEF w, D
  <2>6. rank \in [D -> Nat] /\ \A j, k \in D : rank[j] = rank[k] => j = k
    BY <2>1, <2>2, RanksDiffer
  <2> HIDE DEF rank, n
  <2>7. /\ Allocated(w, n, rank) \in [D -> Nat] /\ Sum(Allocated(w, n, rank)) = n
        /\ \A k \in D : Allocated(w, n, rank)[k] <= w[k]
    BY <2>1, <2>3, <2>4, <2>6, AllocatedKeeps
  <2>8. share[u] = Allocated(w, n, rank)
    BY DEF w, n, rank
  <2> HIDE DEF share
  <2> QED  BY <2>5, <2>7, <2>8 DEF D, n
<1> HIDE DEF share, h
<1>5. ASSUME NEW r \in DOMAIN h
      PROVE  carried[r] \in Nat /\ carried[r] <= h[r] /\ r[1] \in Members
  <2>1. r[1] \in Underwriters(x) /\ r \in Starting(h, r[1])
    BY <1>1 DEF Starting
  <2> QED  BY <1>2, <1>3, <1>4, <2>1
<1>6. carried \in FlowSet
  <2>1. carried \in [DOMAIN h -> Nat]
    <3>1. carried = [r \in DOMAIN h |-> carried[r]]
      BY <1>3 DEF carried, Split
    <3> QED  BY <1>5, <3>1
  <2> QED  BY <1>1, <2>1 DEF FlowSet
<1>7. ASSUME NEW u \in Members
      PROVE  Drawn(carried, u) = IF u \in Underwriters(x) THEN kept[u] ELSE 0
  <2> DEFINE D == Starting(h, u)
  <2>1. Starting(carried, u) = D
    BY <1>3 DEF Starting
  <2>2. Drawn(carried, u) = SumFunctionOnSet(carried, D) /\ IsFiniteSet(D)
    BY <1>6, <2>1, DrawnIs
  <2>3. CASE u \notin Underwriters(x)
    <3>1. D = {}
      BY <1>1, <2>3 DEF Starting
    <3> QED  BY <2>2, <2>3, <3>1, SumOfNothing
  <2>4. CASE u \in Underwriters(x)
    <3>1. share[u] \in [D -> Nat] /\ Sum(share[u]) = kept[u]
      BY <1>4, <2>4
    <3>2. ASSUME NEW r \in D
          PROVE  carried[r] = share[u][r] /\ share[u][r] \in Nat
      <4>1. r \in DOMAIN h /\ r[1] = u
        BY DEF Starting
      <4> HIDE DEF D
      <4> QED  BY <1>3, <3>1, <4>1
    <3> HIDE DEF D
    <3>3. SumFunctionOnSet(share[u], D) = SumFunctionOnSet(carried, D)
      BY <2>2, <3>2, SumCongruent
    <3>4. Sum(share[u]) = SumFunctionOnSet(share[u], D)
      BY <3>1, SumIs
    <3> QED  BY <2>2, <2>4, <3>1, <3>3, <3>4
  <2> QED  BY <2>3, <2>4
<1> QED  BY <1>1, <1>3, <1>5, <1>6, <1>7 DEF p, h, carried

LEMMA DividedIs ==
    ASSUME NEW x, NEW p, NEW kept
    PROVE  Divided(x, p, kept) =
             IF p.flow THEN Held(Split(x, p, kept))
             ELSE [edges |-> [a \in Arcs |-> (2 * x.edges[a] * Sum(kept) + HeldAmount(x)) \div (2 * HeldAmount(x))],
                   supply |-> [u \in Members |-> IF u \in Underwriters(x) THEN kept[u] ELSE 0]]
BY DEF Divided, Split

\* Each underwriter keeps what the division gives it.
LEMMA DividedSupply ==
    ASSUME NEW x \in HoldSet, NEW d, NEW kept \in Kept(x), NEW u \in Members
    PROVE  Divided(x, Decomposed(x, d), kept).supply[u] = IF u \in Underwriters(x) THEN kept[u] ELSE 0
<1> DEFINE p == Decomposed(x, d)
           s == Split(x, p, kept)
<1>1. CASE ~p.flow
  BY <1>1, DividedIs
<1>2. CASE p.flow
  <2>1. Drawn(s, u) = IF u \in Underwriters(x) THEN kept[u] ELSE 0
    BY <1>2, SplitFits
  <2>2. Divided(x, p, kept) = Held(s)
    BY <1>2, DividedIs
  <2> HIDE DEF p, s
  <2>3. Held(s).supply[u] = Drawn(s, u)
    BY DEF Held
  <2> QED  BY <2>1, <2>2, <2>3 DEF p
<1> QED  BY <1>1, <1>2

LEMMA DivisionKeeps ==
    ASSUME NEW x \in HoldSet, NEW d, NEW kept \in Kept(x), HeldAmount(x) # 0
    PROVE  HeldAmount(Divided(x, Decomposed(x, d), kept)) = Sum(kept)
<1> DEFINE y == Divided(x, Decomposed(x, d), kept)
           U == Underwriters(x)
           w == [u \in Members |-> IF u \in U THEN kept[u] ELSE 0]
           s == y.supply
<1>1. y \in HoldSet
  BY DividedType
<1>2. U \in SUBSET Members /\ IsFiniteSet(U) /\ IsFiniteSet(Members)
  BY HeldAmountType, MembersAssumption
<1>3. \A u \in Members : s[u] = w[u]
  BY DividedSupply
<1>4. s \in [Members -> Nat]
  <2> HIDE DEF y
  <2> QED  BY <1>1 DEF HoldSet
<1>5. kept \in [U -> Nat]
  BY DEF Kept
<1> HIDE DEF U, s
<1>6. \A u \in Members : w[u] \in Nat
  BY <1>5
<1>7. (\A u \in U : kept[u] \in Nat /\ w[u] \in Nat /\ w[u] = kept[u]) /\ \A u \in Members \ U : w[u] = 0
  BY <1>2, <1>5
<1> HIDE DEF w
<1>8. SumFunctionOnSet(s, Members) = SumFunctionOnSet(w, Members)
  BY <1>2, <1>3, <1>4, <1>6, SumCongruent
<1>9. SumFunctionOnSet(w, Members) = SumFunctionOnSet(w, U)
  BY <1>2, <1>6, <1>7, SumOnSupport
<1>10. SumFunctionOnSet(w, U) = SumFunctionOnSet(kept, U)
  BY <1>2, <1>7, SumCongruent
<1>11. DOMAIN kept = U /\ DOMAIN s = Members
  BY <1>4, <1>5
<1>12. HeldAmount(y) = SumFunctionOnSet(s, Members) /\ Sum(kept) = SumFunctionOnSet(kept, U)
  BY <1>11, SumIs DEF HeldAmount, s
<1> QED  BY <1>8, <1>9, <1>10, <1>12

\* A sum of numbers is nothing only where each of them is.
LEMMA SumIsZero ==
    ASSUME NEW S, IsFiniteSet(S), NEW f, \A y \in S : f[y] \in Nat, SumFunctionOnSet(f, S) = 0
    PROVE  \A y \in S : f[y] = 0
<1> SUFFICES ASSUME NEW y \in S
             PROVE  f[y] = 0
  OBVIOUS
<1>1. SumFunctionOnSet(f, S) = f[y] + SumFunctionOnSet(f, S \ {y})
  BY SumSplit
<1>2. IsFiniteSet(S \ {y})
  BY FS_RemoveElement
<1>3. SumFunctionOnSet(f, S \ {y}) \in Nat
  BY <1>2, SumIsNatural
<1> QED  BY <1>1, <1>3

\* Routes that supply nothing hold nothing.
LEMMA EmptyFlow ==
    ASSUME NEW h \in FlowSet, \A r \in DOMAIN h : r[1] \in Members, HeldAmount(Held(h)) = 0
    PROVE  Held(h) = Nothing
<1>1. SumFunctionOnSet(h, DOMAIN h) = 0
  BY HeldOf, SumIs
<1>2. IsFiniteSet(DOMAIN h) /\ \A r \in DOMAIN h : h[r] \in Nat
  BY FlowTypes
<1>3. \A r \in DOMAIN h : h[r] = 0
  BY <1>1, <1>2, SumIsZero
<1>4. ASSUME NEW k \in Places
      PROVE  At(Held(h), k) = At(Nothing, k)
  <2>1. Load(h, Via(k)) = 0
    <3>1. \A r \in DOMAIN h \cap Via(k) : h[r] = 0
      BY <1>3
    <3>2. IsFiniteSet(DOMAIN h \cap Via(k))
      BY LoadType
    <3> HIDE DEF Via
    <3> QED  BY <3>1, <3>2, SumOfZeros DEF Load
  <2> QED  BY <2>1, HeldAt, NothingAt
<1>5. Held(h) \in HoldSet /\ Nothing \in HoldSet
  BY HeldType, NothingType
<1> QED  BY <1>4, <1>5, HoldsEqual

\* Less along every route is less of every place.
LEMMA LessLoad ==
    ASSUME NEW h \in FlowSet, NEW s \in FlowSet, DOMAIN s = DOMAIN h, \A r \in DOMAIN h : s[r] <= h[r],
           NEW R
    PROVE  Load(s, R) <= Load(h, R)
<1>1. /\ IsFiniteSet(DOMAIN h \cap R)
      /\ \A r \in DOMAIN h : h[r] \in Nat
      /\ \A r \in DOMAIN s : s[r] \in Nat
  BY LoadType
<1>2. \A r \in DOMAIN h \cap R : s[r] \in Nat /\ h[r] \in Nat /\ s[r] <= h[r]
  BY <1>1
<1> QED  BY <1>1, <1>2, SumMonotone DEF Load

\* The nearest share of an arc, of which keep of t is kept, is not more of it.
LEMMA NearestFits ==
    ASSUME NEW e \in Nat, NEW keep \in Nat, NEW t \in Nat \ {0}, keep <= t
    PROVE  /\ (2 * e * keep + t) \div (2 * t) <= e
           /\ keep = 0 => (2 * e * keep + t) \div (2 * t) = 0
<1> DEFINE v == 2 * e * keep + t
           q == v \div (2 * t)
<1>1. 2 * e \in Nat /\ 2 * e * keep \in Nat /\ 2 * t \in Nat \ {0} /\ v \in Nat
  <2>1. 2 * e \in Nat /\ 2 * t \in Nat \ {0}
    OBVIOUS
  <2>2. 2 * e * keep \in Nat
    BY <2>1, ProductIsNatural
  <2> QED  BY <2>1, <2>2
<1>2. q \in Nat /\ q * (2 * t) <= v
  <2> HIDE DEF v
  <2> QED  BY <1>1, QuotientFits
<1>3. 2 * e * keep <= 2 * e * t
  BY <1>1, ProductGrows
<1>4. 2 * e * t = e * (2 * t)
  OBVIOUS
<1>5. e * (2 * t) \in Nat /\ q * (2 * t) \in Nat
  BY <1>1, <1>2, ProductIsNatural
<1>6. q * (2 * t) <= e * (2 * t) + t
  <2> HIDE DEF q
  <2> QED  BY <1>2, <1>3, <1>4, <1>5
<1>7. q < e + 1
  <2>1. SUFFICES ASSUME e + 1 <= q
                 PROVE  FALSE
    BY <1>2
  <2>2. (e + 1) * (2 * t) <= q * (2 * t)
    BY <1>1, <1>2, <2>1, ProductGrows
  <2>3. (e + 1) * (2 * t) = e * (2 * t) + 2 * t
    OBVIOUS
  <2> HIDE DEF q
  <2> QED  BY <1>5, <1>6, <2>2, <2>3
<1>8. keep = 0 => q = 0
  <2>1. SUFFICES ASSUME keep = 0, 1 <= q
                 PROVE  FALSE
    BY <1>2
  <2>2. v = t
    BY <2>1
  <2>3. 1 * (2 * t) <= q * (2 * t)
    BY <1>1, <1>2, <2>1, ProductGrows
  <2> HIDE DEF q, v
  <2> QED  BY <1>2, <1>5, <2>2, <2>3
<1> HIDE DEF q
<1> QED  BY <1>2, <1>7, <1>8 DEF q

\* A division leaves no more of any place than there was, and of nothing kept
\* nothing.
LEMMA DividedFits ==
    ASSUME NEW x \in HoldSet, NEW d, NEW kept \in Kept(x), HeldAmount(x) # 0, Sum(kept) <= HeldAmount(x)
    PROVE  LET y == Divided(x, Decomposed(x, d), kept)
           IN /\ \A k \in Places : At(y, k) <= At(x, k)
              /\ Sum(kept) = 0 => y = Nothing
<1> DEFINE p == Decomposed(x, d)
           h == p.routes
           s == Split(x, p, kept)
           y == Divided(x, p, kept)
<1>1. CASE p.flow
  <2>1. y = Held(s)
    BY <1>1, DividedIs
  <2>2. /\ s \in FlowSet /\ h \in FlowSet /\ DOMAIN s = DOMAIN h
        /\ \A r \in DOMAIN h : s[r] <= h[r] /\ r[1] \in Members
    BY <1>1, SplitFits
  <2>3. \A k \in Places : Load(h, Via(k)) = At(x, k)
    BY <1>1, DecomposedType
  <2>4. HeldAmount(y) = Sum(kept)
    BY DivisionKeeps
  <2> HIDE DEF y, s, h, p
  <2>5. ASSUME NEW k \in Places
        PROVE  At(y, k) <= At(x, k)
    BY <2>1, <2>2, <2>3, HeldAt, LessLoad
  <2>6. Sum(kept) = 0 => y = Nothing
    BY <2>1, <2>2, <2>4, EmptyFlow
  <2> QED  BY <2>5, <2>6 DEF y, p
<1>2. CASE ~p.flow
  <2> DEFINE edges == [a \in Arcs |-> (2 * x.edges[a] * Sum(kept) + HeldAmount(x)) \div (2 * HeldAmount(x))]
             draws == [u \in Members |-> IF u \in Underwriters(x) THEN kept[u] ELSE 0]
             keep == Sum(kept)
             t == HeldAmount(x)
  <2>1. y = [edges |-> edges, supply |-> draws]
    BY <1>2, DividedIs
  <2>2. t \in Nat \ {0} /\ keep <= t
    BY HeldAmountType
  <2>3. keep \in Nat
    BY HeldAmountType, SumIsInNat DEF Kept
  <2>4. ASSUME NEW a \in Arcs
        PROVE  edges[a] <= x.edges[a] /\ (keep = 0 => edges[a] = 0)
    <3>1. x.edges[a] \in Nat
      BY DEF HoldSet
    <3>2. edges[a] = (2 * x.edges[a] * keep + t) \div (2 * t)
      OBVIOUS
    <3> HIDE DEF edges, keep, t
    <3> QED  BY <2>2, <2>3, <3>1, <3>2, NearestFits
  <2>5. ASSUME NEW u \in Members
        PROVE  draws[u] <= x.supply[u] /\ (keep = 0 => draws[u] = 0)
    <3>1. x.supply[u] \in Nat /\ kept \in [Underwriters(x) -> Nat] /\ IsFiniteSet(Underwriters(x))
      BY HeldAmountType DEF HoldSet, Kept
    <3>2. u \in Underwriters(x) => kept[u] <= x.supply[u]
      BY DEF Kept
    <3>3. keep = 0 => \A v \in Underwriters(x) : kept[v] = 0
      <4>1. keep = SumFunctionOnSet(kept, Underwriters(x))
        BY <3>1, SumIs
      <4> HIDE DEF keep
      <4> QED  BY <3>1, <4>1, SumIsZero
    <3> QED  BY <3>1, <3>2, <3>3
  <2>6. \A k \in Places : At(y, k) <= At(x, k) /\ (keep = 0 => At(y, k) = 0)
    <3> SUFFICES ASSUME NEW k \in Places
                 PROVE  At(y, k) <= At(x, k) /\ (keep = 0 => At(y, k) = 0)
      OBVIOUS
    <3>1. y.edges = edges /\ y.supply = draws
      BY <2>1
    <3> HIDE DEF y, edges, draws, keep
    <3> QED  BY <2>4, <2>5, <3>1, PlaceKinds DEF At
  <2>7. keep = 0 => y = Nothing
    <3>1. y \in HoldSet
      BY DividedType
    <3> HIDE DEF y, keep
    <3> QED  BY <2>6, <3>1, NothingAt, NothingType, HoldsEqual
  <2> QED  BY <2>6, <2>7
<1> QED  BY <1>1, <1>2

LEMMA SuppliedSum ==
    ASSUME NEW x \in HoldSet
    PROVE  Sum(Supplied(x)) = HeldAmount(x)
<1> DEFINE U == Underwriters(x)
           w == Supplied(x)
           s == x.supply
<1>1. IsFiniteSet(U) /\ U \in SUBSET Members
  BY HeldAmountType
<1>2. w \in [U -> Nat] /\ \A u \in U : w[u] = s[u]
  BY DEF Supplied, Underwriters, Restrict, HoldSet
<1>3. s \in [Members -> Nat] /\ \A u \in Members \ U : s[u] = 0
  BY DEF HoldSet, Underwriters
<1> HIDE DEF U, w, s
<1>4. SumFunctionOnSet(s, Members) = SumFunctionOnSet(s, U)
  BY <1>1, <1>3, MembersAssumption, SumOnSupport
<1>5. SumFunctionOnSet(w, U) = SumFunctionOnSet(s, U)
  BY <1>1, <1>2, SumCongruent
<1>6. DOMAIN w = U /\ DOMAIN s = Members
  BY <1>2, <1>3
<1> QED  BY <1>4, <1>5, <1>6, SumIs DEF HeldAmount, s, w

\* A supply divided by what each underwriter has of it.
LEMMA SupplyAllocated ==
    ASSUME NEW x \in HoldSet, NEW keep \in Nat, keep <= HeldAmount(x)
    PROVE  /\ Allocated(Supplied(x), keep, Id(x)) \in Kept(x)
           /\ Sum(Allocated(Supplied(x), keep, Id(x))) = keep
<1> DEFINE U == Underwriters(x)
           w == Supplied(x)
           rank == Id(x)
           kept == Allocated(w, keep, rank)
           s == x.supply
<1>1. IsFiniteSet(U) /\ U \subseteq Nat /\ U \in SUBSET Members
  BY HeldAmountType, MembersAssumption
<1>2. w \in [U -> Nat] /\ \A u \in U : w[u] = s[u]
  BY DEF Supplied, Underwriters, Restrict, HoldSet
<1>3. rank \in [U -> Nat] /\ \A j, k \in U : rank[j] = rank[k] => j = k
  BY <1>1 DEF Id
<1>4. keep <= Sum(w)
  BY SuppliedSum
<1> HIDE DEF U, w, rank, s
<1>5. kept \in [U -> Nat] /\ Sum(kept) = keep /\ \A u \in U : kept[u] <= w[u]
  BY <1>1, <1>2, <1>3, <1>4, AllocatedKeeps
<1> HIDE DEF kept
<1> QED  BY <1>2, <1>5 DEF U, s, Kept, kept, w, rank

LEMMA ShrunkType ==
    ASSUME NEW x \in HoldSet, NEW d, NEW keep \in Nat, keep # HeldAmount(x), keep <= HeldAmount(x)
    PROVE  Shrunk(x, d, keep) \in HoldSet
<1>1. HeldAmount(x) # 0
  BY HeldAmountType
<1> QED  BY <1>1, SupplyAllocated, DividedType DEF Shrunk

\* What still stands of a hold is what is still owed, and part of the hold.
LEMMA ShrunkKeeps ==
    ASSUME NEW x \in HoldSet, NEW d, NEW keep \in Nat, keep <= HeldAmount(x), HeldAmount(x) # 0
    PROVE  /\ HeldAmount(Shrunk(x, d, keep)) = keep
           /\ \A k \in Places : At(Shrunk(x, d, keep), k) <= At(x, k)
           /\ keep = 0 => Shrunk(x, d, keep) = Nothing
<1> DEFINE kept == Allocated(Supplied(x), keep, Id(x))
<1>1. kept \in Kept(x) /\ Sum(kept) = keep
  BY SupplyAllocated
<1>2. Shrunk(x, d, keep) = Divided(x, Decomposed(x, d), kept)
  BY DEF Shrunk
<1> HIDE DEF kept
<1>3. HeldAmount(Shrunk(x, d, keep)) = keep
  BY <1>1, <1>2, DivisionKeeps
<1>4. /\ \A k \in Places : At(Shrunk(x, d, keep), k) <= At(x, k)
      /\ keep = 0 => Shrunk(x, d, keep) = Nothing
  BY <1>1, <1>2, DividedFits
<1> QED  BY <1>3, <1>4

LEMMA SumOfOne ==
    ASSUME NEW S, IsFiniteSet(S), NEW f, \A y \in S : f[y] \in Nat, NEW x \in S,
           \A y \in S : y # x => f[y] = 0
    PROVE  SumFunctionOnSet(f, S) = f[x]
<1>1. SumFunctionOnSet(f, S) = SumFunctionOnSet(f, {x})
  BY SumOnSupport
<1>2. SumFunctionOnSet(f, {x}) = f[x] + SumFunctionOnSet(f, {x} \ {x})
  BY FS_Singleton, SumSplit
<1>3. {x} \ {x} = {}
  OBVIOUS
<1> QED  BY <1>1, <1>2, <1>3, SumOfNothing

\* The piece of a hold behind one of its underwriters is all its supply, and no
\* other's.
LEMMA PieceSupply ==
    ASSUME NEW x \in HoldSet, NEW d, NEW u \in Underwriters(x), NEW m \in Members
    PROVE  Piece(x, d, u).supply[m] = IF m = u THEN x.supply[u] ELSE 0
<1> DEFINE p == Decomposed(x, d)
           h == p.routes
           w == From(h, u)
<1>1. Piece(x, d, u) = IF p.flow THEN Held(w)
                       ELSE [edges |-> [a \in Arcs |-> Shares(Supplied(x), x.edges[a], Id(x), FALSE)[u]],
                             supply |-> [n \in Members |-> IF n = u THEN x.supply[u] ELSE 0]]
  BY DEF Piece, PartOf
<1>2. CASE ~p.flow
  BY <1>1, <1>2
<1>3. CASE p.flow
  <2>1. /\ h \in FlowSet /\ \A k \in Places : Load(h, Via(k)) = At(x, k)
    BY <1>3, DecomposedType
  <2>2. u \in Members
    BY DEF Underwriters
  <2>3. w = Restrict(h, Starting(h, u)) /\ Starting(h, u) \in SUBSET DOMAIN h
    BY DEF From, Starting
  <2> HIDE DEF p, h, w
  <2>4. w \in FlowSet /\ DOMAIN w = Starting(h, u)
    BY <2>1, <2>3, FlowTypes
  <2>5. Held(w).supply[m] = Drawn(w, m)
    BY DEF Held
  <2>6. Drawn(w, m) = SumFunctionOnSet(w, Starting(w, m))
    BY <2>4, DrawnIs
  <2>7. CASE m # u
    <3>1. Starting(w, m) = {}
      BY <2>4, <2>7 DEF Starting
    <3> QED  BY <1>1, <1>3, <2>5, <2>6, <2>7, <3>1, SumOfNothing
  <2>8. CASE m = u
    <3> DEFINE k == <<"supply", u>>
    <3>1. Starting(w, m) = DOMAIN w
      BY <2>4, <2>8 DEF Starting
    <3>2. Sum(w) = Drawn(h, u)
      BY DEF Drawn, w
    <3>3. Held(h).supply[u] = Drawn(h, u)
      BY <2>2 DEF Held
    <3>4. k \in Places /\ At(x, k) = x.supply[u] /\ At(Held(h), k) = Held(h).supply[u]
      BY <2>2, PlaceOf, AtSupply
    <3> HIDE DEF k
    <3>5. At(Held(h), k) = At(x, k)
      BY <2>1, <3>4, HeldAt
    <3>6. Sum(w) = SumFunctionOnSet(w, Starting(w, m))
      BY <3>1, SumIs
    <3>7. Held(w).supply[m] = x.supply[u]
      BY <2>5, <2>6, <3>2, <3>3, <3>4, <3>5, <3>6
    <3> QED  BY <1>1, <1>3, <2>8, <3>7
  <2> QED  BY <2>7, <2>8
<1> QED  BY <1>2, <1>3

LEMMA PieceKeeps ==
    ASSUME NEW x \in HoldSet, NEW d, NEW u \in Underwriters(x)
    PROVE  HeldAmount(Piece(x, d, u)) = x.supply[u]
<1> DEFINE s == Piece(x, d, u).supply
<1>1. u \in Members /\ x.supply[u] \in Nat
  BY DEF Underwriters, HoldSet
<1>2. s \in [Members -> Nat]
  BY PieceType DEF HoldSet
<1>3. \A m \in Members : s[m] = IF m = u THEN x.supply[u] ELSE 0
  BY PieceSupply
<1>4. HeldAmount(Piece(x, d, u)) = Sum(s)
  BY DEF HeldAmount
<1> HIDE DEF s
<1>5. /\ \A m \in Members : s[m] \in Nat /\ (m # u => s[m] = 0)
      /\ s[u] = x.supply[u] /\ DOMAIN s = Members
  BY <1>1, <1>2, <1>3
<1>7. (\A m \in Members : s[m] \in Nat) /\ \A m \in Members : m # u => s[m] = 0
  BY <1>5
<1>6. SumFunctionOnSet(s, Members) = s[u]
  <2>1. IsFiniteSet(Members)
    BY MembersAssumption
  <2> QED  BY <1>1, <1>7, <2>1, SumOfOne
<1> QED  BY <1>4, <1>5, <1>6, SumIs

\* The pieces of a hold make it, at every place.
LEMMA PiecesMake ==
    ASSUME NEW x \in HoldSet, NEW d, HeldAmount(x) # 0, NEW k \in Places
    PROVE  SumFunctionOnSet([u \in Underwriters(x) |-> At(Piece(x, d, u), k)], Underwriters(x)) = At(x, k)
<1> DEFINE p == Decomposed(x, d)
           h == p.routes
           U == Underwriters(x)
           f == [u \in U |-> At(Piece(x, d, u), k)]
<1>1. U \in SUBSET Members /\ IsFiniteSet(U) /\ \A u \in U : f[u] \in Nat
  <2>1. ASSUME NEW u \in U
        PROVE  f[u] \in Nat
    BY PieceType, AtType
  <2> QED  BY <2>1, HeldAmountType
<1>2. CASE p.flow
  <2>1. /\ h \in FlowSet /\ Load(h, Via(k)) = At(x, k)
        /\ \A r \in DOMAIN h : r[1] \in U
    BY <1>2, DecomposedType
  <2> DEFINE R == DOMAIN h \cap Via(k)
             g == [r \in R |-> r[1]]
  <2>2. IsFiniteSet(R) /\ \A r \in R : h[r] \in Nat /\ g[r] \in U
    BY <2>1, LoadType
  <2>3. SumFunctionOnSet(ByClass(h, g, R, U), U) = SumFunctionOnSet(h, R)
    <3> HIDE DEF h, g, R, U
    <3> QED  BY <1>1, <2>2, SumByClass
  <2>4. ASSUME NEW u \in U
        PROVE  ByClass(h, g, R, U)[u] = f[u]
    <3> DEFINE w == From(h, u)
    <3>1. w = Restrict(h, Starting(h, u)) /\ Starting(h, u) \in SUBSET DOMAIN h
      BY DEF From, Starting
    <3>2. f[u] = At(Held(w), k)
      BY <1>2 DEF Piece, PartOf
    <3>3. Class(R, g, u) = Starting(h, u) \cap Via(k)
      BY DEF Class, Starting
    <3>4. ByClass(h, g, R, U)[u] = SumFunctionOnSet(h, Class(R, g, u))
      BY DEF ByClass
    <3>5. \A r \in Starting(h, u) : w[r] = h[r]
      BY <3>1 DEF Restrict
    <3> HIDE DEF h, w, g, R, U, f
    <3>6. w \in FlowSet /\ DOMAIN w = Starting(h, u)
      BY <2>1, <3>1, FlowTypes
    <3>7. At(Held(w), k) = SumFunctionOnSet(w, Starting(h, u) \cap Via(k))
      BY <3>6, HeldAt DEF Load
    <3>8. IsFiniteSet(Starting(h, u) \cap Via(k)) /\ \A r \in Starting(h, u) : w[r] \in Nat
      BY <3>6, LoadType
    <3>9. \A r \in Starting(h, u) \cap Via(k) : w[r] \in Nat /\ w[r] = h[r]
      BY <3>5, <3>8
    <3>10. SumFunctionOnSet(w, Starting(h, u) \cap Via(k)) = SumFunctionOnSet(h, Starting(h, u) \cap Via(k))
      BY <3>8, <3>9, SumCongruent
    <3> QED  BY <3>2, <3>3, <3>4, <3>7, <3>10
  <2>5. \A u \in U : f[u] \in Nat /\ f[u] = ByClass(h, g, R, U)[u]
    BY <1>1, <2>4
  <2>6. SumFunctionOnSet(h, R) = At(x, k)
    BY <2>1 DEF Load
  <2> HIDE DEF f, h, g, R, U, p
  <2>7. SumFunctionOnSet(f, U) = SumFunctionOnSet(ByClass(h, g, R, U), U)
    BY <1>1, <2>5, SumCongruent
  <2> QED  BY <2>3, <2>6, <2>7 DEF f, U
<1>3. CASE ~p.flow /\ k[1] = "arc"
  <2> DEFINE a == k[2]
             s == Shares(Supplied(x), x.edges[a], Id(x), FALSE)
  <2>1. a \in Arcs /\ At(x, k) = x.edges[a] /\ x.edges[a] \in Nat
    BY <1>3, PlaceKinds DEF At, HoldSet
  <2>2. \A u \in U : f[u] = s[u]
    BY <1>3, <2>1 DEF Piece, PartOf, At
  <2>3. Supplied(x) \in [U -> Nat] /\ Sum(Supplied(x)) # 0
    BY SuppliedSum, SuppliedType DEF Kept
  <2>4. Id(x) \in [U -> Nat] /\ \A i, j \in U : Id(x)[i] = Id(x)[j] => i = j
    BY <1>1, MembersAssumption DEF Id
  <2>5. s \in [U -> Nat]
    <3> HIDE DEF a, U
    <3> QED  BY <1>1, <2>1, <2>3, SharesType
  <2>6. Sum(s) = x.edges[a]
    <3> DEFINE c == FALSE
               w == Supplied(x)
               n == x.edges[a]
               rank == Id(x)
    <3>1. ~c
      OBVIOUS
    <3> HIDE DEF c, w, n, rank, U
    <3>2. Sum(w) # 0 /\ (c => n <= Sum(w)) => Sum(Shares(w, n, rank, c)) = n
      BY <1>1, <2>1, <2>3, <2>4, SharesBounded DEF w, n, rank
    <3>3. Sum(Shares(w, n, rank, c)) = n
      BY <2>3, <3>1, <3>2 DEF w
    <3> QED  BY <3>3 DEF w, n, rank, c
  <2> HIDE DEF f, s, U, a
  <2>7. SumFunctionOnSet(f, U) = SumFunctionOnSet(s, U)
    BY <1>1, <2>2, SumCongruent
  <2>8. Sum(s) = SumFunctionOnSet(s, U)
    BY <2>5, SumIs
  <2> QED  BY <2>1, <2>6, <2>7, <2>8 DEF f, U
<1>4. CASE k[1] = "supply"
  <2> DEFINE m == k[2]
  <2>1. m \in Members /\ At(x, k) = x.supply[m] /\ x.supply[m] \in Nat
    BY <1>4, PlaceKinds DEF At, HoldSet
  <2>2. ASSUME NEW u \in U
        PROVE  f[u] = IF m = u THEN x.supply[u] ELSE 0
    <3>1. f[u] = Piece(x, d, u).supply[m]
      BY <1>4 DEF At
    <3> HIDE DEF f
    <3> QED  BY <2>1, <3>1, PieceSupply
  <2> HIDE DEF f, m
  <2>3. CASE m \in U
    <3>1. SumFunctionOnSet(f, U) = f[m]
      <4>1. \A u \in U : u # m => f[u] = 0
        BY <2>2
      <4> HIDE DEF U
      <4> QED  BY <1>1, <2>3, <4>1, SumOfOne
    <3>2. f[m] = x.supply[m]
      BY <2>2, <2>3
    <3> QED  BY <2>1, <3>1, <3>2 DEF f
  <2>4. CASE m \notin U
    <3>1. \A u \in U : f[u] = 0
      BY <2>2, <2>4
    <3>2. x.supply[m] = 0
      BY <2>1, <2>4 DEF Underwriters
    <3> HIDE DEF U
    <3>3. SumFunctionOnSet(f, U) = 0
      BY <1>1, <3>1, SumOfZeros
    <3> QED  BY <2>1, <3>2, <3>3 DEF f, U
  <2> QED  BY <2>3, <2>4
<1> QED  BY <1>2, <1>3, <1>4, PlaceKinds

-----------------------------------------------------------------------------
(* Cuts and reservations *)

Purses == [Members -> Nat]

\* What a set of members takes from outside, through its arcs and its supply.
Across(w, p, T, S) ==
    Sum([u \in S \ T |-> p[u]]) + Sum([a \in (Members \ S) \X S |-> w[a]])

\* No piece takes more of a place than what is divided.
LEMMA PieceFits ==
    ASSUME NEW x \in HoldSet, NEW d, NEW u \in Underwriters(x), NEW k \in Places
    PROVE  At(Piece(x, d, u), k) <= At(x, k)
<1> DEFINE U == Underwriters(x)
           f == [v \in U |-> At(Piece(x, d, v), k)]
<1>1. IsFiniteSet(U) /\ \A v \in U : f[v] \in Nat
  BY PieceType, AtType, HeldAmountType
<1>2. x.supply[u] > 0 /\ x.supply[u] \in Nat /\ x.supply[u] <= HeldAmount(x)
  <2>1. U \subseteq Members /\ u \in Members /\ IsFiniteSet(Members) /\ \A m \in Members : x.supply[m] \in Nat
    BY MembersAssumption DEF Underwriters, HoldSet
  <2>2. x.supply[u] > 0
    BY DEF Underwriters
  <2>3. HeldAmount(x) = SumFunctionOnSet(x.supply, Members)
    BY SumIs DEF HeldAmount, HoldSet
  <2>4. SumFunctionOnSet(x.supply, Members) = x.supply[u] + SumFunctionOnSet(x.supply, Members \ {u})
    BY <2>1, SumSplit
  <2>5. SumFunctionOnSet(x.supply, Members \ {u}) \in Nat
    BY <2>1, FS_RemoveElement, SumIsNatural
  <2> QED  BY <2>1, <2>2, <2>3, <2>4, <2>5
<1>3. SumFunctionOnSet(f, U) = At(x, k)
  <2>1. HeldAmount(x) # 0
    BY <1>2
  <2> QED  BY <2>1, PiecesMake
<1>4. SumFunctionOnSet(f, U) = f[u] + SumFunctionOnSet(f, U \ {u})
  <2> HIDE DEF f, U
  <2> QED  BY <1>1, SumSplit DEF U
<1>5. SumFunctionOnSet(f, U \ {u}) \in Nat
  <2> HIDE DEF f, U
  <2> QED  BY <1>1, FS_RemoveElement, SumIsNatural
<1>6. f[u] = At(Piece(x, d, u), k) /\ f[u] \in Nat
  BY <1>1
<1> HIDE DEF f
<1> QED  BY <1>3, <1>4, <1>5, <1>6

LEMMA AcrossIsNatural ==
    ASSUME NEW w \in [Arcs -> Nat], NEW p \in [Members -> Nat], NEW T, NEW S \in SUBSET Members
    PROVE  Across(w, p, T, S) \in Nat
<1>1. IsFiniteSet(S \ T) /\ IsFiniteSet((Members \ S) \X S) /\ (Members \ S) \X S \subseteq Arcs
  <2>1. IsFiniteSet(Members \ S) /\ IsFiniteSet(S)
    BY MembersAssumption, FS_Subset
  <2> QED  BY <2>1, FS_Subset, FS_Product DEF Arcs
<1>2. /\ [u \in S \ T |-> p[u]] \in [S \ T -> Nat]
      /\ [a \in (Members \ S) \X S |-> w[a]] \in [(Members \ S) \X S -> Nat]
  BY <1>1
<1>3. Sum([u \in S \ T |-> p[u]]) \in Nat /\ Sum([a \in (Members \ S) \X S |-> w[a]]) \in Nat
  BY <1>1, <1>2, SumIsInNat
<1> QED  BY <1>3 DEF Across

LEMMA CutIsNatural ==
    ASSUME NEW w \in [Arcs -> Nat], NEW p \in [Members -> Nat], NEW T \in SUBSET Members
    PROVE  Cut(w, p, T) \in Nat
<1> DEFINE all == {Across(w, p, T, S) : S \in {S \in SUBSET Members : T \subseteq S}}
<1>1. Cut(w, p, T) = Min(all)
  BY DEF Cut, Across
<1>2. all \subseteq Nat
  BY AcrossIsNatural
<1>3. Across(w, p, T, Members) \in all
  OBVIOUS
<1> HIDE DEF all
<1> QED  BY <1>1, <1>2, <1>3, MinIsIn

LEMMA FiniteTuples ==
    ASSUME NEW S, IsFiniteSet(S), NEW l \in Nat, NEW m \in Nat
    PROVE  IsFiniteSet(UNION {[1..n -> S] : n \in l..m})
<1> DEFINE P == {n \in Nat : IsFiniteSet([1..n -> S])}
<1>1. 0 \in P
  <2>1. 1..0 = {}
    OBVIOUS
  <2>2. \A f, g \in [1..0 -> S] : f = g
    BY <2>1
  <2>3. [i \in 1..0 |-> i] \in [1..0 -> S]
    BY <2>1
  <2>4. [1..0 -> S] = {[i \in 1..0 |-> i]}
    BY <2>2, <2>3
  <2> QED  BY <2>4, FS_Singleton
<1>2. ASSUME NEW n \in Nat, n \in P
      PROVE  n + 1 \in P
  <2> DEFINE old == [1..n -> S]
             new == [1..n + 1 -> S]
             longer(z) == [i \in 1..n + 1 |-> IF i = n + 1 THEN z[2] ELSE z[1][i]]
             f == [z \in old \X S |-> longer(z)]
  <2>1. IsFiniteSet(old \X S)
    BY <1>2, FS_Product
  <2>2. ASSUME NEW p \in new
        PROVE  \E z \in old \X S : f[z] = p
    <3> DEFINE q == [i \in 1..n |-> p[i]]
               z == <<q, p[n + 1]>>
    <3>1. z \in old \X S
      BY <1>2
    <3>2. longer(z) = p
      <4>1. \A i \in 1..n + 1 : i # n + 1 => i \in 1..n
        BY <1>2
      <4>2. p = [i \in 1..n + 1 |-> p[i]]
        OBVIOUS
      <4> QED  BY <4>1, <4>2
    <3> QED  BY <3>1, <3>2
  <2>3. f \in [old \X S -> new]
    <3> SUFFICES ASSUME NEW z \in old \X S
                 PROVE  longer(z) \in new
      OBVIOUS
    <3>1. \A i \in 1..n + 1 : i # n + 1 => i \in 1..n
      BY <1>2
    <3> QED  BY <3>1
  <2>4. f \in Surjection(old \X S, new)
    <3> HIDE DEF f, old, new
    <3> QED  BY <2>2, <2>3 DEF Surjection
  <2>5. IsFiniteSet(new)
    <3> HIDE DEF f, old, new
    <3> QED  BY <2>1, <2>4, FS_Surjection
  <2> QED  BY <1>2, <2>5
<1>3. Nat \subseteq P
  <2> HIDE DEF P
  <2> QED  BY <1>1, <1>2, NumberInduction
<1> DEFINE all == {[1..n -> S] : n \in l..m}
           range == [n \in l..m |-> [1..n -> S]]
<1>4. IsFiniteSet(all)
  <2>1. IsFiniteSet(l..m)
    BY FS_Interval
  <2>2. range \in Surjection(l..m, all)
    BY DEF Surjection
  <2> HIDE DEF all, range
  <2> QED  BY <2>1, <2>2, FS_Surjection
<1>5. \A F \in all : IsFiniteSet(F)
  <2>1. \A n \in l..m : n \in P
    BY SMTT(30), <1>3
  <2> QED  BY <2>1
<1> HIDE DEF all
<1>6. IsFiniteSet(UNION all)
  BY <1>4, <1>5, FS_UNION
<1> QED  BY <1>6 DEF all

LEMMA FinitePaths == IsFiniteSet(Paths) /\ Paths \in SUBSET Seq(Members)
<1> DEFINE all == UNION {[1..n -> Members] : n \in 2..Cardinality(Members)}
<1>1. Cardinality(Members) \in Nat
  BY MembersAssumption, FS_CardinalityType
<1>2. IsFiniteSet(all)
  BY <1>1, MembersAssumption, FiniteTuples
<1>3. Paths \subseteq all
  BY DEF Paths
<1>4. all \subseteq Seq(Members)
  <2>1. \A n \in 2..Cardinality(Members) : n \in Nat
    BY <1>1
  <2>2. \A n \in 2..Cardinality(Members) : [1..n -> Members] \subseteq Seq(Members)
    BY <2>1
  <2> QED  BY <2>2
<1> HIDE DEF all
<1> QED  BY <1>2, <1>3, <1>4, FS_Subset

LEMMA ReservationsType ==
    ASSUME NEW w, NEW p, NEW d, NEW x \in Nat
    PROVE  Reservations(w, p, d, x) \in SUBSET HoldSet
<1> DEFINE routes == {q \in Paths : Last(q) = d}
           open == {q \in routes : /\ p[q[1]] > 0
                                   /\ \A a \in Arcs : Crosses(q, a) => w[a] > 0}
<1>1. IsFiniteSet(open) /\ open \in SUBSET Seq(Members)
  <2>1. open \subseteq Paths
    OBVIOUS
  <2> HIDE DEF open
  <2> QED  BY <2>1, FinitePaths, FS_Subset
<1>2. ASSUME NEW f \in [open -> 0..x]
      PROVE  Held(Positive(f)) \in HoldSet
  <2>1. f \in [open -> Nat]
    OBVIOUS
  <2> HIDE DEF open
  <2>2. f \in FlowSet
    BY <1>1, <2>1 DEF FlowSet
  <2>3. Positive(f) \in FlowSet
    BY <2>2, FlowTypes DEF Positive
  <2> QED  BY <2>3, HeldType
<1> SUFFICES ASSUME NEW h \in Flows(routes, w, p, x)
             PROVE  Held(h) \in HoldSet
  BY DEF Reservations
<1>3. PICK f \in [open -> 0..x] : h = Positive(f)
  BY DEF Flows
<1> HIDE DEF open, routes
<1> QED  BY <1>2, <1>3

\* A flow that may be returned is of the whole amount, within what is free at
\* every place, and draws nothing on the one it is for.
LEMMA FlowsFit ==
    ASSUME NEW w \in [Arcs -> Nat], NEW p \in Purses, NEW d \in Members, NEW x \in Nat,
           NEW y \in Reservations(w, p, d, x)
    PROVE  /\ y \in HoldSet /\ HeldAmount(y) = x /\ y.supply[d] = 0
           /\ \A k \in Places : At(y, k) <= At([edges |-> w, supply |-> p], k)
           /\ x = 0 => y = Nothing
<1> DEFINE routes == {q \in Paths : Last(q) = d}
           open == {q \in routes : /\ p[q[1]] > 0
                                   /\ \A a \in Arcs : Crosses(q, a) => w[a] > 0}
<1>1. PICK f \in [open -> 0..x] : /\ Sum(f) = x /\ y = Held(Positive(f))
                                  /\ \A a \in Arcs : HeldOn(f, a) <= w[a]
                                  /\ \A u \in Members : Drawn(f, u) <= p[u]
  BY DEF Reservations, Flows
<1>2. IsFiniteSet(open) /\ open \in SUBSET Seq(Members)
  <2>1. open \subseteq Paths
    OBVIOUS
  <2> HIDE DEF open
  <2> QED  BY <2>1, FinitePaths, FS_Subset
<1>3. \A q \in open : q[1] \in Members /\ q[1] # d
  <2> SUFFICES ASSUME NEW q \in Paths
               PROVE  q[1] \in Members /\ q[1] # Last(q)
    OBVIOUS
  <2>1. PICK n \in 2..Cardinality(Members) : q \in [1..n -> Members]
    BY DEF Paths
  <2>2. 1 \in 1..n /\ n \in 1..n /\ n # 1 /\ Len(q) = n /\ DOMAIN q = 1..n
    BY <2>1, MembersAssumption, FS_CardinalityType
  <2>3. \A i, j \in DOMAIN q : q[i] = q[j] => i = j
    BY DEF Paths, IsInjective
  <2> QED  BY <2>1, <2>2, <2>3 DEF Last
<1> HIDE DEF open
<1> DEFINE D == {r \in open : f[r] > 0}
           g == Positive(f)
<1>4. f \in [open -> Nat] /\ DOMAIN f = open /\ \A r \in open : f[r] \in Nat
  OBVIOUS
<1>5. f \in FlowSet
  BY <1>2, <1>4 DEF FlowSet
<1>6. g = Restrict(f, D) /\ D \in SUBSET DOMAIN f
  BY <1>4 DEF Positive
<1>7. g \in FlowSet /\ DOMAIN g = D /\ \A r \in D : g[r] = f[r]
  <2>1. \A r \in D : Restrict(f, D)[r] = f[r]
    BY <1>6 DEF Restrict
  <2> HIDE DEF g, D
  <2> QED  BY <1>5, <1>6, <2>1, FlowTypes
<1>8. \A r \in DOMAIN g : r[1] \in Members /\ r[1] # d
  BY <1>3, <1>7
<1>9. \A r \in D : f[r] \in Nat /\ f[r] = g[r]
  BY <1>4, <1>7
<1>10. HeldAmount(Held(g)) = Sum(g)
  <2> HIDE DEF g
  <2> QED  BY <1>7, <1>8, HeldOf
<1>11. Sum(g) = Sum(f)
  <2>1. \A r \in open \ D : f[r] = 0
    BY <1>4
  <2>2. D \in SUBSET open
    OBVIOUS
  <2> HIDE DEF D, g
  <2>3. IsFiniteSet(D)
    BY <1>2, <2>2, FS_Subset
  <2>4. SumFunctionOnSet(f, D) = SumFunctionOnSet(g, D)
    BY <1>9, <2>3, SumCongruent
  <2>5. SumFunctionOnSet(f, open) = SumFunctionOnSet(f, D)
    BY <1>2, <1>4, <2>1, <2>2, SumOnSupport
  <2> QED  BY <1>4, <1>7, <2>4, <2>5, SumIs
<1>12. ASSUME NEW k \in Places
       PROVE  At(Held(g), k) <= At([edges |-> w, supply |-> p], k)
  <2>1. At(Held(f), k) <= At([edges |-> w, supply |-> p], k)
    <3>1. CASE k[1] = "arc" /\ k[2] \in Arcs
      <4>1. HeldOn(f, k[2]) <= w[k[2]]
        BY <1>1, <3>1
      <4> QED  BY <3>1, <4>1 DEF At, Held
    <3>2. CASE k[1] = "supply" /\ k[2] \in Members
      <4>1. Drawn(f, k[2]) <= p[k[2]]
        BY <1>1, <3>2
      <4> QED  BY <3>2, <4>1 DEF At, Held
    <3> QED  BY <3>1, <3>2, PlaceKinds
  <2>2. At(Held(f), k) = Load(f, Via(k)) /\ At(Held(g), k) = Load(g, Via(k))
    <3> HIDE DEF g
    <3> QED  BY <1>5, <1>7, HeldAt
  <2>3. Load(g, Via(k)) <= Load(f, Via(k))
    <3> DEFINE S == DOMAIN f \cap Via(k)
               R == DOMAIN g \cap Via(k)
    <3>1. IsFiniteSet(S) /\ R \in SUBSET S /\ IsFiniteSet(R)
      <4>1. IsFiniteSet(DOMAIN f \cap Via(k))
        BY <1>5, LoadType
      <4>2. DOMAIN g \subseteq DOMAIN f
        BY <1>6, <1>7
      <4> HIDE DEF g
      <4> QED  BY <4>1, <4>2, FS_Subset
    <3>2. (\A r \in S : f[r] \in Nat) /\ \A r \in R : f[r] \in Nat /\ f[r] = g[r]
      BY <1>4, <1>7
    <3> HIDE DEF S, R
    <3>3. SumFunctionOnSet(f, R) <= SumFunctionOnSet(f, S)
      BY <3>1, <3>2, SumOfPart
    <3>4. SumFunctionOnSet(f, R) = SumFunctionOnSet(g, R)
      BY <3>1, <3>2, SumCongruent
    <3> QED  BY <3>3, <3>4 DEF Load, S, R
  <2>4. Load(g, Via(k)) \in Nat /\ Load(f, Via(k)) \in Nat
    <3> HIDE DEF g
    <3> QED  BY <1>5, <1>7, LoadType
  <2>5. At([edges |-> w, supply |-> p], k) \in Nat
    BY PlaceKinds DEF At, Purses
  <2> HIDE DEF g
  <2> QED  BY <2>1, <2>2, <2>3, <2>4, <2>5
<1>13. Held(g).supply[d] = 0
  <2>1. Held(g).supply[d] = Drawn(g, d)
    BY DEF Held
  <2>2. Starting(g, d) = {}
    BY <1>8 DEF Starting
  <2> HIDE DEF g
  <2>3. Drawn(g, d) = SumFunctionOnSet(g, Starting(g, d))
    BY <1>7, DrawnIs
  <2> QED  BY <2>1, <2>2, <2>3, SumOfNothing
<1>14. Held(g) \in HoldSet
  <2> HIDE DEF g
  <2> QED  BY <1>7, HeldType
<1>15. x = 0 => Held(g) = Nothing
  <2> HIDE DEF g
  <2> QED  BY <1>1, <1>7, <1>8, <1>10, <1>11, EmptyFlow
<1> HIDE DEF g
<1> QED  BY <1>1, <1>10, <1>11, <1>12, <1>13, <1>14, <1>15 DEF g

LEMMA LessType ==
    ASSUME NEW x \in Nat, NEW y \in Nat
    PROVE  Less(x, y) \in Nat /\ Less(x, y) <= x /\ Less(x, y) <= y
BY DEF Less

LEMMA MoreType ==
    ASSUME NEW x \in Nat, NEW y \in Nat
    PROVE  More(x, y) \in Nat
BY DEF More

-----------------------------------------------------------------------------
(* Books *)

Statuses == {"Active", "Expired", "Settled", "Cured", "Transferred"}
Votes == UNION {[A -> Nat] : A \in SUBSET Members}

Terms == {t \in [arbiters : SUBSET Members, quorum : Nat \ {0}, window : Nat, cap : Nat, debtor : Members,
                  creditor : Members, amount : Nat, votes : Votes, awarded : BOOLEAN] :
            t.debtor # t.creditor}

RowSet == [debtor : Members, creditor : Members, outstanding : Nat, original : Nat, maturity : Nat,
           status : Statuses, created : Nat, accepted : Nat, insured : BOOLEAN, held : HoldSet,
           arb : Terms \cup {NoTerms}]

RowFiles == UNION {[D -> RowSet] : D \in {D \in SUBSET Nat : IsFiniteSet(D)}}

BookSet == [rows : RowFiles, next : Nat, debt : Purses, default : Purses, agreed : Purses,
            charged : Purses, edges : [Arcs -> Nat], reserved : [Arcs -> Nat], committed : Purses]

Books == {b \in BookSet :
            /\ b.next >= 1
            /\ \A id \in DOMAIN b.rows : /\ 1 <= id /\ id < b.next
                                         /\ b.rows[id].outstanding <= b.rows[id].original}

LEMMA FileTypes ==
    ASSUME NEW f \in RowFiles
    PROVE  /\ f \in [DOMAIN f -> RowSet] /\ IsFiniteSet(DOMAIN f) /\ DOMAIN f \in SUBSET Nat
           /\ \A id \in DOMAIN f : f[id] \in RowSet
BY DEF RowFiles

LEMMA RowChanged ==
    ASSUME NEW f \in RowFiles, NEW id, NEW r \in RowSet
    PROVE  /\ [f EXCEPT ![id] = r] \in RowFiles
           /\ DOMAIN [f EXCEPT ![id] = r] = DOMAIN f
           /\ \A i \in DOMAIN f : [f EXCEPT ![id] = r][i] = IF i = id THEN r ELSE f[i]
<1>1. [f EXCEPT ![id] = r] \in [DOMAIN f -> RowSet]
  BY FileTypes
<1>2. [f EXCEPT ![id] = r] \in RowFiles
  BY <1>1, FileTypes DEF RowFiles
<1> QED  BY <1>1, <1>2, FileTypes

LEMMA RowAdded ==
    ASSUME NEW f \in RowFiles, NEW id \in Nat, NEW r \in RowSet
    PROVE  /\ Added(f, id, r) \in RowFiles
           /\ DOMAIN Added(f, id, r) = DOMAIN f \cup {id}
           /\ Added(f, id, r)[id] = r
           /\ \A i \in DOMAIN f : i # id => Added(f, id, r)[i] = f[i]
<1> DEFINE D == DOMAIN f \cup {id}
<1>1. IsFiniteSet(D) /\ D \in SUBSET Nat
  BY FileTypes, FS_AddElement
<1>2. Added(f, id, r) \in [D -> RowSet]
  BY FileTypes DEF Added
<1>3. Added(f, id, r) \in RowFiles
  BY <1>1, <1>2 DEF RowFiles
<1> QED  BY <1>1, <1>3 DEF Added

\* The dust is a number, and so is every supply.
Ready == DustMinor \in Nat /\ supply \in Purses

\* A book after b at the epoch e: no panel is heard and none agreed to, and no
\* row comes to be overdue.
Onward(b, c, e) ==
    /\ c \in Books
    /\ c.agreed = b.agreed /\ c.charged = b.charged
    /\ DOMAIN b.rows \subseteq DOMAIN c.rows
    /\ \A id \in DOMAIN c.rows :
          /\ c.rows[id].arb = IF id \in DOMAIN b.rows THEN b.rows[id].arb ELSE NoTerms
          /\ Due(c.rows[id], e) => id \in DOMAIN b.rows /\ Due(b.rows[id], e)

LEMMA OnwardSelf ==
    ASSUME NEW b \in Books, NEW e
    PROVE  Onward(b, b, e)
BY DEF Onward

LEMMA OnwardTwice ==
    ASSUME NEW a, NEW b, NEW c, NEW e, Onward(a, b, e), Onward(b, c, e)
    PROVE  Onward(a, c, e)
BY DEF Onward

\* No hold grows: a row that is in both books takes no more of any place.
Still(b, c) == \A id \in DOMAIN b.rows \cap DOMAIN c.rows :
                  \A k \in Places : At(c.rows[id].held, k) <= At(b.rows[id].held, k)

LEMMA HeldAtType ==
    ASSUME NEW b \in BookSet, NEW id \in DOMAIN b.rows, NEW k \in Places
    PROVE  At(b.rows[id].held, k) \in Nat
<1>1. b.rows[id].held \in HoldSet
  BY FileTypes DEF BookSet, RowSet
<1> QED  BY <1>1, AtType

\* Every row that is in both books holds what it held.
LEMMA SameHolds ==
    ASSUME NEW b \in BookSet, NEW c,
           \A id \in DOMAIN b.rows \cap DOMAIN c.rows : c.rows[id].held = b.rows[id].held
    PROVE  Still(b, c)
<1> SUFFICES ASSUME NEW id \in DOMAIN b.rows \cap DOMAIN c.rows, NEW k \in Places
             PROVE  At(c.rows[id].held, k) <= At(b.rows[id].held, k)
  BY DEF Still
<1>1. At(b.rows[id].held, k) \in Nat /\ c.rows[id].held = b.rows[id].held
  BY HeldAtType
<1> QED  BY <1>1

LEMMA StillTwice ==
    ASSUME NEW a \in BookSet, NEW b \in BookSet, NEW c \in BookSet, Still(a, b), Still(b, c),
           DOMAIN a.rows \cap DOMAIN c.rows \subseteq DOMAIN b.rows
    PROVE  Still(a, c)
<1> SUFFICES ASSUME NEW id \in DOMAIN a.rows \cap DOMAIN c.rows, NEW k \in Places
             PROVE  At(c.rows[id].held, k) <= At(a.rows[id].held, k)
  BY DEF Still
<1>1. id \in DOMAIN a.rows /\ id \in DOMAIN b.rows /\ id \in DOMAIN c.rows
  OBVIOUS
<1>2. /\ At(b.rows[id].held, k) <= At(a.rows[id].held, k)
      /\ At(c.rows[id].held, k) <= At(b.rows[id].held, k)
  BY <1>1 DEF Still
<1>3. At(a.rows[id].held, k) \in Nat /\ At(b.rows[id].held, k) \in Nat /\ At(c.rows[id].held, k) \in Nat
  BY <1>1, HeldAtType
<1> QED  BY <1>2, <1>3

\* One row changes, and holds no more.
LEMMA OneRowStill ==
    ASSUME NEW b \in BookSet, NEW c, NEW id \in DOMAIN b.rows, NEW r \in RowSet,
           c.rows = [b.rows EXCEPT ![id] = r],
           \A k \in Places : At(r.held, k) <= At(b.rows[id].held, k)
    PROVE  Still(b, c)
<1> SUFFICES ASSUME NEW i \in DOMAIN b.rows, NEW k \in Places
             PROVE  At(c.rows[i].held, k) <= At(b.rows[i].held, k)
  BY DEF Still
<1>1. At(b.rows[i].held, k) \in Nat
  BY HeldAtType
<1>2. CASE i = id
  BY <1>2
<1>3. CASE i # id
  BY <1>1, <1>3
<1> QED  BY <1>2, <1>3

\* A row is added.
LEMMA AddedStill ==
    ASSUME NEW b \in Books, NEW c, NEW r \in RowSet, c.rows = Added(b.rows, b.next, r)
    PROVE  Still(b, c)
<1> DEFINE f == b.rows
           k == b.next
<1>1. f \in RowFiles /\ k \in Nat /\ b \in BookSet /\ \A i \in DOMAIN f : i # k
  BY FileTypes DEF Books, BookSet
<1>2. c.rows = Added(f, k, r)
  OBVIOUS
<1> HIDE DEF f, k
<1>3. \A i \in DOMAIN f : i # k => Added(f, k, r)[i] = f[i]
  BY <1>1, RowAdded
<1>4. \A i \in DOMAIN b.rows : c.rows[i] = b.rows[i]
  BY <1>1, <1>2, <1>3 DEF f
<1> QED  BY <1>1, <1>4, SameHolds

\* The rows of a book are left alone.
LEMMA RowsLeft ==
    ASSUME NEW b \in Books, NEW c \in BookSet, NEW e, c.rows = b.rows, c.next = b.next,
           c.agreed = b.agreed, c.charged = b.charged
    PROVE  Onward(b, c, e)
BY DEF Onward, Books

\* A row of a book is changed, not what it says of its panel.
LEMMA OneRowLater ==
    ASSUME NEW b \in Books, NEW c \in BookSet, NEW e, NEW id \in DOMAIN b.rows, NEW r \in RowSet,
           c.rows = [b.rows EXCEPT ![id] = r], c.next = b.next,
           c.agreed = b.agreed, c.charged = b.charged,
           r.outstanding <= r.original, r.arb = b.rows[id].arb, Due(r, e) => Due(b.rows[id], e)
    PROVE  Onward(b, c, e)
<1>1. b.rows \in RowFiles
  BY DEF Books, BookSet
<1>2. /\ DOMAIN c.rows = DOMAIN b.rows
      /\ \A i \in DOMAIN b.rows : c.rows[i] = IF i = id THEN r ELSE b.rows[i]
  BY <1>1, RowChanged
<1>3. c \in Books
  BY <1>2 DEF Books
<1> QED  BY <1>2, <1>3 DEF Onward

\* A row without a panel is added to a book.
LEMMA RowLater ==
    ASSUME NEW b \in Books, NEW c \in BookSet, NEW e, NEW r \in RowSet,
           c.rows = Added(b.rows, b.next, r), c.next = b.next + 1,
           c.agreed = b.agreed, c.charged = b.charged,
           r.outstanding <= r.original, r.arb = NoTerms, ~Due(r, e)
    PROVE  Onward(b, c, e)
<1>1. b.rows \in RowFiles /\ b.next \in Nat /\ b.next >= 1 /\ c.next >= 1
  BY DEF Books, BookSet
<1>2. /\ DOMAIN c.rows = DOMAIN b.rows \cup {b.next} /\ c.rows[b.next] = r
      /\ \A i \in DOMAIN b.rows : i # b.next => c.rows[i] = b.rows[i]
  <2> DEFINE f == b.rows
             k == b.next
  <2>1. /\ DOMAIN Added(f, k, r) = DOMAIN f \cup {k} /\ Added(f, k, r)[k] = r
        /\ \A i \in DOMAIN f : i # k => Added(f, k, r)[i] = f[i]
    <3> HIDE DEF f, k
    <3>1. f \in RowFiles /\ k \in Nat
      BY <1>1 DEF f, k
    <3> QED  BY <3>1, RowAdded
  <2>2. c.rows = Added(f, k, r)
    OBVIOUS
  <2> QED  BY <2>1, <2>2, Zenon
<1>3. \A i \in DOMAIN b.rows : 1 <= i /\ i < b.next /\ i \in Nat
  BY <1>1, FileTypes DEF Books
<1>4. b.next \notin DOMAIN b.rows
  BY <1>1, <1>3
<1>5. \A i \in DOMAIN b.rows : i # b.next
  BY <1>4
<1>6. c \in Books
  <2> SUFFICES ASSUME NEW i \in DOMAIN c.rows
               PROVE  /\ 1 <= i /\ i < c.next
                      /\ c.rows[i].outstanding <= c.rows[i].original
    BY <1>1 DEF Books
  <2>1. CASE i \in DOMAIN b.rows
    BY <1>1, <1>2, <1>3, <1>5, <2>1 DEF Books
  <2>2. CASE i = b.next
    BY <1>1, <1>2, <2>2
  <2> QED  BY <1>2, <2>1, <2>2
<1> QED  BY <1>2, <1>4, <1>5, <1>6 DEF Onward

-----------------------------------------------------------------------------
(* What the rows say is owed, and the caches of it *)

\* The default cache is that of the rows until a scale floors it on its own.
Kinds == {T \in {"debt", "default"} : T = "default" => unit.times = 0}

Counting(T) == IF T = "debt" THEN {"Active", "Expired"} ELSE {"Expired"}

\* What a row counts towards m's debt, open default or claims, or holds of the
\* place m.
Weight(r, m, T) ==
    IF T = "held" THEN IF m \in Places THEN At(r.held, m) ELSE 0
    ELSE IF T = "claim" THEN IF r.creditor = m /\ Live(r) THEN r.outstanding ELSE 0
    ELSE IF r.debtor = m /\ r.status \in Counting(T) THEN r.outstanding ELSE 0

Owing(f, m, T) == [i \in DOMAIN f |-> Weight(f[i], m, T)]

Tally(b, m, T) == SumFunctionOnSet(Owing(b.rows, m, T), DOMAIN b.rows)

Cached(b, T) == IF T = "debt" THEN b.debt ELSE b.default

Balanced(b) == \A T \in Kinds, m \in Members : Cached(b, T)[m] = Tally(b, m, T)

\* What is reserved or committed of a place, what there is of it, and what the
\* rows hold of it.
Booked(b, k) == At([edges |-> b.reserved, supply |-> b.committed], k)
Stock(b, k) == At([edges |-> b.edges, supply |-> supply], k)
Total(b, k) == Tally(b, k, "held")

Filled(b) == \A k \in Places : Booked(b, k) = Total(b, k) /\ Total(b, k) <= Stock(b, k)

\* Nothing is staked, reserved or given back.
Steady(b, c) == c.edges = b.edges /\ c.reserved = b.reserved /\ c.committed = b.committed

\* A row has two parties, and its debtor underwrites nothing of it; live and
\* insured it holds what it owes, else nothing; closed it owes nothing.
RowSound(c) ==
    /\ c.debtor # c.creditor /\ c.held.supply[c.debtor] = 0
    /\ HeldAmount(c.held) = IF Live(c) /\ c.insured THEN c.outstanding ELSE 0
    /\ HeldAmount(c.held) = 0 => c.held = Nothing
    /\ ~Live(c) => c.outstanding = 0
RowsSound(b) == \A i \in DOMAIN b.rows : RowSound(b.rows[i])

Sound(b) == Balanced(b) /\ RowsSound(b) /\ Filled(b)

\* The caches move as the rows do.
Together(b, c) ==
    \A T \in Kinds, m \in Members :
        Cached(b, T)[m] + Tally(c, m, T) = Cached(c, T)[m] + Tally(b, m, T)

Tracks(b, c) == Together(b, c) /\ (RowsSound(b) => RowsSound(c)) /\ (Filled(b) => Filled(c))

\* One more row, or one row in the place of another.
LEMMA WeightType ==
    ASSUME NEW r \in RowSet, NEW m, NEW T
    PROVE  Weight(r, m, T) \in Nat /\ (T # "held" => Weight(r, m, T) <= r.outstanding)
<1>1. m \in Places => At(r.held, m) \in Nat
  BY AtType DEF RowSet
<1> QED  BY <1>1 DEF Weight, RowSet

LEMMA TallyType ==
    ASSUME NEW b \in BookSet, NEW m, NEW T
    PROVE  /\ Tally(b, m, T) \in Nat
           /\ \A i \in DOMAIN b.rows : Weight(b.rows[i], m, T) <= Tally(b, m, T)
<1> DEFINE f == b.rows
           w == Owing(f, m, T)
           S == DOMAIN f
<1>1. IsFiniteSet(S) /\ \A i \in S : f[i] \in RowSet
  BY FileTypes DEF BookSet
<1>2. \A i \in S : w[i] \in Nat /\ w[i] = Weight(f[i], m, T)
  BY <1>1, WeightType DEF Owing
<1> HIDE DEF w
<1>3. SumFunctionOnSet(w, S) \in Nat
  BY <1>1, <1>2, SumIsNatural
<1>4. ASSUME NEW i \in S
      PROVE  w[i] <= SumFunctionOnSet(w, S)
  <2>1. SumFunctionOnSet(w, S) = w[i] + SumFunctionOnSet(w, S \ {i})
    BY <1>1, <1>2, SumSplit
  <2>2. SumFunctionOnSet(w, S \ {i}) \in Nat
    BY <1>1, <1>2, FS_RemoveElement, SumIsNatural
  <2> QED  BY <1>2, <2>1, <2>2
<1> QED  BY <1>2, <1>3, <1>4 DEF Tally, w

LEMMA CachedType ==
    ASSUME NEW b \in BookSet, NEW m \in Members, NEW T
    PROVE  Cached(b, T)[m] \in Nat
BY DEF BookSet, Purses, Cached

LEMMA TallyChanged ==
    ASSUME NEW b \in BookSet, NEW c \in BookSet, NEW id \in DOMAIN b.rows, NEW r \in RowSet,
           c.rows = [b.rows EXCEPT ![id] = r], NEW m, NEW T
    PROVE  Tally(c, m, T) + Weight(b.rows[id], m, T) = Tally(b, m, T) + Weight(r, m, T)
<1> DEFINE f == b.rows
           g == c.rows
           S == DOMAIN f
           w == Owing(f, m, T)
           v == Owing(g, m, T)
<1>1. f \in RowFiles /\ IsFiniteSet(S) /\ \A i \in S : f[i] \in RowSet
  BY FileTypes DEF BookSet
<1>2. DOMAIN g = S /\ \A i \in S : g[i] = IF i = id THEN r ELSE f[i]
  BY <1>1, RowChanged
<1> HIDE DEF g
<1>3. /\ \A i \in S : w[i] \in Nat /\ v[i] \in Nat
      /\ \A i \in S : i # id => w[i] = v[i]
      /\ w[id] = Weight(f[id], m, T) /\ v[id] = Weight(r, m, T)
  BY <1>1, <1>2, WeightType DEF Owing
<1> HIDE DEF w, v
<1>4. SumFunctionOnSet(v, S) + w[id] = SumFunctionOnSet(w, S) + v[id]
  <2> HIDE DEF f, S
  <2>1. id \in S
    BY DEF S, f
  <2>2. Weighs(w, S) /\ Weighs(v, S) /\ AgreeOff(w, v, S, id)
    BY <1>3 DEF Weighs, AgreeOff
  <2> QED  BY <1>1, <2>1, <2>2, SumUpdate
<1>5. Tally(b, m, T) = SumFunctionOnSet(w, S) /\ Tally(c, m, T) = SumFunctionOnSet(v, S)
  BY <1>2 DEF Tally, w, v, g
<1> QED  BY <1>3, <1>4, <1>5

LEMMA TallyAdded ==
    ASSUME NEW b \in Books, NEW c \in BookSet, NEW r \in RowSet,
           c.rows = Added(b.rows, b.next, r), NEW m, NEW T
    PROVE  Tally(c, m, T) = Tally(b, m, T) + Weight(r, m, T)
<1> DEFINE f == b.rows
           g == c.rows
           k == b.next
           S == DOMAIN f
           w == Owing(f, m, T)
           v == Owing(g, m, T)
<1>1. f \in RowFiles /\ IsFiniteSet(S) /\ k \in Nat /\ \A i \in S : f[i] \in RowSet
  BY FileTypes DEF Books, BookSet
<1>2. DOMAIN g = S \cup {k} /\ g[k] = r /\ \A i \in S : i # k => g[i] = f[i]
  <2> HIDE DEF f, k
  <2>1. g = Added(f, k, r)
    BY DEF f, k
  <2>2. /\ DOMAIN Added(f, k, r) = S \cup {k} /\ Added(f, k, r)[k] = r
        /\ \A i \in S : i # k => Added(f, k, r)[i] = f[i]
    BY <1>1, RowAdded
  <2> QED  BY <2>1, <2>2
<1>3. k \notin S
  BY <1>1, FileTypes DEF Books
<1> HIDE DEF g, k
<1>4. /\ \A i \in S : w[i] \in Nat /\ v[i] = w[i]
      /\ \A i \in S \cup {k} : v[i] \in Nat
      /\ v[k] = Weight(r, m, T)
  BY <1>1, <1>2, <1>3, WeightType DEF Owing
<1>5. Tally(b, m, T) = SumFunctionOnSet(w, S) /\ Tally(c, m, T) = SumFunctionOnSet(v, S \cup {k})
  BY <1>2 DEF Tally, g
<1> HIDE DEF w, v, S
<1>6. SumFunctionOnSet(v, S \cup {k}) = v[k] + SumFunctionOnSet(v, S)
  <2>1. IsFiniteSet(S \cup {k}) /\ (S \cup {k}) \ {k} = S
    BY <1>1, <1>3, FS_AddElement
  <2> QED  BY <1>4, <2>1, SumSplit
<1>7. SumFunctionOnSet(w, S) = SumFunctionOnSet(v, S) /\ SumFunctionOnSet(w, S) \in Nat
  BY <1>1, <1>4, SumCongruent, SumIsNatural
<1>8. v[k] \in Nat
  BY <1>4
<1> QED  BY <1>4, <1>5, <1>6, <1>7, <1>8

\* Rows that count for nothing are dropped.
LEMMA TallyDropped ==
    ASSUME NEW b \in BookSet, NEW c \in BookSet, DOMAIN c.rows \subseteq DOMAIN b.rows,
           \A i \in DOMAIN c.rows : c.rows[i] = b.rows[i],
           \A i \in DOMAIN b.rows \ DOMAIN c.rows : b.rows[i].outstanding = 0 /\ b.rows[i].held = Nothing,
           NEW m, NEW T
    PROVE  Tally(c, m, T) = Tally(b, m, T)
<1> DEFINE f == b.rows
           g == c.rows
           S == DOMAIN f
           R == DOMAIN g
           w == Owing(f, m, T)
           v == Owing(g, m, T)
<1>1. IsFiniteSet(S) /\ IsFiniteSet(R) /\ R \in SUBSET S /\ \A i \in S : f[i] \in RowSet
  BY FileTypes DEF BookSet
<1>2. /\ \A i \in S : w[i] \in Nat
      /\ \A i \in R : v[i] = w[i]
      /\ \A i \in S \ R : w[i] = 0
  <2>1. \A i \in S : w[i] = Weight(f[i], m, T)
    BY DEF Owing
  <2>2. \A i \in R : v[i] = Weight(g[i], m, T)
    BY DEF Owing
  <2>3. \A i \in R : g[i] = f[i]
    OBVIOUS
  <2> HIDE DEF w, v
  <2>4. \A i \in S : w[i] \in Nat
    BY <1>1, <2>1, WeightType
  <2>5. \A i \in R : v[i] = w[i]
    BY <1>1, <2>1, <2>2, <2>3
  <2>6. \A i \in S \ R : w[i] = 0
    BY <2>1, NothingAt DEF Weight
  <2> QED  BY <2>4, <2>5, <2>6
<1> HIDE DEF w, v
<1>3. SumFunctionOnSet(w, S) = SumFunctionOnSet(w, R)
  <2> HIDE DEF S, R
  <2> QED  BY <1>1, <1>2, SumOnSupport
<1>4. SumFunctionOnSet(w, R) = SumFunctionOnSet(v, R)
  <2> HIDE DEF S, R
  <2> QED  BY <1>1, <1>2, SumCongruent
<1> QED  BY <1>3, <1>4 DEF Tally, w, v

LEMMA TogetherTwice ==
    ASSUME NEW a \in BookSet, NEW b \in BookSet, NEW c \in BookSet, Together(a, b), Together(b, c)
    PROVE  Together(a, c)
<1> SUFFICES ASSUME NEW T \in Kinds, NEW m \in Members
             PROVE  Cached(a, T)[m] + Tally(c, m, T) = Cached(c, T)[m] + Tally(a, m, T)
  BY DEF Together
<1>1. /\ Cached(a, T)[m] + Tally(b, m, T) = Cached(b, T)[m] + Tally(a, m, T)
      /\ Cached(b, T)[m] + Tally(c, m, T) = Cached(c, T)[m] + Tally(b, m, T)
  BY DEF Together
<1>2. /\ Cached(a, T)[m] \in Nat /\ Cached(b, T)[m] \in Nat /\ Cached(c, T)[m] \in Nat
      /\ Tally(a, m, T) \in Nat /\ Tally(b, m, T) \in Nat /\ Tally(c, m, T) \in Nat
  BY CachedType, TallyType
<1> QED  BY <1>1, <1>2

LEMMA TracksTwice ==
    ASSUME NEW a \in BookSet, NEW b \in BookSet, NEW c \in BookSet, Tracks(a, b), Tracks(b, c)
    PROVE  Tracks(a, c)
BY TogetherTwice DEF Tracks

LEMMA TracksSelf ==
    ASSUME NEW b
    PROVE  Tracks(b, b)
BY DEF Tracks, Together

LEMMA TracksSound ==
    ASSUME NEW b \in BookSet, NEW c \in BookSet, Tracks(b, c), Sound(b)
    PROVE  Sound(c)
<1> SUFFICES ASSUME NEW T \in Kinds, NEW m \in Members
             PROVE  Cached(c, T)[m] = Tally(c, m, T)
  BY DEF Sound, Balanced, Tracks
<1>1. /\ Cached(b, T)[m] + Tally(c, m, T) = Cached(c, T)[m] + Tally(b, m, T)
      /\ Cached(b, T)[m] = Tally(b, m, T)
  BY DEF Tracks, Together, Sound, Balanced
<1>2. Cached(c, T)[m] \in Nat /\ Tally(b, m, T) \in Nat /\ Tally(c, m, T) \in Nat
  BY CachedType, TallyType
<1> QED  BY <1>1, <1>2

\* Neither the rows nor the reservations move, and no stake falls.
LEMMA FilledLeft ==
    ASSUME NEW b \in BookSet, NEW c \in BookSet, supply \in Purses, c.rows = b.rows,
           c.reserved = b.reserved, c.committed = b.committed,
           \A a \in Arcs : b.edges[a] <= c.edges[a]
    PROVE  Filled(b) => Filled(c)
<1> SUFFICES ASSUME Filled(b), NEW k \in Places
             PROVE  Booked(c, k) = Total(c, k) /\ Total(c, k) <= Stock(c, k)
  BY DEF Filled
<1>1. Booked(c, k) = Booked(b, k) /\ Total(c, k) = Total(b, k)
  BY DEF Booked, Total, Tally
<1>2. Booked(b, k) = Total(b, k) /\ Total(b, k) <= Stock(b, k)
  BY DEF Filled
<1>3. Stock(b, k) <= Stock(c, k) /\ Stock(b, k) \in Nat /\ Stock(c, k) \in Nat
  BY PlaceKinds DEF Stock, At, BookSet, Purses
<1>4. Total(b, k) \in Nat
  BY TallyType DEF Total
<1> QED  BY <1>1, <1>2, <1>3, <1>4

\* Neither the rows nor the caches move.
LEMMA CachesLeft ==
    ASSUME NEW b, NEW c, c.rows = b.rows, c.debt = b.debt, c.default = b.default, Filled(b) => Filled(c)
    PROVE  Tracks(b, c)
BY DEF Tracks, Together, RowsSound, Cached, Tally

\* A row changes, not what it counts for.
LEMMA RowTogether ==
    ASSUME NEW b \in BookSet, NEW c \in BookSet, NEW id \in DOMAIN b.rows, NEW r \in RowSet,
           c.rows = [b.rows EXCEPT ![id] = r], c.debt = b.debt, c.default = b.default,
           r.debtor = b.rows[id].debtor, r.status = b.rows[id].status,
           r.outstanding = b.rows[id].outstanding
    PROVE  Together(b, c)
<1> SUFFICES ASSUME NEW T \in Kinds, NEW m \in Members
             PROVE  Cached(b, T)[m] + Tally(c, m, T) = Cached(c, T)[m] + Tally(b, m, T)
  BY DEF Together
<1>1. Tally(c, m, T) + Weight(b.rows[id], m, T) = Tally(b, m, T) + Weight(r, m, T)
  BY TallyChanged
<1>2. Weight(r, m, T) = Weight(b.rows[id], m, T)
  BY DEF Weight, Kinds
<1>3. Tally(c, m, T) \in Nat /\ Tally(b, m, T) \in Nat /\ Weight(r, m, T) \in Nat
  BY TallyType, WeightType
<1>4. Cached(b, T)[m] \in Nat /\ Cached(c, T)[m] = Cached(b, T)[m]
  BY CachedType DEF Cached
<1> QED  BY <1>1, <1>2, <1>3, <1>4

\* A row changes, not what it holds.
LEMMA RowFilled ==
    ASSUME NEW b \in BookSet, NEW c \in BookSet, NEW id \in DOMAIN b.rows, NEW r \in RowSet,
           c.rows = [b.rows EXCEPT ![id] = r], r.held = b.rows[id].held,
           c.edges = b.edges, c.reserved = b.reserved, c.committed = b.committed
    PROVE  Filled(b) => Filled(c)
<1> SUFFICES ASSUME NEW k \in Places
             PROVE  Booked(c, k) = Booked(b, k) /\ Total(c, k) = Total(b, k) /\ Stock(c, k) = Stock(b, k)
  BY DEF Filled
<1>1. Booked(c, k) = Booked(b, k) /\ Stock(c, k) = Stock(b, k)
  BY DEF Booked, Stock
<1>2. Total(c, k) + Weight(b.rows[id], k, "held") = Total(b, k) + Weight(r, k, "held")
  BY TallyChanged DEF Total
<1>3. Weight(r, k, "held") = Weight(b.rows[id], k, "held")
  BY DEF Weight
<1>4. Total(c, k) \in Nat /\ Total(b, k) \in Nat /\ Weight(r, k, "held") \in Nat
  BY TallyType, WeightType DEF Total
<1> QED  BY <1>1, <1>2, <1>3, <1>4

\* A row changes, into a sound one.
LEMMA SoundChanged ==
    ASSUME NEW b \in BookSet, NEW c, NEW id \in DOMAIN b.rows, NEW r \in RowSet,
           c.rows = [b.rows EXCEPT ![id] = r], RowSound(r),
           \A i \in DOMAIN b.rows : i # id => RowSound(b.rows[i])
    PROVE  RowsSound(c)
<1>1. /\ DOMAIN c.rows = DOMAIN b.rows
      /\ \A i \in DOMAIN b.rows : c.rows[i] = IF i = id THEN r ELSE b.rows[i]
  BY RowChanged DEF BookSet
<1> QED  BY <1>1 DEF RowsSound

\* A step of the book after which it is as sound as before.
\* A book after b in which also no hold has grown, and which is sound if b is.
Later(b, c, e) == Onward(b, c, e) /\ Still(b, c) /\ (Sound(b) => Sound(c))

LEMMA LaterSelf ==
    ASSUME NEW b \in Books, NEW e
    PROVE  Later(b, b, e)
BY OnwardSelf, SameHolds DEF Later, Books

LEMMA LaterTwice ==
    ASSUME NEW a \in Books, NEW b, NEW c, NEW e, Later(a, b, e), Later(b, c, e)
    PROVE  Later(a, c, e)
<1>1. Onward(a, b, e) /\ Onward(b, c, e) /\ Still(a, b) /\ Still(b, c)
  BY DEF Later
<1>2. a \in BookSet /\ b \in BookSet /\ c \in BookSet /\ DOMAIN a.rows \subseteq DOMAIN b.rows
  BY <1>1 DEF Onward, Books
<1>3. Still(a, c)
  BY <1>1, <1>2, StillTwice
<1> QED  BY <1>1, <1>3, OnwardTwice DEF Later

LEMMA LaterTracks ==
    ASSUME NEW b \in Books, NEW c, NEW e, Onward(b, c, e), Still(b, c), Tracks(b, c)
    PROVE  Later(b, c, e)
<1>1. b \in BookSet /\ c \in BookSet
  BY DEF Onward, Books
<1> QED  BY <1>1, TracksSound DEF Later

-----------------------------------------------------------------------------
(* Reservations *)

Holdings == [insured : BOOLEAN, held : HoldSet]

LEMMA FreeTypes ==
    ASSUME NEW b \in Books, Ready
    PROVE  /\ FreeWeight(b) \in [Arcs -> Nat]
           /\ FreeSupply(b) \in Purses
BY MinusIsNatural DEF Ready, FreeWeight, FreeSupply, Books, BookSet, Purses

LEMMA TakenType ==
    ASSUME NEW b \in Books, Ready, NEW d, NEW x \in Nat
    PROVE  /\ Taken(b, d, x) \in SUBSET Holdings
           /\ Uninsured \in Holdings
<1>1. Uninsured \in Holdings
  BY NothingType DEF Uninsured, Holdings
<1> DEFINE hs == Reservations(FreeWeight(b), FreeSupply(b), d, x)
<1>2. hs \in SUBSET HoldSet
  BY ReservationsType
<1>3. Taken(b, d, x) = IF hs = {} THEN {Uninsured} ELSE {[insured |-> TRUE, held |-> h] : h \in hs}
  BY DEF Taken
<1> HIDE DEF hs
<1>4. \A t \in Taken(b, d, x) : t \in Holdings
  <2>1. \A h \in hs : [insured |-> TRUE, held |-> h] \in Holdings
    BY <1>2 DEF Holdings
  <2> QED  BY <1>1, <1>3, <2>1
<1> QED  BY <1>1, <1>4

\* No more is reserved or committed than there is.
Within(b) == \A k \in Places : Booked(b, k) <= Stock(b, k)

\* What is free of a place is what is not booked of it.
LEMMA FreeIs ==
    ASSUME NEW b \in Books, Ready, Within(b), NEW k \in Places
    PROVE  At([edges |-> FreeWeight(b), supply |-> FreeSupply(b)], k) + Booked(b, k) = Stock(b, k)
<1>1. Booked(b, k) <= Stock(b, k)
  BY DEF Within
<1>2. Booked(b, k) \in Nat /\ Stock(b, k) \in Nat
  BY PlaceKinds DEF Booked, Stock, At, Ready, Books, BookSet, Purses
<1>3. At([edges |-> FreeWeight(b), supply |-> FreeSupply(b)], k) = Minus(Stock(b, k), Booked(b, k))
  BY PlaceKinds DEF At, Stock, Booked, FreeWeight, FreeSupply
<1> QED  BY <1>1, <1>2, <1>3 DEF Minus

LEMMA NothingHeld ==
    /\ HeldAmount(Nothing) = 0
    /\ \A m \in Members : Nothing.supply[m] = 0
<1>1. NoHold \in FlowSet /\ DOMAIN NoHold = {}
  BY NoHoldType
<1>2. HeldAmount(Held(NoHold)) = Sum(NoHold)
  BY <1>1, HeldOf
<1>3. ASSUME NEW m \in Members
      PROVE  Nothing.supply[m] = 0
  <2>1. <<"supply", m>> \in Places /\ At(Nothing, <<"supply", m>>) = Nothing.supply[m]
    BY PlaceOf, AtSupply
  <2> QED  BY <2>1, NothingAt
<1> QED  BY <1>1, <1>2, <1>3, SumIs, SumOfNothing DEF Nothing

\* A reservation is of the whole amount, and fits in with those before it.
LEMMA TakenFits ==
    ASSUME NEW b \in Books, Ready, NEW d \in Members, NEW x \in Nat,
           NEW t \in Taken(b, d, x) \cup {Uninsured}
    PROVE  /\ t \in Holdings /\ t.held.supply[d] = 0
           /\ HeldAmount(t.held) = IF t.insured THEN x ELSE 0
           /\ HeldAmount(t.held) = 0 => t.held = Nothing
           /\ Within(b) => \A k \in Places : Booked(b, k) + At(t.held, k) <= Stock(b, k)
<1> DEFINE w == FreeWeight(b)
           p == FreeSupply(b)
           hs == Reservations(w, p, d, x)
<1>1. t = Uninsured \/ \E h \in hs : t = [insured |-> TRUE, held |-> h]
  BY DEF Taken
<1>2. t \in Holdings
  BY TakenType
<1>3. w \in [Arcs -> Nat] /\ p \in Purses
  BY FreeTypes
<1>4. ASSUME Within(b), NEW h \in HoldSet, NEW k \in Places, At(h, k) <= At([edges |-> w, supply |-> p], k)
      PROVE  Booked(b, k) + At(h, k) <= Stock(b, k)
  <2>1. At([edges |-> w, supply |-> p], k) + Booked(b, k) = Stock(b, k)
    BY <1>4, FreeIs
  <2>2. Booked(b, k) \in Nat /\ Stock(b, k) \in Nat /\ At(h, k) \in Nat
    BY <1>4, AtType, PlaceKinds DEF Booked, Stock, At, Ready, Books, BookSet, Purses
  <2>3. At([edges |-> w, supply |-> p], k) \in Nat
    <3> HIDE DEF w, p
    <3> QED  BY <1>3, PlaceKinds DEF At, Purses
  <2> HIDE DEF w, p
  <2> QED  BY <1>4, <2>1, <2>2, <2>3
<1> HIDE DEF hs
<1>5. CASE t = Uninsured
  <2>1. t.insured = FALSE /\ t.held = Nothing
    BY <1>5 DEF Uninsured
  <2>2. ASSUME NEW k \in Places
        PROVE  At(Nothing, k) = 0 /\ At(Nothing, k) <= At([edges |-> w, supply |-> p], k)
    <3>1. At([edges |-> w, supply |-> p], k) \in Nat
      <4> HIDE DEF w, p
      <4> QED  BY <1>3, PlaceKinds DEF At, Purses
    <3> HIDE DEF w, p
    <3> QED  BY <3>1, NothingAt
  <2> QED  BY <1>2, <1>4, <2>1, <2>2, NothingHeld, NothingType
<1>6. CASE \E h \in hs : t = [insured |-> TRUE, held |-> h]
  <2>1. PICK h \in hs : t = [insured |-> TRUE, held |-> h]
    BY <1>6
  <2>2. t.insured = TRUE /\ t.held = h
    BY <2>1
  <2>3. /\ h \in HoldSet /\ HeldAmount(h) = x /\ h.supply[d] = 0
        /\ \A k \in Places : At(h, k) <= At([edges |-> w, supply |-> p], k)
        /\ x = 0 => h = Nothing
    <3>1. h \in Reservations(w, p, d, x)
      BY DEF hs
    <3> HIDE DEF w, p
    <3> QED  BY <1>3, <3>1, FlowsFit
  <2> HIDE DEF w, p
  <2> QED  BY <1>2, <1>4, <2>2, <2>3
<1> QED  BY <1>1, <1>5, <1>6

\* What a book has of a place is a number.
LEMMA PlaceTypes ==
    ASSUME NEW b \in BookSet, supply \in Purses, NEW k \in Places
    PROVE  Booked(b, k) \in Nat /\ Stock(b, k) \in Nat /\ Total(b, k) \in Nat
<1>1. Total(b, k) \in Nat
  BY TallyType DEF Total
<1> QED  BY <1>1, PlaceKinds DEF Booked, Stock, At, BookSet, Purses

LEMMA TakenWhole ==
    ASSUME NEW b \in Books, Ready, NEW d \in Members, NEW x \in Nat,
           NEW t \in Taken(b, d, x) \cup {Uninsured}
    PROVE  /\ t \in Holdings /\ t.held.supply[d] = 0
           /\ HeldAmount(t.held) = IF t.insured THEN x ELSE 0
           /\ HeldAmount(t.held) = 0 => t.held = Nothing
           /\ Filled(b) => \A k \in Places : Booked(b, k) + At(t.held, k) <= Stock(b, k)
<1>1. Filled(b) => Within(b)
  BY DEF Filled, Within
<1> QED  BY <1>1, TakenFits

LEMMA ReserveLater ==
    ASSUME NEW b \in Books, NEW h \in HoldSet, NEW e
    PROVE  /\ Onward(b, Reserve(b, h), e)
           /\ Reserve(b, h) \in BookSet
           /\ Reserve(b, h).rows = b.rows /\ Reserve(b, h).next = b.next
           /\ Reserve(b, h).agreed = b.agreed /\ Reserve(b, h).charged = b.charged
           /\ Reserve(b, h).debt = b.debt /\ Reserve(b, h).default = b.default
           /\ Reserve(b, h).edges = b.edges
           /\ \A k \in Places : Booked(Reserve(b, h), k) = Booked(b, k) + At(h, k)
<1> DEFINE reserved == [a \in Arcs |-> b.reserved[a] + h.edges[a]]
           committed == [u \in Members |-> b.committed[u] + h.supply[u]]
           c == Reserve(b, h)
<1>1. reserved \in [Arcs -> Nat] /\ committed \in Purses
  BY DEF Books, BookSet, HoldSet, Purses
<1>2. c = [b EXCEPT !.reserved = reserved, !.committed = committed]
  BY DEF Reserve, Books, BookSet
<1>3. \A k \in Places : At([edges |-> reserved, supply |-> committed], k) = Booked(b, k) + At(h, k)
  BY PlaceKinds DEF At, Booked
<1> HIDE DEF reserved, committed, c
<1>4. /\ c \in BookSet /\ c.rows = b.rows /\ c.next = b.next /\ c.agreed = b.agreed
      /\ c.charged = b.charged /\ c.debt = b.debt /\ c.default = b.default
      /\ c.edges = b.edges /\ c.reserved = reserved /\ c.committed = committed
  <2>1. b \in BookSet
    BY DEF Books
  <2> QED  BY <1>1, <1>2, <2>1 DEF BookSet
<1>5. Onward(b, c, e)
  BY <1>4, RowsLeft
<1>6. \A k \in Places : Booked(c, k) = Booked(b, k) + At(h, k)
  BY <1>3, <1>4 DEF Booked
<1> QED  BY <1>4, <1>5, <1>6 DEF c

LEMMA ReleaseLater ==
    ASSUME NEW b \in BookSet, NEW h \in HoldSet
    PROVE  /\ Release(b, h) \in BookSet
           /\ Release(b, h).rows = b.rows /\ Release(b, h).next = b.next
           /\ Release(b, h).agreed = b.agreed /\ Release(b, h).charged = b.charged
           /\ Release(b, h).debt = b.debt /\ Release(b, h).default = b.default
           /\ Release(b, h).edges = b.edges
           /\ \A k \in Places : Booked(Release(b, h), k) = Minus(Booked(b, k), At(h, k))
<1> DEFINE reserved == [a \in Arcs |-> Minus(b.reserved[a], h.edges[a])]
           committed == [u \in Members |-> Minus(b.committed[u], h.supply[u])]
           c == Release(b, h)
<1>1. reserved \in [Arcs -> Nat] /\ committed \in Purses
  BY MinusIsNatural DEF BookSet, HoldSet, Purses
<1>2. c = [b EXCEPT !.reserved = reserved, !.committed = committed]
  BY DEF Release, BookSet
<1>3. \A k \in Places : At([edges |-> reserved, supply |-> committed], k) = Minus(Booked(b, k), At(h, k))
  BY PlaceKinds DEF At, Booked
<1> HIDE DEF reserved, committed, c
<1>4. /\ c \in BookSet /\ c.rows = b.rows /\ c.next = b.next /\ c.agreed = b.agreed
      /\ c.charged = b.charged /\ c.debt = b.debt /\ c.default = b.default
      /\ c.edges = b.edges /\ c.reserved = reserved /\ c.committed = committed
  BY <1>1, <1>2 DEF BookSet
<1>5. \A k \in Places : Booked(c, k) = Minus(Booked(b, k), At(h, k))
  BY <1>3, <1>4 DEF Booked
<1> QED  BY <1>4, <1>5 DEF c

-----------------------------------------------------------------------------
(* Rows opened and discharged *)

LEMMA RowType ==
    ASSUME NEW d \in Members, NEW c \in Members, NEW x \in Nat, NEW due \in Nat, NEW t \in Holdings,
           NEW e \in Nat, NEW base \in Nat
    PROVE  Row(d, c, x, due, t, e, base) \in RowSet
BY DEF Row, RowSet, Holdings, Statuses

\* A row is opened on a reservation of all it owes, or on none.
LEMMA RowBacked ==
    ASSUME NEW r \in RowSet, r.status = "Active", r.debtor # r.creditor, r.held.supply[r.debtor] = 0,
           HeldAmount(r.held) = IF r.insured THEN r.outstanding ELSE 0,
           HeldAmount(r.held) = 0 => r.held = Nothing
    PROVE  RowSound(r)
BY DEF RowSound, Live, RowSet

\* An uninsured row starts with nothing of a panel and owes exactly what it was opened for.
LEMMA PlainRow ==
    ASSUME NEW d \in Members, NEW c \in Members, d # c, NEW x \in Nat, NEW due \in Nat, NEW e \in Nat
    PROVE  LET r == Row(d, c, x, due, Uninsured, e, e)
           IN /\ r \in RowSet /\ r.outstanding = x /\ r.original = x /\ r.maturity = due
              /\ r.arb = NoTerms /\ r.status = "Active" /\ r.held = Nothing /\ RowSound(r)
<1> DEFINE r == Row(d, c, x, due, Uninsured, e, e)
<1>1. Uninsured \in Holdings /\ ~Uninsured.insured /\ Uninsured.held = Nothing
  BY NothingType DEF Uninsured, Holdings
<1>2. /\ r \in RowSet /\ r.outstanding = x /\ r.original = x /\ r.maturity = due
      /\ r.arb = NoTerms /\ r.status = "Active" /\ r.insured = Uninsured.insured
      /\ r.held = Uninsured.held /\ r.debtor = d /\ r.creditor = c
  <2>1. r \in RowSet
    BY <1>1, RowType
  <2> QED  BY <2>1 DEF Row
<1> HIDE DEF r
<1>3. RowSound(r)
  BY <1>1, <1>2, NothingHeld, RowBacked
<1>4. /\ r \in RowSet /\ r.outstanding = x /\ r.original = x /\ r.maturity = due
      /\ r.arb = NoTerms /\ r.status = "Active" /\ r.held = Nothing /\ RowSound(r)
  BY <1>1, <1>2, <1>3
<1> QED  BY <1>4 DEF r

LEMMA OpenedFields ==
    ASSUME NEW b \in BookSet, NEW r \in RowSet
    PROVE  /\ Opened(b, r) \in BookSet
           /\ Opened(b, r).rows = Added(b.rows, b.next, r) /\ Opened(b, r).next = b.next + 1
           /\ Opened(b, r).agreed = b.agreed /\ Opened(b, r).charged = b.charged
           /\ Opened(b, r).debt = [b.debt EXCEPT ![r.debtor] = @ + r.outstanding]
           /\ Opened(b, r).default = b.default /\ Opened(b, r).edges = b.edges
           /\ Opened(b, r).reserved = b.reserved /\ Opened(b, r).committed = b.committed
<1> DEFINE f == b.rows
           k == b.next
           debt == [b.debt EXCEPT ![r.debtor] = @ + r.outstanding]
<1>1. Added(f, k, r) \in RowFiles
  <2>1. f \in RowFiles /\ k \in Nat
    BY DEF BookSet
  <2> HIDE DEF f, k
  <2> QED  BY <2>1, RowAdded
<1>2. debt \in Purses /\ k + 1 \in Nat
  BY DEF BookSet, RowSet, Purses
<1>3. Opened(b, r) = [b EXCEPT !.rows = Added(f, k, r), !.next = k + 1, !.debt = debt]
  BY DEF Opened, BookSet
<1> HIDE DEF f, k, debt
<1>4. [b EXCEPT !.rows = Added(f, k, r), !.next = k + 1, !.debt = debt] \in BookSet
  BY <1>1, <1>2 DEF BookSet
<1> QED  BY <1>3, <1>4 DEF BookSet, f, k, debt

\* The rows of a book are sound, and so is one more.
LEMMA SoundAdded ==
    ASSUME NEW b \in Books, NEW c, NEW r \in RowSet, c.rows = Added(b.rows, b.next, r),
           RowSound(r), RowsSound(b)
    PROVE  RowsSound(c)
<1> DEFINE f == b.rows
           k == b.next
<1>1. f \in RowFiles /\ k \in Nat /\ \A i \in DOMAIN f : i # k
  BY FileTypes DEF Books, BookSet
<1>2. c.rows = Added(f, k, r)
  OBVIOUS
<1>3. \A i \in DOMAIN f : RowSound(f[i])
  BY DEF RowsSound
<1> HIDE DEF f, k
<1>4. /\ DOMAIN Added(f, k, r) = DOMAIN f \cup {k} /\ Added(f, k, r)[k] = r
      /\ \A i \in DOMAIN f : i # k => Added(f, k, r)[i] = f[i]
  BY ZenonT(30), <1>1, RowAdded
<1> QED  BY <1>1, <1>2, <1>3, <1>4 DEF RowsSound

LEMMA OpenedTogether ==
    ASSUME NEW b \in Books, NEW r \in RowSet, r.status = "Active"
    PROVE  Together(b, Opened(b, r))
<1> DEFINE c == Opened(b, r)
<1>1. b \in BookSet
  BY DEF Books
<1>2. /\ c \in BookSet /\ c.rows = Added(b.rows, b.next, r)
      /\ c.debt = [b.debt EXCEPT ![r.debtor] = @ + r.outstanding] /\ c.default = b.default
  BY <1>1, OpenedFields
<1> HIDE DEF c
<1>3. ASSUME NEW T \in Kinds, NEW m \in Members
      PROVE  Cached(b, T)[m] + Tally(c, m, T) = Cached(c, T)[m] + Tally(b, m, T)
  <2>1. Tally(c, m, T) = Tally(b, m, T) + Weight(r, m, T)
    BY <1>2, TallyAdded
  <2>2. Cached(b, T)[m] \in Nat /\ Tally(b, m, T) \in Nat /\ Weight(r, m, T) \in Nat
    BY <1>1, CachedType, TallyType, WeightType
  <2>3. Cached(c, T)[m] = Cached(b, T)[m] + Weight(r, m, T)
    <3>1. b.debt \in Purses /\ b.default[m] \in Nat /\ r.outstanding \in Nat /\ r.debtor \in Members
      BY <1>1 DEF BookSet, RowSet, Purses
    <3>2. CASE T = "debt"
      <4>1. Weight(r, m, T) = IF m = r.debtor THEN r.outstanding ELSE 0
        BY <3>2 DEF Weight, Counting
      <4>2. c.debt[m] = b.debt[m] + IF m = r.debtor THEN r.outstanding ELSE 0
        BY <1>2, <3>1 DEF Purses
      <4> QED  BY <3>2, <4>1, <4>2 DEF Cached
    <3>3. CASE T = "default"
      <4>1. Weight(r, m, T) = 0
        BY <3>3 DEF Weight, Counting
      <4>2. Cached(c, T)[m] = b.default[m] /\ Cached(b, T)[m] = b.default[m]
        BY <1>2, <3>3 DEF Cached
      <4> QED  BY <3>1, <4>1, <4>2
    <3> QED  BY <3>2, <3>3 DEF Kinds
  <2> QED  BY <2>1, <2>2, <2>3
<1> QED  BY <1>3 DEF Together, c

\* A row is opened on what was reserved for it.
LEMMA ReservedTracks ==
    ASSUME NEW b \in Books, Ready, NEW r \in RowSet, RowSound(r), r.status = "Active",
           Filled(b) => \A k \in Places : Booked(b, k) + At(r.held, k) <= Stock(b, k)
    PROVE  Tracks(b, Opened(Reserve(b, r.held), r))
<1> DEFINE h == r.held
           z == Reserve(b, h)
           c == Opened(z, r)
<1>1. b \in BookSet /\ h \in HoldSet /\ supply \in Purses
  BY DEF Books, RowSet, Ready
<1>2. /\ z \in Books /\ z \in BookSet /\ z.rows = b.rows /\ z.next = b.next
      /\ z.debt = b.debt /\ z.default = b.default /\ z.edges = b.edges
      /\ \A k \in Places : Booked(z, k) = Booked(b, k) + At(h, k)
  <2>1. Onward(b, z, epoch)
    BY <1>1, ReserveLater
  <2> QED  BY <1>1, <2>1, ReserveLater DEF Onward
<1> HIDE DEF h, z
<1>3. /\ c \in BookSet /\ c.rows = Added(b.rows, b.next, r)
      /\ c.edges = b.edges /\ c.reserved = z.reserved /\ c.committed = z.committed
  BY <1>2, OpenedFields
<1>4. Together(z, c)
  BY <1>2, OpenedTogether
<1> HIDE DEF c
<1>5. Together(b, c)
  <2>1. \A T, m : Cached(z, T) = Cached(b, T) /\ Tally(z, m, T) = Tally(b, m, T)
    BY <1>2 DEF Cached, Tally
  <2> QED  BY <1>4, <2>1 DEF Together
<1>6. RowsSound(b) => RowsSound(c)
  BY <1>3, SoundAdded
<1>7. ASSUME Filled(b)
      PROVE  Filled(c)
  <2> SUFFICES ASSUME NEW k \in Places
               PROVE  Booked(c, k) = Total(c, k) /\ Total(c, k) <= Stock(c, k)
    BY DEF Filled
  <2>1. Booked(c, k) = Booked(b, k) + At(h, k) /\ Stock(c, k) = Stock(b, k)
    BY <1>2, <1>3 DEF Booked, Stock
  <2>2. Total(c, k) = Total(b, k) + Weight(r, k, "held")
    BY <1>3, TallyAdded DEF Total
  <2>3. Weight(r, k, "held") = At(h, k)
    BY DEF Weight, h
  <2>4. Booked(b, k) = Total(b, k) /\ Booked(b, k) + At(h, k) <= Stock(b, k)
    BY <1>7 DEF Filled, h
  <2> QED  BY <2>1, <2>2, <2>3, <2>4
<1> QED  BY <1>5, <1>6, <1>7 DEF Tracks, c, z, h

\* A row is opened on nothing.
LEMMA OpenedTracks ==
    ASSUME NEW b \in Books, NEW r \in RowSet, RowSound(r), r.status = "Active", r.held = Nothing
    PROVE  /\ Tracks(b, Opened(b, r)) /\ Steady(b, Opened(b, r))
           /\ \A k \in Places : Total(Opened(b, r), k) = Total(b, k)
<1> DEFINE c == Opened(b, r)
<1>1. b \in BookSet
  BY DEF Books
<1>2. /\ c \in BookSet /\ c.rows = Added(b.rows, b.next, r)
      /\ c.edges = b.edges /\ c.reserved = b.reserved /\ c.committed = b.committed
  BY <1>1, OpenedFields
<1>3. Together(b, c)
  BY OpenedTogether
<1> HIDE DEF c
<1>4. RowsSound(b) => RowsSound(c)
  BY <1>2, SoundAdded
<1>5. ASSUME NEW k \in Places
      PROVE  Booked(c, k) = Booked(b, k) /\ Stock(c, k) = Stock(b, k) /\ Total(c, k) = Total(b, k)
  <2>1. Total(c, k) = Total(b, k) + Weight(r, k, "held")
    BY <1>2, TallyAdded DEF Total
  <2>2. Weight(r, k, "held") = 0
    BY NothingAt DEF Weight
  <2>3. Total(b, k) \in Nat
    BY <1>1, TallyType DEF Total
  <2> QED  BY <1>2, <2>1, <2>2, <2>3 DEF Booked, Stock
<1> QED  BY <1>2, <1>3, <1>4, <1>5 DEF Tracks, Filled, Steady, c

LEMMA OpenedLater ==
    ASSUME NEW b \in Books, NEW e \in Nat, NEW r \in RowSet, r.outstanding <= r.original,
           r.arb = NoTerms, ~Due(r, e)
    PROVE  Onward(b, Opened(b, r), e)
<1>1. b \in BookSet
  BY DEF Books
<1> QED  BY <1>1, OpenedFields, RowLater

LEMMA NotYetDue ==
    ASSUME NEW r \in RowSet, NEW e \in Nat, e <= r.maturity
    PROVE  ~Due(r, e)
BY DEF Due, RowSet

\* A hold changes on one row and is given back to the arcs.
LEMMA HoldingLater ==
    ASSUME NEW b \in Books, supply \in Purses, NEW id \in DOMAIN b.rows, NEW h \in HoldSet, NEW e,
           \A k \in Places : At(h, k) <= At(b.rows[id].held, k)
    PROVE  /\ Onward(b, Holding(b, id, h), e) /\ Still(b, Holding(b, id, h))
           /\ Together(b, Holding(b, id, h))
           /\ Filled(b) => Filled(Holding(b, id, h))
           /\ Holding(b, id, h).rows = [b.rows EXCEPT ![id] = [b.rows[id] EXCEPT !.held = h]]
           /\ Holding(b, id, h).debt = b.debt /\ Holding(b, id, h).default = b.default
<1> DEFINE c == b.rows[id]
           back == Without(c.held, h)
           r == [c EXCEPT !.held = h]
           z == Release(b, back)
<1>1. b \in BookSet /\ b.rows \in RowFiles
  BY DEF Books, BookSet
<1>2. c \in RowSet
  BY <1>1, FileTypes
<1>3. r \in RowSet /\ r.outstanding = c.outstanding /\ r.original = c.original /\ r.arb = c.arb
      /\ r.status = c.status /\ r.maturity = c.maturity /\ r.debtor = c.debtor /\ r.held = h
  <2> HIDE DEF c
  <2> QED  BY <1>2 DEF RowSet
<1>4. back \in HoldSet /\ \A k \in Places : At(back, k) = Minus(At(c.held, k), At(h, k))
  BY <1>2, WithoutType, WithoutAt DEF RowSet
<1>5. /\ z \in BookSet /\ z.rows = b.rows /\ z.next = b.next
      /\ z.agreed = b.agreed /\ z.charged = b.charged /\ z.debt = b.debt /\ z.default = b.default
      /\ z.edges = b.edges /\ \A k \in Places : Booked(z, k) = Minus(Booked(b, k), At(back, k))
  <2> HIDE DEF back
  <2> QED  BY <1>1, <1>4, ReleaseLater
<1>6. Holding(b, id, h) = [z EXCEPT !.rows = [b.rows EXCEPT ![id] = r]]
  BY <1>5 DEF Holding
<1>7. [b.rows EXCEPT ![id] = r] \in RowFiles
  <2> HIDE DEF r, z
  <2> QED  BY <1>1, <1>3, RowChanged
<1>8. c.outstanding <= c.original
  BY DEF Books
<1>9. Due(r, e) => Due(c, e)
  BY <1>3 DEF Due
<1> HIDE DEF r, z, back
<1> DEFINE y == Holding(b, id, h)
<1>10. y \in BookSet /\ y.rows = [b.rows EXCEPT ![id] = r]
       /\ y.next = b.next /\ y.agreed = b.agreed /\ y.charged = b.charged
       /\ y.debt = b.debt /\ y.default = b.default
       /\ y.edges = b.edges /\ y.reserved = z.reserved /\ y.committed = z.committed
  BY <1>5, <1>6, <1>7 DEF BookSet
<1> HIDE DEF y
<1>11. Onward(b, y, e)
  BY <1>3, <1>8, <1>9, <1>10, OneRowLater DEF c
<1>12. Together(b, y)
  BY <1>1, <1>3, <1>10, RowTogether DEF c
<1>13. ASSUME Filled(b), NEW k \in Places
       PROVE  Booked(y, k) = Total(y, k) /\ Total(y, k) <= Stock(y, k)
  <2>1. Booked(y, k) = Minus(Booked(b, k), Minus(At(c.held, k), At(h, k))) /\ Stock(y, k) = Stock(b, k)
    BY <1>4, <1>5, <1>10 DEF Booked, Stock
  <2>2. Total(y, k) + At(c.held, k) = Total(b, k) + At(h, k)
    <3>1. Total(y, k) + Weight(c, k, "held") = Total(b, k) + Weight(r, k, "held")
      BY <1>1, <1>3, <1>10, TallyChanged DEF Total
    <3> QED  BY <1>3, <3>1 DEF Weight
  <2>3. At(c.held, k) <= Total(b, k)
    <3>1. Weight(c, k, "held") <= Total(b, k)
      BY <1>1, TallyType DEF Total
    <3> QED  BY <3>1 DEF Weight
  <2>4. At(c.held, k) \in Nat /\ At(h, k) \in Nat /\ At(h, k) <= At(c.held, k)
    BY <1>2, AtType DEF RowSet
  <2>5. /\ Booked(b, k) \in Nat /\ Stock(b, k) \in Nat /\ Total(b, k) \in Nat /\ Total(y, k) \in Nat
        /\ Booked(b, k) = Total(b, k) /\ Total(b, k) <= Stock(b, k)
    BY <1>1, <1>10, <1>13, PlaceTypes DEF Filled
  <2> HIDE DEF c
  <2> QED  BY <2>1, <2>2, <2>3, <2>4, <2>5 DEF Minus
<1>14. Filled(b) => Filled(y)
  BY <1>13 DEF Filled
<1>15. Still(b, y)
  BY <1>1, <1>3, <1>10, OneRowStill DEF c
<1> QED  BY <1>10, <1>11, <1>12, <1>14, <1>15 DEF y, r, c

\* A row that was paid, before its hold follows: an insured one holds at least
\* what it still owes.
RowPaid(c) ==
    /\ c.debtor # c.creditor /\ c.held.supply[c.debtor] = 0
    /\ IF c.insured THEN c.outstanding <= HeldAmount(c.held) ELSE HeldAmount(c.held) = 0
    /\ HeldAmount(c.held) = 0 => c.held = Nothing
    /\ ~Live(c) => c.outstanding = 0

\* What two rows are owed by whom and to whom.
Alike(r, c) == /\ r.debtor = c.debtor /\ r.creditor = c.creditor
               /\ r.outstanding = c.outstanding /\ r.status = c.status

\* The row c after x of it was paid: what is left at dust is forgiven.
Paid(c, r, x) ==
    /\ r.debtor = c.debtor /\ r.creditor = c.creditor
    /\ r.outstanding = IF c.outstanding - x <= DustMinor THEN 0 ELSE c.outstanding - x
    /\ r.status = c.status \/ r.outstanding = 0

OthersLeft(b, c, id) == \A i \in DOMAIN b.rows : i # id => c.rows[i] = b.rows[i]
OneRow(b, c, id) == DOMAIN c.rows = DOMAIN b.rows /\ OthersLeft(b, c, id)

\* What is then still held is what is still owed.
LEMMA ReheldLater ==
    ASSUME NEW b \in Books, supply \in Purses, NEW id \in DOMAIN b.rows, NEW e
    PROVE  LET c == b.rows[id]
               z == Reheld(b, id)
           IN /\ Onward(b, z, e) /\ Still(b, z) /\ Together(b, z) /\ (Filled(b) => Filled(z))
              /\ z.debt = b.debt /\ z.default = b.default
              /\ RowPaid(c) => RowSound(z.rows[id])
              /\ \A i \in DOMAIN b.rows : i # id => z.rows[i] = b.rows[i]
              /\ DOMAIN z.rows = DOMAIN b.rows /\ Alike(z.rows[id], c)
<1> DEFINE c == b.rows[id]
           total == HeldAmount(c.held)
           keep == IF Live(c) THEN Less(c.outstanding, total) ELSE 0
           z == Reheld(b, id)
<1>1. b \in BookSet /\ c \in RowSet /\ c.held \in HoldSet /\ c.outstanding \in Nat /\ total \in Nat
      /\ b.rows \in RowFiles
  BY FileTypes, HeldAmountType DEF Books, BookSet, RowSet
<1>2. RowPaid(c) /\ c.insured => keep = c.outstanding
  <2> HIDE DEF c
  <2> QED  BY <1>1 DEF RowPaid, Less
<1>3. CASE ~c.insured \/ keep = total
  <2>1. z = b
    BY <1>3 DEF Reheld
  <2>2. RowPaid(c) => RowSound(c)
    <3> HIDE DEF c, keep
    <3> QED  BY <1>1, <1>2, <1>3 DEF RowPaid, RowSound
  <2>3. Onward(b, b, e) /\ Together(b, b) /\ Still(b, b)
    BY <1>1, OnwardSelf, SameHolds DEF Together
  <2>4. Alike(c, c)
    BY DEF Alike
  <2> HIDE DEF z
  <2> QED  BY <2>1, <2>2, <2>3, <2>4 DEF z
<1>4. CASE c.insured /\ keep # total
  <2>1. keep \in Nat /\ keep <= total
    <3>1. Less(c.outstanding, total) \in Nat /\ Less(c.outstanding, total) <= total
      <4> HIDE DEF c, total
      <4> QED  BY <1>1, LessType
    <3> HIDE DEF c, total
    <3> QED  BY <1>1, <3>1
  <2> DEFINE still == Shrunk(c.held, c.debtor, keep)
  <2>2. /\ still \in HoldSet /\ HeldAmount(still) = keep /\ (keep = 0 => still = Nothing)
        /\ \A k \in Places : At(still, k) <= At(c.held, k)
    <3> HIDE DEF keep, c
    <3>1. keep # HeldAmount(c.held) /\ keep <= HeldAmount(c.held) /\ HeldAmount(c.held) # 0
      BY <1>1, <1>4, <2>1
    <3> QED  BY <1>1, <2>1, <3>1, ShrunkType, ShrunkKeeps
  <2>3. z = Holding(b, id, still)
    BY <1>4 DEF Reheld
  <2> HIDE DEF still, z, keep
  <2>4. /\ Onward(b, z, e) /\ Still(b, z) /\ Together(b, z) /\ (Filled(b) => Filled(z))
        /\ z.rows = [b.rows EXCEPT ![id] = [c EXCEPT !.held = still]]
        /\ z.debt = b.debt /\ z.default = b.default
    BY <2>2, <2>3, HoldingLater
  <2> DEFINE r == [c EXCEPT !.held = still]
  <2>5. /\ r \in RowSet /\ r.held = still /\ r.outstanding = c.outstanding /\ r.status = c.status
        /\ r.debtor = c.debtor /\ r.creditor = c.creditor /\ r.insured = c.insured
    <3> HIDE DEF c
    <3> QED  BY <1>1, <2>2 DEF RowSet
  <2>6. /\ z.rows[id] = r /\ DOMAIN z.rows = DOMAIN b.rows
        /\ \A i \in DOMAIN b.rows : i # id => z.rows[i] = b.rows[i]
    <3> HIDE DEF r
    <3>1. z.rows = [b.rows EXCEPT ![id] = r]
      BY <2>4 DEF r
    <3> QED  BY <1>1, <2>5, <3>1, RowChanged
  <2>7. still.supply[c.debtor] \in Nat /\ still.supply[c.debtor] <= c.held.supply[c.debtor]
    <3> DEFINE d == c.debtor
               k == <<"supply", d>>
    <3>1. d \in Members
      BY <1>1 DEF RowSet
    <3> HIDE DEF d, c
    <3>2. k \in Places /\ At(still, k) = still.supply[d] /\ At(c.held, k) = c.held.supply[d]
      BY <3>1, PlaceOf, AtSupply
    <3> HIDE DEF k
    <3>3. still.supply[d] \in Nat /\ still.supply[d] <= c.held.supply[d]
      BY <2>2, <3>2, AtType
    <3> QED  BY <3>3 DEF d
  <2>8. RowPaid(c) => RowSound(r)
    <3> SUFFICES ASSUME RowPaid(c)
                 PROVE  RowSound(r)
      OBVIOUS
    <3>1. still.supply[c.debtor] = 0 /\ keep = c.outstanding /\ c.debtor # c.creditor
          /\ (~Live(c) => c.outstanding = 0)
      BY <1>1, <1>2, <1>4, <2>7 DEF RowPaid, RowSet, HoldSet
    <3>2. Live(r) = Live(c) /\ r.insured
      BY <1>4, <2>5 DEF Live
    <3> HIDE DEF c, r
    <3> QED  BY <2>2, <2>5, <3>1, <3>2 DEF RowSound
  <2>9. Alike(r, c)
    BY <2>5 DEF Alike
  <2> HIDE DEF r
  <2> QED  BY <2>4, <2>6, <2>8, <2>9 DEF z
<1> QED  BY <1>1, <1>3, <1>4 DEF RowSet

LEMMA CapacityType ==
    ASSUME NEW b \in Books, Ready, NEW m \in Members
    PROVE  Conferrable(b, m) \in Nat
<1>1. Capacity(b, {m}) \in Nat
  BY FreeTypes, CutIsNatural DEF Capacity, Purses
<1> QED  BY <1>1 DEF Conferrable, Ready, Purses

LEMMA StakedLater ==
    ASSUME NEW b \in Books, Ready, NEW c \in Members, NEW d \in Members, NEW x \in Nat, NEW e
    PROVE  /\ Onward(b, Staked(b, c, d, x), e) /\ Tracks(b, Staked(b, c, d, x))
           /\ Staked(b, c, d, x).rows = b.rows
           /\ Staked(b, c, d, x).debt = b.debt /\ Staked(b, c, d, x).default = b.default
           /\ Filled(b) => Filled(Staked(b, c, d, x))
<1>1. CASE x <= DustMinor
  <2>1. Staked(b, c, d, x) = b
    BY <1>1 DEF Staked
  <2> QED  BY <2>1, OnwardSelf, TracksSelf
<1>2. CASE ~(x <= DustMinor)
  <2> DEFINE a == <<c, d>>
             y == Less(x, Conferrable(b, c))
             edges == [b.edges EXCEPT ![a] = More(@, y)]
  <2>1. y \in Nat
    BY CapacityType, LessType
  <2>2. b \in BookSet
    BY DEF Books
  <2>3. edges \in [Arcs -> Nat] /\ \A o \in Arcs : b.edges[o] <= edges[o]
    <3> DEFINE f == b.edges
    <3>1. f \in [Arcs -> Nat]
      BY <2>2 DEF BookSet
    <3>2. edges = [f EXCEPT ![a] = More(f[a], y)]
      OBVIOUS
    <3> HIDE DEF y, f, edges, a
    <3>3. edges \in [Arcs -> Nat]
      <4>1. a \in Arcs => More(f[a], y) \in Nat
        BY <2>1, <3>1, MoreType
      <4> QED  BY <3>1, <3>2, <4>1
    <3>4. ASSUME NEW o \in Arcs
          PROVE  f[o] <= edges[o]
      <4>1. edges[o] = IF o = a THEN More(f[o], y) ELSE f[o]
        BY <3>1, <3>2
      <4>2. f[o] \in Nat
        BY <3>1
      <4> QED  BY <2>1, <4>1, <4>2 DEF More
    <3> QED  BY <3>3, <3>4 DEF f
  <2>4. Staked(b, c, d, x) = [b EXCEPT !.edges = edges]
    BY <1>2, <2>2 DEF Staked, BookSet
  <2> HIDE DEF edges
  <2>5. [b EXCEPT !.edges = edges] \in BookSet
    BY <2>2, <2>3 DEF BookSet
  <2> DEFINE z == [b EXCEPT !.edges = edges]
  <2>6. z \in BookSet /\ z.rows = b.rows /\ z.next = b.next /\ z.agreed = b.agreed
        /\ z.charged = b.charged /\ z.debt = b.debt /\ z.default = b.default
        /\ z.edges = edges /\ z.reserved = b.reserved /\ z.committed = b.committed
    BY <2>2, <2>5 DEF BookSet
  <2> HIDE DEF z
  <2>7. Filled(b) => Filled(z)
    BY <2>2, <2>3, <2>6, FilledLeft DEF Ready
  <2>8. Onward(b, z, e) /\ Tracks(b, z)
    BY <2>6, <2>7, RowsLeft, CachesLeft
  <2> QED  BY <2>4, <2>6, <2>7, <2>8 DEF z
<1> QED  BY <1>1, <1>2

LEMMA DischargedLater ==
    ASSUME NEW b \in Books, Ready, NEW id \in DOMAIN b.rows, NEW x \in Nat,
           x <= b.rows[id].outstanding, NEW e
    PROVE  /\ Onward(b, Discharged(b, id, x), e) /\ Still(b, Discharged(b, id, x))
           /\ Live(b.rows[id]) => Later(b, Discharged(b, id, x), e)
           /\ OneRow(b, Discharged(b, id, x), id)
           /\ Paid(b.rows[id], Discharged(b, id, x).rows[id], x)
<1> DEFINE c == b.rows[id]
           left == c.outstanding - x
           rest == IF left <= DustMinor THEN 0 ELSE left
           cleared == Cleared(c, rest, x)
           closed == IF c.status = "Expired" THEN "Cured" ELSE "Settled"
           r == [c EXCEPT !.outstanding = rest, !.status = IF rest = 0 THEN closed ELSE @]
           paid == [b EXCEPT !.rows[id].outstanding = rest,
                             !.rows[id].status = IF rest = 0 THEN closed ELSE @]
           kept == Reheld(paid, id)
           staked == Staked(kept, c.creditor, c.debtor, c.original - rest)
<1>1. b \in BookSet /\ b.rows \in RowFiles
  BY DEF Books, BookSet
<1>2. c \in RowSet /\ c.outstanding <= c.original
  BY <1>1, FileTypes DEF Books
<1>3. /\ rest \in Nat /\ rest <= c.outstanding
      /\ cleared \in Nat /\ c.original - rest \in Nat
  <2>1. c.outstanding \in Nat /\ c.original \in Nat
    BY <1>2 DEF RowSet
  <2> HIDE DEF c
  <2> QED  BY <1>2, <2>1 DEF Cleared, c
<1>4. /\ r \in RowSet /\ r.outstanding = rest /\ r.original = c.original /\ r.arb = c.arb
      /\ r.maturity = c.maturity /\ r.status = (IF rest = 0 THEN closed ELSE c.status)
      /\ r.debtor = c.debtor /\ r.creditor = c.creditor /\ r.held = c.held /\ r.insured = c.insured
  <2> HIDE DEF c, rest
  <2> QED  BY <1>2, <1>3 DEF RowSet, Statuses
<1>5. Due(r, e) => Due(c, e)
  <2>1. closed # "Active"
    OBVIOUS
  <2> HIDE DEF c, rest, r, closed
  <2>2. c.outstanding \in Nat /\ c.maturity \in Nat
    BY <1>2 DEF RowSet
  <2> QED  BY <1>3, <1>4, <2>1, <2>2 DEF Due, Ready
<1>6. /\ Onward(b, paid, e) /\ Still(b, paid) /\ paid \in BookSet /\ paid.rows = [b.rows EXCEPT ![id] = r]
      /\ paid.debt = b.debt /\ paid.default = b.default
      /\ Filled(b) => Filled(paid)
  <2>1. paid = [b EXCEPT !.rows = [b.rows EXCEPT ![id] = r]]
    BY <1>1, <1>2 DEF RowSet
  <2>2. [b.rows EXCEPT ![id] = r] \in RowFiles
    <3> HIDE DEF r
    <3> QED  BY <1>1, <1>4, RowChanged
  <2> HIDE DEF r, paid, c, rest
  <2>3. paid \in BookSet /\ paid.rows = [b.rows EXCEPT ![id] = r] /\ paid.next = b.next
        /\ paid.agreed = b.agreed /\ paid.charged = b.charged
        /\ paid.debt = b.debt /\ paid.default = b.default
        /\ paid.edges = b.edges /\ paid.reserved = b.reserved /\ paid.committed = b.committed
    BY <1>1, <2>1, <2>2 DEF BookSet
  <2>4. r.outstanding <= r.original
    <3>1. c.outstanding \in Nat /\ c.original \in Nat
      BY <1>2 DEF RowSet
    <3> QED  BY <1>2, <1>3, <1>4, <3>1
  <2>5. Onward(b, paid, e)
    BY <1>4, <1>5, <2>3, <2>4, OneRowLater DEF c
  <2>6. Filled(b) => Filled(paid)
    BY <1>1, <1>4, <2>3, RowFilled DEF c
  <2>7. Still(b, paid)
    <3>1. \A k \in Places : At(r.held, k) <= At(b.rows[id].held, k)
      BY <1>1, <1>4, HeldAtType DEF c
    <3> QED  BY <1>1, <1>4, <2>3, <3>1, OneRowStill
  <2> QED  BY <2>3, <2>5, <2>6, <2>7
<1>7. paid \in Books /\ id \in DOMAIN paid.rows
  BY <1>6 DEF Onward
<1>8. /\ Onward(paid, kept, e) /\ Still(paid, kept) /\ Together(paid, kept)
      /\ kept.debt = paid.debt /\ kept.default = paid.default
      /\ RowPaid(paid.rows[id]) => RowSound(kept.rows[id])
      /\ \A i \in DOMAIN paid.rows : i # id => kept.rows[i] = paid.rows[i]
      /\ DOMAIN kept.rows = DOMAIN paid.rows /\ Alike(kept.rows[id], paid.rows[id])
      /\ Filled(paid) => Filled(kept)
  <2> HIDE DEF paid
  <2> QED  BY <1>7, ReheldLater DEF Ready
<1>9. /\ Onward(kept, staked, e) /\ Together(kept, staked) /\ staked.rows = kept.rows
      /\ staked.debt = kept.debt /\ staked.default = kept.default
      /\ Filled(kept) => Filled(staked)
  <2>1. kept \in Books
    BY <1>8 DEF Onward
  <2>2. c.creditor \in Members /\ c.debtor \in Members
    BY <1>2 DEF RowSet
  <2> HIDE DEF kept, c, rest
  <2> QED  BY ZenonT(30), <1>3, <2>1, <2>2, StakedLater DEF Tracks
<1> DEFINE debt == [staked.debt EXCEPT ![c.debtor] = Minus(@, cleared)]
           default == [staked.default EXCEPT ![c.debtor] =
                          IF c.status = "Expired" THEN Minus(@, cleared) ELSE @]
           end == [staked EXCEPT !.debt = debt, !.default = default]
<1>10. staked \in BookSet /\ staked \in Books
  BY <1>9 DEF Onward, Books
<1>11. Discharged(b, id, x) = end
  <2> HIDE DEF paid, kept
  <2>1. Discharged(b, id, x) = [staked EXCEPT !.debt[c.debtor] = Minus(@, cleared),
                                  !.default[c.debtor] = IF c.status = "Expired" THEN Minus(@, cleared) ELSE @]
    BY DEF Discharged, kept, paid
  <2> HIDE DEF staked, c, cleared
  <2> QED  BY <1>10, <2>1 DEF BookSet
<1>12. debt \in Purses /\ default \in Purses
  <2> HIDE DEF staked, cleared, c
  <2> QED  BY <1>3, <1>10, MinusIsNatural DEF BookSet, Purses
<1> HIDE DEF staked, debt, default
<1>13. end \in BookSet /\ end.rows = staked.rows /\ end.next = staked.next
       /\ end.agreed = staked.agreed /\ end.charged = staked.charged
       /\ end.debt = debt /\ end.default = default /\ end.edges = staked.edges
       /\ end.reserved = staked.reserved /\ end.committed = staked.committed
  BY <1>10, <1>12 DEF BookSet
<1> HIDE DEF end
<1>14. Onward(staked, end, e)
  BY <1>10, <1>13, RowsLeft
<1>15. Onward(b, staked, e)
  BY <1>6, <1>8, <1>9, OnwardTwice
<1>16. Onward(b, end, e)
  BY <1>14, <1>15, OnwardTwice
<1>17. ASSUME Live(c), Sound(b)
       PROVE  RowsSound(end)
  <2>1. /\ DOMAIN paid.rows = DOMAIN b.rows /\ paid.rows[id] = r
        /\ \A i \in DOMAIN b.rows : i # id => paid.rows[i] = b.rows[i]
    <3> HIDE DEF r, paid
    <3> QED  BY <1>1, <1>4, <1>6, RowChanged
  <2>2. RowPaid(r)
    <3>1. RowSound(c)
      BY <1>17 DEF Sound, RowsSound
    <3>2. c.outstanding \in Nat
      BY <1>2 DEF RowSet
    <3> HIDE DEF r, rest, c
    <3>3. ~Live(r) => r.outstanding = 0
      BY <1>4, <1>17 DEF Live
    <3>4. IF c.insured THEN HeldAmount(c.held) = c.outstanding ELSE HeldAmount(c.held) = 0
      BY <1>17, <3>1 DEF RowSound
    <3> QED  BY <1>3, <1>4, <3>1, <3>2, <3>3, <3>4 DEF RowSound, RowPaid
  <2> HIDE DEF r, paid, kept
  <2>3. RowSound(kept.rows[id])
    BY <1>8, <2>1, <2>2
  <2>4. \A i \in DOMAIN b.rows : RowSound(b.rows[i])
    BY <1>17 DEF Sound, RowsSound
  <2> QED  BY <1>8, <1>9, <1>13, <2>1, <2>3, <2>4 DEF RowsSound
<1>18. ASSUME Live(c), Sound(b), NEW T \in Kinds, NEW m \in Members
       PROVE  Cached(end, T)[m] = Tally(end, m, T)
  <2>1. Tally(end, m, T) = Tally(paid, m, T)
    <3>1. Tally(end, m, T) = Tally(staked, m, T)
      BY <1>13 DEF Tally
    <3>2. Together(paid, staked)
      <4>1. kept \in BookSet /\ paid \in BookSet
        BY <1>6, <1>8 DEF Onward, Books
      <4> HIDE DEF kept, paid
      <4> QED  BY <1>8, <1>9, <1>10, <4>1, TogetherTwice
    <3>3. Cached(staked, T)[m] = Cached(paid, T)[m] /\ Cached(paid, T)[m] \in Nat
      <4> HIDE DEF kept, paid
      <4> QED  BY <1>6, <1>8, <1>9, CachedType DEF Cached
    <3> HIDE DEF kept, paid
    <3>4. Tally(paid, m, T) \in Nat /\ Tally(staked, m, T) \in Nat
      BY <1>6, <1>10, TallyType
    <3>5. Cached(paid, T)[m] + Tally(staked, m, T) = Cached(staked, T)[m] + Tally(paid, m, T)
      BY <3>2 DEF Together
    <3> QED  BY <3>1, <3>3, <3>4, <3>5
  <2>2. Tally(paid, m, T) + Weight(c, m, T) = Tally(b, m, T) + Weight(r, m, T)
    <3> HIDE DEF r, paid
    <3> QED  BY <1>1, <1>4, <1>6, TallyChanged
  <2>3. Weight(c, m, T) \in Nat /\ Weight(r, m, T) \in Nat /\ Weight(c, m, T) <= Tally(b, m, T)
        /\ Tally(b, m, T) \in Nat /\ Tally(paid, m, T) \in Nat
    <3> HIDE DEF r, paid
    <3> QED  BY <1>1, <1>2, <1>4, <1>6, WeightType, TallyType
  <2>4. Cached(b, T)[m] = Tally(b, m, T)
    BY <1>18 DEF Sound, Balanced
  <2>5. Cached(staked, T) = Cached(b, T)
    <3> HIDE DEF kept, paid
    <3> QED  BY <1>6, <1>8, <1>9 DEF Cached
  <2>6. c.outstanding \in Nat /\ c.debtor \in Members /\ cleared = c.outstanding - rest
    BY <1>2 DEF RowSet, Cleared
  <2>7. staked.debt \in [Members -> Nat] /\ staked.default \in [Members -> Nat]
    BY <1>10 DEF BookSet, Purses
  <2> HIDE DEF r, rest, paid, kept, cleared
  <2>8. CASE m # c.debtor
    <3>1. Weight(c, m, T) = 0 /\ Weight(r, m, T) = 0
      BY <1>4, <2>8 DEF Weight, Kinds
    <3>2. Cached(end, T)[m] = Cached(staked, T)[m]
      <4> HIDE DEF c
      <4> QED  BY <1>13, <2>6, <2>7, <2>8 DEF Cached, debt, default
    <3> HIDE DEF c
    <3> QED  BY <2>1, <2>2, <2>3, <2>4, <2>5, <3>1, <3>2
  <2>9. CASE m = c.debtor /\ c.status \in Counting(T)
    <3>1. Weight(c, m, T) = c.outstanding
      BY <2>9 DEF Weight, Kinds
    <3>2. Weight(r, m, T) = rest
      <4>1. CASE rest = 0
        BY <1>4, <4>1 DEF Weight, Kinds
      <4>2. CASE rest # 0
        BY <1>4, <2>9, <4>2 DEF Weight, Kinds
      <4> QED  BY <4>1, <4>2
    <3>3. Cached(end, T)[m] = Minus(Cached(staked, T)[m], cleared)
      <4>1. T # "debt" => c.status = "Expired"
        BY <1>18, <2>9 DEF Counting
      <4> HIDE DEF c
      <4> QED  BY <1>13, <2>6, <2>7, <2>9, <4>1 DEF Cached, debt, default
    <3> HIDE DEF c
    <3> QED  BY <1>3, <2>1, <2>2, <2>3, <2>4, <2>5, <2>6, <3>1, <3>2, <3>3 DEF Minus
  <2>10. CASE m = c.debtor /\ c.status \notin Counting(T)
    <3>1. c.status = "Active" /\ T = "default"
      BY <1>18, <2>10 DEF Kinds, Live, Counting
    <3>2. Weight(c, m, T) = 0 /\ Weight(r, m, T) = 0
      <4>1. r.status # "Expired"
        BY <1>4, <3>1
      <4> QED  BY <3>1, <4>1 DEF Weight, Counting
    <3>3. Cached(end, T)[m] = Cached(staked, T)[m]
      <4> HIDE DEF c
      <4> QED  BY <1>13, <2>6, <2>7, <3>1 DEF Cached, default
    <3> HIDE DEF c
    <3> QED  BY <2>1, <2>2, <2>3, <2>4, <2>5, <3>2, <3>3
  <2> QED  BY <2>8, <2>9, <2>10
<1>19. Filled(b) => Filled(end)
  <2>1. supply \in Purses /\ staked.edges \in [Arcs -> Nat]
    BY <1>10 DEF Ready, BookSet
  <2>2. \A a \in Arcs : staked.edges[a] <= end.edges[a]
    BY <1>13, <2>1
  <2>3. Filled(staked) => Filled(end)
    BY <1>10, <1>13, <2>1, <2>2, FilledLeft
  <2> HIDE DEF kept, paid
  <2> QED  BY <1>6, <1>8, <1>9, <2>3
<1>20. Live(c) /\ Sound(b) => Sound(end)
  BY <1>17, <1>18, <1>19 DEF Sound, Balanced
<1>21. Still(b, end)
  <2>1. kept \in BookSet /\ DOMAIN b.rows \subseteq DOMAIN paid.rows
    BY <1>6, <1>8 DEF Onward, Books
  <2>2. end.rows = kept.rows
    BY <1>9, <1>13
  <2> HIDE DEF paid, kept
  <2>3. Still(b, kept)
    BY <1>1, <1>6, <1>8, <2>1, StillTwice
  <2> QED  BY <2>2, <2>3 DEF Still
<1>22. OneRow(b, end, id) /\ Paid(c, end.rows[id], x)
  <2>1. /\ DOMAIN paid.rows = DOMAIN b.rows /\ paid.rows[id] = r
        /\ \A i \in DOMAIN b.rows : i # id => paid.rows[i] = b.rows[i]
    <3> HIDE DEF r, paid
    <3> QED  BY <1>1, <1>4, <1>6, RowChanged
  <2>2. r.status = c.status \/ r.outstanding = 0
    <3> HIDE DEF r, c, rest, closed
    <3> QED  BY <1>4
  <2>3. rest = IF c.outstanding - x <= DustMinor THEN 0 ELSE c.outstanding - x
    OBVIOUS
  <2> HIDE DEF r, paid, kept, c, rest
  <2>4. OneRow(b, end, id) /\ Alike(end.rows[id], r)
    BY <1>8, <1>9, <1>13, <2>1 DEF OneRow, OthersLeft
  <2> QED  BY <1>4, <2>2, <2>3, <2>4 DEF Paid, Alike
<1> QED  BY <1>11, <1>16, <1>20, <1>21, <1>22 DEF Later, c

\* A discharge touches no debt but the debtor's, and no stake but the creditor's in them.
LEMMA DischargedTouches ==
    ASSUME NEW b \in Books, NEW id \in DOMAIN b.rows, NEW x
    PROVE  LET c == b.rows[id]
               z == Discharged(b, id, x)
           IN /\ \A m \in Members : m # c.debtor => z.debt[m] = b.debt[m]
              /\ \A a \in Arcs : a # <<c.creditor, c.debtor>> => z.edges[a] = b.edges[a]
<1> DEFINE c == b.rows[id]
           left == c.outstanding - x
           rest == IF left <= DustMinor THEN 0 ELSE left
           cleared == Cleared(c, rest, x)
           closed == IF c.status = "Expired" THEN "Cured" ELSE "Settled"
           paid == [b EXCEPT !.rows[id].outstanding = rest,
                             !.rows[id].status = IF rest = 0 THEN closed ELSE @]
           kept == Reheld(paid, id)
           staked == Staked(kept, c.creditor, c.debtor, c.original - rest)
           Fields == {"rows", "next", "debt", "default", "agreed", "charged", "edges", "reserved", "committed"}
           arc == <<c.creditor, c.debtor>>
<1>1. DOMAIN b = Fields /\ DOMAIN b.debt = Members /\ DOMAIN b.edges = Arcs
  <2>1. b \in BookSet
    BY DEF Books
  <2>2. b.debt \in [Members -> Nat] /\ b.edges \in [Arcs -> Nat]
    BY <2>1 DEF BookSet, Purses
  <2>3. DOMAIN b = Fields
    BY <2>1 DEF BookSet
  <2> QED  BY <2>2, <2>3
<1>2. Discharged(b, id, x) = [staked EXCEPT !.debt[c.debtor] = Minus(@, cleared),
                                !.default[c.debtor] = IF c.status = "Expired" THEN Minus(@, cleared) ELSE @]
  BY DEF Discharged
<1>3. DOMAIN paid = Fields /\ paid.debt = b.debt /\ paid.edges = b.edges
  <2> HIDE DEF rest, closed, c
  <2> QED  BY <1>1
<1> HIDE DEF paid
<1>4. DOMAIN kept = Fields /\ kept.debt = b.debt /\ kept.edges = b.edges
  <2>1. \A h : /\ DOMAIN Release(paid, h) = Fields /\ Release(paid, h).debt = b.debt
               /\ Release(paid, h).edges = b.edges
    BY <1>3 DEF Release
  <2>2. \A h : /\ DOMAIN Holding(paid, id, h) = Fields /\ Holding(paid, id, h).debt = b.debt
               /\ Holding(paid, id, h).edges = b.edges
    <3> SUFFICES ASSUME NEW h
                 PROVE  /\ DOMAIN Holding(paid, id, h) = Fields /\ Holding(paid, id, h).debt = b.debt
                        /\ Holding(paid, id, h).edges = b.edges
      OBVIOUS
    <3> DEFINE y == Release(paid, Without(paid.rows[id].held, h))
    <3>1. DOMAIN y = Fields /\ y.debt = b.debt /\ y.edges = b.edges
      BY <2>1
    <3> HIDE DEF y
    <3>2. LET w == [y EXCEPT !.rows[id].held = h]
          IN DOMAIN w = Fields /\ w.debt = b.debt /\ w.edges = b.edges
      BY <3>1
    <3> QED  BY <3>2 DEF Holding, y
  <2> QED  BY <1>3, <2>2 DEF Reheld
<1> HIDE DEF kept
<1>5. DOMAIN staked = Fields /\ staked.debt = b.debt /\ \A a \in Arcs : a # arc => staked.edges[a] = b.edges[a]
  <2> DEFINE y == c.original - rest
  <2>1. staked = IF y <= DustMinor THEN kept
                 ELSE [kept EXCEPT !.edges[arc] = More(@, Less(y, Conferrable(kept, c.creditor)))]
    BY DEF Staked
  <2> HIDE DEF staked, y, c
  <2> QED  BY <1>1, <1>4, <2>1
<1> HIDE DEF staked, cleared
<1> DEFINE z == Discharged(b, id, x)
<1>6. \A m \in Members : m # c.debtor => z.debt[m] = b.debt[m]
  <2> HIDE DEF c
  <2> QED  BY <1>1, <1>2, <1>5
<1>7. \A a \in Arcs : a # arc => z.edges[a] = b.edges[a]
  <2>1. z.edges = staked.edges
    <3> HIDE DEF c
    <3> QED  BY <1>2, <1>5
  <2> HIDE DEF z
  <2> QED  BY <1>5, <2>1
<1> QED  BY <1>6, <1>7

-----------------------------------------------------------------------------
(* Positions *)

\* What a row adds to m's position, and the position, awards charged to m
\* left out.
Worth(r, m) == Weight(r, m, "claim") - Weight(r, m, "debt")
Net(b, m) == Tally(b, m, "claim") - Tally(b, m, "debt") + b.charged[m]

\* What is whose, as m sees it.
For(n, m, x) == IF m = n THEN x ELSE 0

\* Nobody stands worse by more than k; nobody outside P stands worse.
Lost(b, c, k) == \A m \in Members : Net(b, m) <= Net(c, m) + k
Spares(b, c, P) == \A m \in Members \ P : Net(b, m) <= Net(c, m)

\* A row that owes is worth that to its creditor, and against its debtor.
LEMMA WorthIs ==
    ASSUME NEW r \in RowSet, NEW m, Live(r) \/ r.outstanding = 0
    PROVE  /\ Worth(r, m) \in Int
           /\ Worth(r, m) = For(r.creditor, m, r.outstanding) - For(r.debtor, m, r.outstanding)
<1>1. r.outstanding \in Nat
  BY DEF RowSet
<1> QED  BY <1>1 DEF Worth, Weight, Counting, Live, For

LEMMA WorthType ==
    ASSUME NEW r \in RowSet, NEW m
    PROVE  Worth(r, m) \in Int
<1>1. Weight(r, m, "claim") \in Nat /\ Weight(r, m, "debt") \in Nat
  BY WeightType
<1> QED  BY <1>1 DEF Worth

\* A row is worth what it owes, to its creditor and against its debtor.
LEMMA WorthAlike ==
    ASSUME NEW r \in RowSet, NEW c \in RowSet, Alike(r, c), NEW m
    PROVE  Worth(r, m) = Worth(c, m)
BY DEF Alike, Worth, Weight, Counting, Live

LEMMA NetType ==
    ASSUME NEW b \in BookSet, NEW m \in Members
    PROVE  Net(b, m) \in Int
<1>1. b.charged[m] \in Nat
  BY DEF BookSet, Purses
<1>2. Tally(b, m, "claim") \in Nat /\ Tally(b, m, "debt") \in Nat
  BY TallyType
<1> QED  BY <1>1, <1>2 DEF Net

LEMMA NetChanged ==
    ASSUME NEW b \in BookSet, NEW c \in BookSet, NEW id \in DOMAIN b.rows, OneRow(b, c, id),
           c.charged = b.charged, NEW m \in Members
    PROVE  /\ b.rows[id] \in RowSet /\ c.rows[id] \in RowSet
           /\ Net(c, m) = Net(b, m) + Worth(c.rows[id], m) - Worth(b.rows[id], m)
<1> DEFINE r == c.rows[id]
           s == b.rows[id]
<1>1. b.rows \in RowFiles /\ c.rows \in RowFiles
  BY DEF BookSet
<1>2. r \in RowSet /\ s \in RowSet
  BY <1>1, FileTypes DEF OneRow
<1>3. c.rows = [b.rows EXCEPT ![id] = r]
  <2>1. c.rows \in [DOMAIN b.rows -> RowSet] /\ b.rows \in [DOMAIN b.rows -> RowSet]
    BY <1>1, FileTypes DEF OneRow
  <2>2. \A i \in DOMAIN b.rows : i # id => c.rows[i] = b.rows[i]
    BY DEF OneRow, OthersLeft
  <2> QED  BY <2>1, <2>2
<1> HIDE DEF r
<1>4. ASSUME NEW T
      PROVE  Tally(c, m, T) + Weight(s, m, T) = Tally(b, m, T) + Weight(r, m, T)
  BY <1>2, <1>3, TallyChanged
<1>5. ASSUME NEW T
      PROVE  /\ Tally(c, m, T) \in Nat /\ Tally(b, m, T) \in Nat
             /\ Weight(s, m, T) \in Nat /\ Weight(r, m, T) \in Nat
  BY <1>2, TallyType, WeightType
<1>6. b.charged[m] \in Nat
  BY DEF BookSet, Purses
<1> HIDE DEF s
<1>7. Net(c, m) = Net(b, m) + Worth(r, m) - Worth(s, m)
  <2>1. /\ Tally(c, m, "claim") + Weight(s, m, "claim") = Tally(b, m, "claim") + Weight(r, m, "claim")
        /\ Tally(c, m, "debt") + Weight(s, m, "debt") = Tally(b, m, "debt") + Weight(r, m, "debt")
    BY <1>4
  <2>2. /\ Tally(c, m, "claim") \in Nat /\ Tally(b, m, "claim") \in Nat
        /\ Weight(s, m, "claim") \in Nat /\ Weight(r, m, "claim") \in Nat
        /\ Tally(c, m, "debt") \in Nat /\ Tally(b, m, "debt") \in Nat
        /\ Weight(s, m, "debt") \in Nat /\ Weight(r, m, "debt") \in Nat
    BY <1>5
  <2> QED  BY <1>6, <2>1, <2>2 DEF Net, Worth
<1> QED  BY <1>2, <1>7 DEF r, s

LEMMA NetAdded ==
    ASSUME NEW b \in Books, NEW c \in BookSet, NEW r \in RowSet,
           c.rows = Added(b.rows, b.next, r), NEW m \in Members
    PROVE  Net(c, m) = Net(b, m) + Worth(r, m) + c.charged[m] - b.charged[m]
<1>1. b \in BookSet
  BY DEF Books
<1>2. ASSUME NEW T
      PROVE  /\ Tally(c, m, T) = Tally(b, m, T) + Weight(r, m, T)
             /\ Tally(b, m, T) \in Nat /\ Weight(r, m, T) \in Nat
  BY <1>1, TallyAdded, TallyType, WeightType
<1>3. b.charged[m] \in Nat /\ c.charged[m] \in Nat
  BY <1>1 DEF BookSet, Purses
<1>4. /\ Tally(c, m, "claim") = Tally(b, m, "claim") + Weight(r, m, "claim")
      /\ Tally(c, m, "debt") = Tally(b, m, "debt") + Weight(r, m, "debt")
      /\ Tally(b, m, "claim") \in Nat /\ Weight(r, m, "claim") \in Nat
      /\ Tally(b, m, "debt") \in Nat /\ Weight(r, m, "debt") \in Nat
  BY <1>2
<1> QED  BY <1>3, <1>4 DEF Net, Worth

LEMMA LostSelf ==
    ASSUME NEW b \in BookSet, NEW c, c.rows = b.rows, c.charged = b.charged
    PROVE  Lost(b, c, 0)
<1>1. \A m \in Members : Net(c, m) = Net(b, m)
  BY DEF Net, Tally
<1>2. \A m \in Members : Net(b, m) \in Int
  BY NetType
<1> QED  BY <1>1, <1>2 DEF Lost

LEMMA LostTwice ==
    ASSUME NEW a \in BookSet, NEW b \in BookSet, NEW c \in BookSet, NEW j \in Nat, NEW k \in Nat,
           Lost(a, b, j), Lost(b, c, k)
    PROVE  Lost(a, c, j + k)
<1> SUFFICES ASSUME NEW m \in Members
             PROVE  Net(a, m) <= Net(c, m) + (j + k)
  BY DEF Lost
<1>1. Net(a, m) \in Int /\ Net(b, m) \in Int /\ Net(c, m) \in Int
  BY NetType
<1>2. Net(a, m) <= Net(b, m) + j /\ Net(b, m) <= Net(c, m) + k
  BY DEF Lost
<1> QED  BY <1>1, <1>2

LEMMA LostSpares ==
    ASSUME NEW b \in BookSet, NEW c \in BookSet, Lost(b, c, 0), NEW P
    PROVE  Spares(b, c, P)
<1> SUFFICES ASSUME NEW m \in Members
             PROVE  Net(b, m) <= Net(c, m)
  BY DEF Spares
<1>1. Net(b, m) <= Net(c, m) + 0 /\ Net(c, m) \in Int
  BY NetType DEF Lost
<1> QED  BY <1>1

\* One row changes, not what it owes nor to whom.
LEMMA LostAlike ==
    ASSUME NEW b \in BookSet, NEW c \in BookSet, NEW id \in DOMAIN b.rows, OneRow(b, c, id),
           c.charged = b.charged, Alike(c.rows[id], b.rows[id])
    PROVE  Lost(b, c, 0)
<1> SUFFICES ASSUME NEW m \in Members
             PROVE  Net(b, m) <= Net(c, m) + 0
  BY DEF Lost
<1> DEFINE r == c.rows[id]
           s == b.rows[id]
<1>1. r \in RowSet /\ s \in RowSet /\ Net(c, m) = Net(b, m) + Worth(r, m) - Worth(s, m)
  BY NetChanged
<1> HIDE DEF r, s
<1>2. Worth(r, m) = Worth(s, m) /\ Worth(s, m) \in Int
  BY <1>1, WorthAlike, WorthType DEF r, s
<1> QED  BY <1>1, <1>2, NetType

\* A row is opened: its creditor is owed more, its debtor owes more.
LEMMA OpenedNet ==
    ASSUME NEW b \in Books, NEW r \in RowSet, r.status = "Active", NEW m \in Members
    PROVE  Net(Opened(b, r), m) = Net(b, m) + For(r.creditor, m, r.outstanding)
                                            - For(r.debtor, m, r.outstanding)
<1> DEFINE c == Opened(b, r)
<1>1. b \in BookSet
  BY DEF Books
<1>2. c \in BookSet /\ c.rows = Added(b.rows, b.next, r) /\ c.charged = b.charged
  BY <1>1, OpenedFields
<1> HIDE DEF c
<1>3. Net(c, m) = Net(b, m) + Worth(r, m) + c.charged[m] - b.charged[m]
  BY <1>2, NetAdded
<1>4. b.charged[m] \in Nat /\ c.charged[m] = b.charged[m] /\ Net(b, m) \in Int
  BY <1>1, <1>2, NetType DEF BookSet, Purses
<1>5. /\ Worth(r, m) \in Int
      /\ Worth(r, m) = For(r.creditor, m, r.outstanding) - For(r.debtor, m, r.outstanding)
  BY WorthIs DEF Live
<1>6. Net(c, m) = Net(b, m) + Worth(r, m)
  BY <1>3, <1>4, <1>5
<1>7. For(r.creditor, m, r.outstanding) \in Nat /\ For(r.debtor, m, r.outstanding) \in Nat
  BY DEF For, RowSet
<1> QED  BY <1>4, <1>5, <1>6, <1>7 DEF c

\* A payment takes off the claim what it takes off the debt: what is paid, and
\* what is forgiven at dust.
Off(b, c, id) == b.rows[id].outstanding - c.rows[id].outstanding

LEMMA DischargedNet ==
    ASSUME NEW b \in Books, Ready, NEW id \in DOMAIN b.rows, Live(b.rows[id]), NEW x \in Nat,
           x <= b.rows[id].outstanding, NEW m \in Members
    PROVE  LET c == b.rows[id]
               z == Discharged(b, id, x)
               y == Off(b, z, id)
           IN /\ y \in Nat /\ x <= y /\ y <= x + DustMinor
              /\ Net(z, m) = Net(b, m) - For(c.creditor, m, y) + For(c.debtor, m, y)
<1> DEFINE c == b.rows[id]
           z == Discharged(b, id, x)
           r == z.rows[id]
           o == c.outstanding
           y == Off(b, z, id)
<1>1. Onward(b, z, epoch) /\ OneRow(b, z, id) /\ Paid(c, r, x)
  BY DischargedLater
<1> HIDE DEF z
<1>2. b \in BookSet /\ z \in BookSet /\ z.charged = b.charged
  BY <1>1 DEF Onward, Books
<1>3. c \in RowSet /\ r \in RowSet /\ Net(z, m) = Net(b, m) + Worth(r, m) - Worth(c, m)
  BY <1>1, <1>2, NetChanged
<1>4. Net(b, m) \in Int
  BY <1>2, NetType
<1>5. o \in Nat /\ r.outstanding \in Nat /\ x <= o /\ y = o - r.outstanding
  BY <1>3 DEF RowSet, Off
<1>6. r.outstanding = IF o - x <= DustMinor THEN 0 ELSE o - x
  BY <1>1 DEF Paid
<1>7. y \in Nat /\ x <= y /\ y <= x + DustMinor
  <2> DEFINE q == r.outstanding
  <2>1. q \in Nat /\ o \in Nat /\ x <= o /\ y = o - q /\ q = (IF o - x <= DustMinor THEN 0 ELSE o - x)
    BY <1>5, <1>6
  <2> HIDE DEF q, o, y
  <2> QED  BY <2>1 DEF Ready
<1>8. Live(r) \/ r.outstanding = 0
  BY <1>1 DEF Paid, Live
<1>9. /\ Worth(c, m) = For(c.creditor, m, o) - For(c.debtor, m, o)
      /\ Worth(r, m) = For(r.creditor, m, r.outstanding) - For(r.debtor, m, r.outstanding)
  <2> HIDE DEF c, r
  <2>1. Live(c)
    BY DEF c
  <2> QED  BY <1>3, <1>8, <2>1, WorthIs
<1>10. r.creditor = c.creditor /\ r.debtor = c.debtor
  BY <1>1 DEF Paid
<1> DEFINE d == c.debtor
           e == c.creditor
           q == r.outstanding
<1>11. Worth(c, m) = For(e, m, o) - For(d, m, o) /\ Worth(r, m) = For(e, m, q) - For(d, m, q)
  BY <1>9, <1>10
<1>12. q \in Nat /\ o \in Nat /\ y = o - q
  BY <1>5
<1>13. Net(z, m) = Net(b, m) + Worth(r, m) - Worth(c, m)
  BY <1>3
<1> HIDE DEF c, r, d, e, o, q, y
<1>14. Net(z, m) = Net(b, m) - For(e, m, y) + For(d, m, y)
  BY <1>4, <1>7, <1>11, <1>12, <1>13 DEF For
<1> QED  BY <1>7, <1>14 DEF z, y, c, d, e

\* Only the two parties of a payment stand otherwise for it, and the debtor no worse.
LEMMA DischargedSpares ==
    ASSUME NEW b \in Books, Ready, NEW id \in DOMAIN b.rows, Live(b.rows[id]), NEW x \in Nat,
           x <= b.rows[id].outstanding
    PROVE  Spares(b, Discharged(b, id, x), {b.rows[id].creditor})
<1> DEFINE c == b.rows[id]
           z == Discharged(b, id, x)
<1> SUFFICES ASSUME NEW m \in Members, m # c.creditor
             PROVE  Net(b, m) <= Net(z, m)
  BY DEF Spares
<1> DEFINE y == Off(b, z, id)
<1>1. y \in Nat /\ Net(z, m) = Net(b, m) - For(c.creditor, m, y) + For(c.debtor, m, y)
  BY DischargedNet
<1>2. Net(b, m) \in Int
  BY NetType DEF Books
<1> HIDE DEF z, y, c
<1> QED  BY <1>1, <1>2 DEF For

-----------------------------------------------------------------------------
(* Substitution and expiry *)

\* No row of a book is touched.
OldRows(b, c) == \A i \in DOMAIN b.rows : c.rows[i] = b.rows[i]

LEMMA OldRowsAdded ==
    ASSUME NEW b \in Books, NEW c, NEW r \in RowSet, c.rows = Added(b.rows, b.next, r)
    PROVE  OldRows(b, c)
<1> DEFINE f == b.rows
           k == b.next
<1>1. f \in RowFiles /\ k \in Nat /\ \A i \in DOMAIN f : i # k
  BY FileTypes DEF Books, BookSet
<1>2. c.rows = Added(f, k, r)
  OBVIOUS
<1> HIDE DEF f, k
<1>3. \A i \in DOMAIN f : i # k => Added(f, k, r)[i] = f[i]
  BY <1>1, RowAdded
<1>4. \A i \in DOMAIN f : c.rows[i] = f[i]
  BY <1>1, <1>2, <1>3
<1> QED  BY <1>4 DEF OldRows, f

LEMMA LegLater ==
    ASSUME NEW b \in Books, NEW u \in Members, NEW c \in RowSet, NEW x \in Nat, NEW e \in Nat
    PROVE  /\ Onward(b, Leg(b, u, c, x, e), e) /\ Tracks(b, Leg(b, u, c, x, e))
           /\ OldRows(b, Leg(b, u, c, x, e)) /\ Steady(b, Leg(b, u, c, x, e))
           /\ \A k \in Places : Total(Leg(b, u, c, x, e), k) = Total(b, k)
<1> DEFINE due == e + MinMaturity
           y == c.creditor
           r == Row(u, y, x, due, Uninsured, e, e)
<1>1. CASE u = c.creditor \/ x = 0
  <2>1. Leg(b, u, c, x, e) = b
    BY <1>1 DEF Leg
  <2> QED  BY <2>1, OnwardSelf, TracksSelf DEF OldRows, Steady
<1>2. CASE ~(u = c.creditor \/ x = 0)
  <2>1. MinMaturity \in Nat /\ c.creditor \in Members /\ Uninsured \in Holdings
    BY LedgerAssumption, NothingType DEF RowSet, Uninsured, Holdings
  <2>2. due \in Nat /\ e <= due
    BY <2>1
  <2>3. r \in RowSet /\ r.outstanding = x /\ r.original = x /\ r.maturity = due
        /\ r.arb = NoTerms /\ r.status = "Active" /\ r.held = Nothing /\ RowSound(r)
    <3>1. y \in Members /\ u # y
      BY <1>2, <2>1
    <3> HIDE DEF due, y
    <3> QED  BY <2>2, <3>1, PlainRow
  <2> HIDE DEF r
  <2>4. ~Due(r, e)
    BY <2>2, <2>3, NotYetDue
  <2>5. Onward(b, Opened(b, r), e)
    BY <2>3, <2>4, OpenedLater
  <2>6. /\ Tracks(b, Opened(b, r)) /\ Steady(b, Opened(b, r))
        /\ \A k \in Places : Total(Opened(b, r), k) = Total(b, k)
    BY <2>3, OpenedTracks
  <2>7. OldRows(b, Opened(b, r))
    <3>1. Opened(b, r).rows = Added(b.rows, b.next, r)
      BY <2>3, OpenedFields DEF Books
    <3> QED  BY <2>3, <3>1, OldRowsAdded
  <2> QED  BY <1>2, <2>5, <2>6, <2>7 DEF Leg, r
<1> QED  BY <1>1, <1>2

\* The piece of a sound claim that goes to an underwriter of it is sound.
LEMMA ClaimType ==
    ASSUME NEW c \in RowSet, NEW u \in Underwriters(c.held), NEW x \in Nat, NEW e, c.status = "Expired"
    PROVE  /\ Claim(c, u, x) \in RowSet
           /\ Claim(c, u, x).arb = c.arb /\ ~Due(Claim(c, u, x), e)
           /\ Claim(c, u, x).outstanding = x /\ Claim(c, u, x).original = x
           /\ Claim(c, u, x).debtor = c.debtor /\ Claim(c, u, x).status = "Expired"
           /\ Claim(c, u, x).creditor = u
           /\ Claim(c, u, x).held = Piece(c.held, c.debtor, u)
           /\ x = c.held.supply[u] /\ RowSound(c) => RowSound(Claim(c, u, x))
<1>1. Piece(c.held, c.debtor, u) \in HoldSet /\ u \in Members
  BY PieceType DEF RowSet, Underwriters
<1> DEFINE h == Piece(c.held, c.debtor, u)
<1>2. Claim(c, u, x) = [c EXCEPT !.creditor = u, !.outstanding = x, !.original = x, !.insured = TRUE, !.held = h]
  BY DEF Claim
<1> HIDE DEF h
<1>3. [c EXCEPT !.creditor = u, !.outstanding = x, !.original = x, !.insured = TRUE, !.held = h] \in RowSet
  BY <1>1 DEF RowSet, h
<1>4. /\ Claim(c, u, x).arb = c.arb /\ Claim(c, u, x).status = c.status
      /\ Claim(c, u, x).outstanding = x /\ Claim(c, u, x).original = x
      /\ Claim(c, u, x).debtor = c.debtor /\ Claim(c, u, x).creditor = u
      /\ Claim(c, u, x).held = h /\ Claim(c, u, x).insured = TRUE
  BY <1>2 DEF RowSet
<1>5. ASSUME x = c.held.supply[u], RowSound(c)
      PROVE  RowSound(Claim(c, u, x))
  <2>1. c.held \in HoldSet /\ c.debtor \in Members
    BY DEF RowSet
  <2>2. HeldAmount(h) = x
    BY <1>5, <2>1, PieceKeeps DEF h
  <2>3. c.held.supply[u] > 0 /\ c.held.supply[c.debtor] = 0
    BY <1>5 DEF Underwriters, RowSound
  <2>4. c.debtor # u
    BY <2>3
  <2>5. h.supply[c.debtor] = 0
    BY <2>1, <2>4, PieceSupply DEF h
  <2> DEFINE q == Claim(c, u, x)
  <2>6. q.status = "Expired" /\ q.held = h /\ q.outstanding = x /\ q.debtor = c.debtor
        /\ q.creditor = u /\ q.insured = TRUE
    BY <1>4
  <2> HIDE DEF q
  <2>7. RowSound(q)
    BY <1>5, <2>2, <2>3, <2>4, <2>5, <2>6 DEF RowSound, Live
  <2> QED  BY <2>7 DEF q
<1> QED  BY <1>2, <1>3, <1>4, <1>5 DEF Due, h

\* An underwriter's leg is owed to the creditor of the claim.
LEMMA LegNet ==
    ASSUME NEW b \in Books, NEW u \in Members, NEW c \in RowSet, NEW x \in Nat, NEW e \in Nat,
           NEW m \in Members
    PROVE  Net(Leg(b, u, c, x, e), m) = Net(b, m) + For(c.creditor, m, x) - For(u, m, x)
<1> DEFINE due == e + MinMaturity
           y == c.creditor
           r == Row(u, y, x, due, Uninsured, e, e)
<1>0. Net(b, m) \in Int
  BY NetType DEF Books
<1>1. CASE u = c.creditor \/ x = 0
  <2>1. Leg(b, u, c, x, e) = b
    BY <1>1 DEF Leg
  <2>2. For(c.creditor, m, x) = For(u, m, x) /\ For(u, m, x) \in Nat
    BY <1>1 DEF For
  <2> QED  BY <1>0, <2>1, <2>2
<1>2. CASE ~(u = c.creditor \/ x = 0)
  <2>1. due \in Nat /\ y \in Members /\ u # y
    BY <1>2, LedgerAssumption DEF RowSet
  <2>2. r \in RowSet /\ r.outstanding = x /\ r.status = "Active"
    <3> HIDE DEF due, y
    <3> QED  BY <2>1, PlainRow
  <2>3. r.creditor = y /\ r.debtor = u
    BY DEF Row
  <2> HIDE DEF r
  <2>4. Net(Opened(b, r), m) = Net(b, m) + For(y, m, x) - For(u, m, x)
    BY <2>2, <2>3, OpenedNet
  <2> QED  BY <1>2, <2>4 DEF Leg, r
<1> QED  BY <1>1, <1>2

\* Of the claim c, gap is not yet anyone's: its creditor misses it, and its
\* debtor does not owe it.
Owes(b, x, c, gap) ==
    \A m \in Members : Net(x, m) + For(c.creditor, m, gap) = Net(b, m) + For(c.debtor, m, gap)

LEMMA FirstPiece ==
    ASSUME NEW b \in Books, NEW y \in Books, NEW id \in DOMAIN b.rows, NEW q \in RowSet, NEW e \in Nat,
           y.rows = [b.rows EXCEPT ![id] = q], y.charged = b.charged,
           b.rows[id].status = "Expired", q.status = "Expired", q.debtor = b.rows[id].debtor,
           q.outstanding <= b.rows[id].outstanding
    PROVE  Owes(b, Leg(y, q.creditor, b.rows[id], q.outstanding, e), b.rows[id],
                b.rows[id].outstanding - q.outstanding)
<1> DEFINE c == b.rows[id]
           u == q.creditor
           v == q.outstanding
           o == c.outstanding
           z == Leg(y, u, c, v, e)
<1>1. b \in BookSet /\ y \in BookSet /\ b.rows \in RowFiles
  BY DEF Books, BookSet
<1>2. c \in RowSet
  BY <1>1, FileTypes
<1>3. u \in Members /\ v \in Nat /\ o \in Nat /\ v <= o
  BY <1>2 DEF RowSet
<1>4. OneRow(b, y, id) /\ y.rows[id] = q
  BY <1>1, RowChanged DEF OneRow, OthersLeft
<1> SUFFICES ASSUME NEW m \in Members
             PROVE  Net(z, m) + For(c.creditor, m, o - v) = Net(b, m) + For(c.debtor, m, o - v)
  BY DEF Owes
<1>5. Net(y, m) = Net(b, m) + Worth(q, m) - Worth(c, m) /\ Net(b, m) \in Int
  BY <1>1, <1>4, NetChanged, NetType
<1>6. Worth(q, m) = For(u, m, v) - For(c.debtor, m, v)
  BY WorthIs DEF Live
<1>7. Worth(c, m) = For(c.creditor, m, o) - For(c.debtor, m, o)
  <2> HIDE DEF c
  <2>1. Live(c)
    BY DEF Live, c
  <2> QED  BY <1>2, <2>1, WorthIs
<1>8. Net(z, m) = Net(y, m) + For(c.creditor, m, v) - For(u, m, v)
  <2> HIDE DEF c, u, v
  <2> QED  BY <1>2, <1>3, LegNet
<1> HIDE DEF c, u, v, o, z
<1> QED  BY <1>3, <1>5, <1>6, <1>7, <1>8 DEF For

LEMMA NextPiece ==
    ASSUME NEW b \in Books, NEW x \in Books, NEW y \in Books, NEW c \in RowSet, NEW p \in RowSet,
           NEW e \in Nat, NEW gap \in Nat,
           y.rows = Added(x.rows, x.next, p), y.charged = x.charged,
           p.status = "Expired", p.debtor = c.debtor, p.outstanding <= gap, Owes(b, x, c, gap)
    PROVE  Owes(b, Leg(y, p.creditor, c, p.outstanding, e), c, gap - p.outstanding)
<1> DEFINE u == p.creditor
           v == p.outstanding
           z == Leg(y, u, c, v, e)
<1>1. b \in BookSet /\ x \in BookSet /\ y \in BookSet
  BY DEF Books
<1>2. u \in Members /\ v \in Nat /\ v <= gap
  BY DEF RowSet
<1> SUFFICES ASSUME NEW m \in Members
             PROVE  Net(z, m) + For(c.creditor, m, gap - v) = Net(b, m) + For(c.debtor, m, gap - v)
  BY DEF Owes
<1>3. Net(y, m) = Net(x, m) + Worth(p, m) + y.charged[m] - x.charged[m]
  BY <1>1, NetAdded
<1>4. x.charged[m] \in Nat /\ y.charged[m] = x.charged[m] /\ Net(x, m) \in Int /\ Net(b, m) \in Int
  BY <1>1, NetType DEF BookSet, Purses
<1>5. Worth(p, m) = For(u, m, v) - For(c.debtor, m, v)
  BY WorthIs DEF Live
<1>6. Net(z, m) = Net(y, m) + For(c.creditor, m, v) - For(u, m, v)
  <2> HIDE DEF u, v
  <2> QED  BY <1>2, LegNet
<1>7. Net(x, m) + For(c.creditor, m, gap) = Net(b, m) + For(c.debtor, m, gap)
  BY DEF Owes
<1>8. Net(y, m) = Net(x, m) + Worth(p, m)
  BY <1>3, <1>4, WorthType
<1> HIDE DEF u, v, z
<1>9. Net(z, m) = Net(x, m) - For(c.debtor, m, v) + For(c.creditor, m, v)
  BY <1>2, <1>4, <1>5, <1>6, <1>8 DEF For
<1> QED  BY <1>2, <1>4, <1>7, <1>9 DEF For

LEMMA SubrogatedLater ==
    ASSUME NEW b \in Books, NEW e, NEW r \in RowSet, r.outstanding <= r.original,
           r.arb = NoTerms, ~Due(r, e)
    PROVE  /\ Onward(b, Subrogated(b, r), e)
           /\ Subrogated(b, r) \in BookSet /\ Subrogated(b, r).rows = Added(b.rows, b.next, r)
           /\ Subrogated(b, r).debt = b.debt /\ Subrogated(b, r).default = b.default
           /\ Steady(b, Subrogated(b, r))
<1> DEFINE f == b.rows
           k == b.next
           g == Added(f, k, r)
<1>1. b \in BookSet
  BY DEF Books
<1>2. g \in RowFiles /\ k + 1 \in Nat
  <2>1. f \in RowFiles /\ k \in Nat
    BY <1>1 DEF BookSet
  <2> HIDE DEF f, k
  <2>2. Added(f, k, r) \in RowFiles
    BY <2>1, RowAdded
  <2> QED  BY <2>1, <2>2
<1>3. Subrogated(b, r) = [b EXCEPT !.rows = g, !.next = k + 1]
  BY <1>1 DEF Subrogated, BookSet
<1> HIDE DEF g, k
<1>4. [b EXCEPT !.rows = g, !.next = k + 1] \in BookSet
  BY <1>1, <1>2 DEF BookSet
<1>5. /\ Subrogated(b, r) \in BookSet /\ Subrogated(b, r).rows = Added(b.rows, b.next, r)
      /\ Subrogated(b, r).next = b.next + 1
      /\ Subrogated(b, r).agreed = b.agreed /\ Subrogated(b, r).charged = b.charged
      /\ Subrogated(b, r).debt = b.debt /\ Subrogated(b, r).default = b.default
      /\ Steady(b, Subrogated(b, r))
  BY <1>1, <1>3, <1>4 DEF BookSet, Steady, g, k
<1> QED  BY <1>5, RowLater

\* While a claim is divided, what the pieces so far leave out of it is owed
\* and on no row.
Short(b, x, d, gap) ==
    \A T \in Kinds, m \in Members :
        Cached(b, T)[m] + Tally(x, m, T) + (IF m = d THEN gap ELSE 0) = Cached(x, T)[m] + Tally(b, m, T)

LEMMA ShortTogether ==
    ASSUME NEW b \in BookSet, NEW x \in BookSet, NEW y \in BookSet, NEW d, NEW gap \in Nat,
           Short(b, x, d, gap), Together(x, y)
    PROVE  Short(b, y, d, gap)
<1> SUFFICES ASSUME NEW T \in Kinds, NEW m \in Members
             PROVE  Cached(b, T)[m] + Tally(y, m, T) + (IF m = d THEN gap ELSE 0)
                       = Cached(y, T)[m] + Tally(b, m, T)
  BY DEF Short
<1> DEFINE g == IF m = d THEN gap ELSE 0
<1>1. /\ Cached(b, T)[m] + Tally(x, m, T) + g = Cached(x, T)[m] + Tally(b, m, T)
      /\ Cached(x, T)[m] + Tally(y, m, T) = Cached(y, T)[m] + Tally(x, m, T)
  BY DEF Short, Together
<1>2. /\ Cached(b, T)[m] \in Nat /\ Cached(x, T)[m] \in Nat /\ Cached(y, T)[m] \in Nat
      /\ Tally(b, m, T) \in Nat /\ Tally(x, m, T) \in Nat /\ Tally(y, m, T) \in Nat /\ g \in Nat
  BY CachedType, TallyType
<1> DEFINE p == Cached(b, T)[m]
           q == Cached(x, T)[m]
           r == Cached(y, T)[m]
           i == Tally(b, m, T)
           j == Tally(x, m, T)
           k == Tally(y, m, T)
<1> HIDE DEF g
<1>3. p + k + g = r + i
  <2>1. p + j + g = q + i /\ q + k = r + j
    BY <1>1
  <2>2. p \in Nat /\ q \in Nat /\ r \in Nat /\ i \in Nat /\ j \in Nat /\ k \in Nat /\ g \in Nat
    BY <1>2
  <2> HIDE DEF p, q, r, i, j, k
  <2> QED  BY <2>1, <2>2
<1> QED  BY <1>3 DEF g

\* What a row in default counts for, in either cache.
LEMMA DefaultWeighs ==
    ASSUME NEW r \in RowSet, r.status = "Expired", NEW T \in Kinds, NEW m
    PROVE  Weight(r, m, T) = IF m = r.debtor THEN r.outstanding ELSE 0
BY DEF Weight, Kinds, Counting

LEMMA ShortFirst ==
    ASSUME NEW b \in BookSet, NEW x \in BookSet, NEW id \in DOMAIN b.rows, NEW r \in RowSet,
           b.rows[id].status = "Expired", r.status = "Expired", r.debtor = b.rows[id].debtor,
           r.outstanding <= b.rows[id].outstanding,
           x.rows = [b.rows EXCEPT ![id] = r], x.debt = b.debt, x.default = b.default
    PROVE  Short(b, x, r.debtor, b.rows[id].outstanding - r.outstanding)
<1> DEFINE c == b.rows[id]
           gap == c.outstanding - r.outstanding
<1>1. c \in RowSet /\ c.outstanding \in Nat /\ r.outstanding \in Nat /\ gap \in Nat
  <2>1. c \in RowSet /\ c.outstanding \in Nat
    BY FileTypes DEF BookSet, RowSet
  <2>2. r.outstanding \in Nat
    BY DEF RowSet
  <2> QED  BY <2>1, <2>2
<1> SUFFICES ASSUME NEW T \in Kinds, NEW m \in Members
             PROVE  Cached(b, T)[m] + Tally(x, m, T) + (IF m = r.debtor THEN gap ELSE 0)
                       = Cached(x, T)[m] + Tally(b, m, T)
  BY DEF Short
<1>2. Tally(x, m, T) + Weight(c, m, T) = Tally(b, m, T) + Weight(r, m, T)
  BY TallyChanged
<1>3. /\ Weight(c, m, T) = IF m = r.debtor THEN c.outstanding ELSE 0
      /\ Weight(r, m, T) = IF m = r.debtor THEN r.outstanding ELSE 0
  BY <1>1, DefaultWeighs
<1>4. /\ Cached(b, T)[m] \in Nat /\ Cached(x, T)[m] = Cached(b, T)[m]
      /\ Tally(b, m, T) \in Nat /\ Tally(x, m, T) \in Nat
  BY CachedType, TallyType DEF Cached
<1> HIDE DEF c
<1> QED  BY <1>1, <1>2, <1>3, <1>4

LEMMA ShortMore ==
    ASSUME NEW b \in BookSet, NEW x \in Books, NEW y \in BookSet, NEW r \in RowSet,
           NEW gap \in Nat, r.status = "Expired", r.outstanding <= gap,
           Short(b, x, r.debtor, gap),
           y.rows = Added(x.rows, x.next, r), y.debt = x.debt, y.default = x.default
    PROVE  Short(b, y, r.debtor, gap - r.outstanding)
<1> DEFINE less == gap - r.outstanding
<1>1. x \in BookSet /\ r.outstanding \in Nat /\ less \in Nat
  <2>1. x \in BookSet /\ r.outstanding \in Nat
    BY DEF Books, RowSet
  <2> QED  BY <2>1
<1> SUFFICES ASSUME NEW T \in Kinds, NEW m \in Members
             PROVE  Cached(b, T)[m] + Tally(y, m, T) + (IF m = r.debtor THEN less ELSE 0)
                       = Cached(y, T)[m] + Tally(b, m, T)
  BY DEF Short
<1>2. Tally(y, m, T) = Tally(x, m, T) + Weight(r, m, T)
  BY TallyAdded
<1>3. Weight(r, m, T) = IF m = r.debtor THEN r.outstanding ELSE 0
  BY DefaultWeighs
<1>4. /\ Cached(b, T)[m] \in Nat /\ Cached(y, T)[m] = Cached(x, T)[m] /\ Cached(x, T)[m] \in Nat
      /\ Tally(b, m, T) \in Nat /\ Tally(x, m, T) \in Nat
  BY <1>1, CachedType, TallyType DEF Cached
<1>5. Cached(b, T)[m] + Tally(x, m, T) + (IF m = r.debtor THEN gap ELSE 0)
         = Cached(x, T)[m] + Tally(b, m, T)
  BY DEF Short
<1> QED  BY <1>1, <1>2, <1>3, <1>4, <1>5

\* A sum taken in the order of a list of what is summed over.
Given(w, us, k) == SumFunctionOnSet(w, {us[j] : j \in 1..k})

LEMMA RunningSums ==
    ASSUME NEW U \in SUBSET Nat, IsFiniteSet(U), U # {}, NEW w, \A u \in U : w[u] \in Nat
    PROVE  LET us == Ascending(U)
               n == Cardinality(U)
           IN /\ Given(w, us, 1) = w[us[1]]
              /\ \A k \in 1..n - 1 : Given(w, us, k + 1) = Given(w, us, k) + w[us[k + 1]]
              /\ Given(w, us, n) = SumFunctionOnSet(w, U)
              /\ \A k \in 1..n : /\ Given(w, us, k) \in Nat
                                  /\ Given(w, us, k) <= SumFunctionOnSet(w, U)
<1> DEFINE us == Ascending(U)
           n == Cardinality(U)
           first(k) == {us[j] : j \in 1..k}
<1>2. /\ n \in Nat /\ us \in [1..n -> U]
      /\ \A i, j \in 1..n : us[i] = us[j] => i = j
      /\ \A u \in U : \E i \in 1..n : us[i] = u
  BY AscendingLists
<1> HIDE DEF us, n
<1>3. n >= 1
  <2>1. PICK u \in U : TRUE
    OBVIOUS
  <2>2. PICK i \in 1..n : us[i] = u
    BY <1>2, <2>1
  <2> QED  BY <1>2, <2>2
<1>5. ASSUME NEW k \in 1..n
      PROVE  /\ first(k) \in SUBSET U /\ IsFiniteSet(first(k))
             /\ us[k] \in first(k)
             /\ \A l \in Nat : l + 1 = k => first(k) \ {us[k]} = first(l)
  <2>1. k \in Nat /\ k >= 1 /\ k <= n
    BY <1>2
  <2>2. first(k) \in SUBSET U
    BY <1>2, <2>1
  <2>3. us[k] \in first(k)
    BY <2>1
  <2>4. ASSUME NEW l \in Nat, l + 1 = k
        PROVE  first(k) \ {us[k]} = first(l)
    <3>1. \A j \in 1..k : j # k => j \in 1..l
      BY <2>1, <2>4
    <3>2. \A j \in 1..l : j \in 1..k /\ j # k /\ j \in 1..n /\ k \in 1..n
      BY <1>2, <2>1, <2>4
    <3>3. \A j \in 1..l : us[j] # us[k]
      BY <1>2, <3>2
    <3> QED  BY <3>1, <3>2, <3>3
  <2> HIDE DEF first
  <2>5. IsFiniteSet(first(k))
    BY <2>2, FS_Subset
  <2> QED  BY <2>2, <2>3, <2>4, <2>5
<1> DEFINE G(k) == SumFunctionOnSet(w, first(k))
<1>7. ASSUME NEW k \in 1..n
      PROVE  /\ G(k) \in Nat /\ G(k) <= SumFunctionOnSet(w, U)
             /\ \A l \in Nat : l + 1 = k => G(k) = w[us[k]] + G(l)
  <2> DEFINE s == first(k)
  <2>1. s \in SUBSET U /\ IsFiniteSet(s) /\ us[k] \in s /\ \A u \in s : w[u] \in Nat
    <3>1. s \in SUBSET U /\ IsFiniteSet(s) /\ us[k] \in s
      BY <1>5
    <3> HIDE DEF s
    <3> QED  BY <3>1
  <2>2. \A l \in Nat : l + 1 = k => s \ {us[k]} = first(l)
    BY <1>5
  <2> HIDE DEF s
  <2>3. SumFunctionOnSet(w, s) \in Nat
    BY <2>1, SumIsNatural
  <2>4. SumFunctionOnSet(w, s) <= SumFunctionOnSet(w, U)
    BY <2>1, SumOfPart
  <2>5. SumFunctionOnSet(w, s) = w[us[k]] + SumFunctionOnSet(w, s \ {us[k]})
    BY <2>1, SumSplit
  <2>6. G(k) = SumFunctionOnSet(w, s)
    BY DEF s
  <2> QED  BY <2>2, <2>3, <2>4, <2>5, <2>6
<1>8. G(1) = w[us[1]]
  <2>1. 1 \in 1..n /\ 0 \in Nat /\ 0 + 1 = 1
    BY <1>2, <1>3
  <2>2. first(0) = {}
    OBVIOUS
  <2>3. G(0) = 0
    BY <2>2, SumOfNothing
  <2>4. w[us[1]] \in Nat
    BY <1>2, <2>1
  <2> HIDE DEF G
  <2> QED  BY <1>7, <2>1, <2>3, <2>4
<1>9. G(n) = SumFunctionOnSet(w, U)
  <2>1. \A u \in U : \E i \in 1..n : us[i] = u
    BY <1>2
  <2>2. \A i \in 1..n : us[i] \in U
    BY <1>2
  <2>3. first(n) = U
    BY <2>1, <2>2
  <2> QED  BY <2>3
<1>10. \A k \in 1..n - 1 : G(k + 1) = G(k) + w[us[k + 1]]
  <2> SUFFICES ASSUME NEW k \in 1..n - 1
               PROVE  G(k + 1) = G(k) + w[us[k + 1]]
    OBVIOUS
  <2>1. k \in Nat /\ k \in 1..n /\ k + 1 \in 1..n
    BY <1>2
  <2>2. G(k) \in Nat /\ w[us[k + 1]] \in Nat
    BY <1>2, <1>7, <2>1
  <2>3. G(k + 1) = w[us[k + 1]] + G(k)
    BY <1>7, <2>1
  <2> HIDE DEF G
  <2> QED  BY <2>2, <2>3
<1>11. \A k : G(k) = Given(w, us, k)
  BY DEF Given
<1> HIDE DEF G
<1> QED  BY <1>3, <1>7, <1>8, <1>9, <1>10, <1>11 DEF us, n

\* A hold is of what its underwriters carry.
LEMMA HeldBySum ==
    ASSUME NEW x \in HoldSet
    PROVE  SumFunctionOnSet(x.supply, Underwriters(x)) = HeldAmount(x)
<1> DEFINE U == Underwriters(x)
           s == x.supply
<1>1. U \in SUBSET Members /\ s \in [Members -> Nat] /\ DOMAIN s = Members
  BY HeldAmountType DEF HoldSet
<1>2. SumFunctionOnSet(s, Members) = SumFunctionOnSet(s, U)
  <2>1. \A u \in Members : s[u] \in Nat
    BY <1>1
  <2>2. \A u \in Members \ U : s[u] = 0
    BY <2>1 DEF Underwriters
  <2> HIDE DEF U, s
  <2> QED  BY <1>1, <2>1, <2>2, MembersAssumption, SumOnSupport
<1>3. HeldAmount(x) = SumFunctionOnSet(s, Members)
  BY <1>1, SumIs DEF HeldAmount
<1> QED  BY <1>2, <1>3

\* The pieces of a claim, and what its underwriters come to owe in its place,
\* are together the debt that was in default, and no piece holds more than it.
LEMMA SubstitutedLater ==
    ASSUME NEW b \in Books, NEW id \in DOMAIN b.rows, b.rows[id].status = "Expired", NEW e \in Nat
    PROVE  /\ Later(b, Substituted(b, id, e), e) /\ OthersLeft(b, Substituted(b, id, e), id)
           /\ Sound(b) => Lost(b, Substituted(b, id, e), 0)
<1> DEFINE c == b.rows[id]
           us == Ascending(Underwriters(c.held))
           n == Cardinality(Underwriters(c.held))
           residual == Minus(c.outstanding, HeldAmount(c.held))
           share(u) == c.held.supply[u] + (IF u = us[1] THEN residual ELSE 0)
           first(x, u) == [x EXCEPT !.rows[id] = Claim(c, u, share(u))]
           later(x, u) == Subrogated(x, [Claim(c, u, share(u)) EXCEPT !.arb = PanelOfPiece(c)])
           split(x, u) == IF u = us[1] THEN first(x, u) ELSE later(x, u)
           step(x, u) == Leg(split(x, u), u, c, share(u), e)
           V == {x \in Books : Onward(b, x, e) /\ OthersLeft(b, x, id) /\ Steady(b, x) /\ Still(b, x)}
           d == c.debtor
           piece(u, k) == At(Piece(c.held, c.debtor, u), k)
           G == [k \in 1..n |-> [x \in V |-> step(x, us[k])]]
           Eq(f) == f = [s \in SUBSET (1..n) |-> IF s = {} THEN b ELSE step(f[s \ {Max(s)}], us[Max(s)])]
           it == CHOOSE f : Eq(f)
<1>1. c \in RowSet /\ c.held \in HoldSet /\ b \in BookSet
  BY FileTypes DEF Books, BookSet, RowSet
<1>2. n \in Nat /\ us \in [1..n -> Underwriters(c.held)]
  <2>1. Underwriters(c.held) \in SUBSET Nat /\ IsFiniteSet(Underwriters(c.held))
    BY <1>1, HeldAmountType, MembersAssumption
  <2> QED  BY <2>1, AscendingLists
<1>22. /\ \A i, j \in 1..n : us[i] = us[j] => i = j
       /\ \A u \in Underwriters(c.held) : \E i \in 1..n : us[i] = u
  <2>1. Underwriters(c.held) \in SUBSET Nat /\ IsFiniteSet(Underwriters(c.held))
    BY <1>1, HeldAmountType, MembersAssumption
  <2> QED  BY <2>1, AscendingLists
<1>3. ASSUME NEW u \in Underwriters(c.held)
      PROVE  share(u) \in Nat /\ u \in Members
  <2>1. c.held.supply[u] \in Nat /\ c.outstanding \in Nat /\ u \in Members
    BY <1>1 DEF HoldSet, RowSet, Underwriters
  <2>2. residual \in Nat
    BY <1>1, <2>1, HeldAmountType, MinusIsNatural
  <2> HIDE DEF residual
  <2> QED  BY <2>1, <2>2
<1>4. b \in V
  BY <1>1, OnwardSelf, SameHolds DEF OthersLeft, Steady
<1>5. ASSUME NEW x \in V, NEW u \in Underwriters(c.held)
      PROVE  /\ step(x, u) \in V
             /\ share(u) = c.held.supply[u] /\ RowSound(c) /\ RowsSound(x) => RowsSound(step(x, u))
             /\ \A k \in Places : u = us[1] /\ x = b
                  => Total(step(x, u), k) + At(c.held, k) = Total(b, k) + piece(u, k)
             /\ \A k \in Places : u # us[1] => Total(step(x, u), k) = Total(x, k) + piece(u, k)
             /\ u = us[1] /\ x = b /\ share(u) <= c.outstanding
                  => /\ Short(b, step(x, u), d, c.outstanding - share(u))
                     /\ Owes(b, step(x, u), c, c.outstanding - share(u))
             /\ \A gap \in Nat : u # us[1] /\ share(u) <= gap
                  => /\ Short(b, x, d, gap) => Short(b, step(x, u), d, gap - share(u))
                     /\ Owes(b, x, c, gap) => Owes(b, step(x, u), c, gap - share(u))
  <2> DEFINE v == share(u)
             q == Claim(c, u, v)
             p == [q EXCEPT !.arb = PanelOfPiece(c)]
  <2>1. v \in Nat /\ u \in Members
    BY <1>3
  <2>2. /\ q \in RowSet /\ q.arb = c.arb /\ ~Due(q, e) /\ q.outstanding = v /\ q.original = v
        /\ q.debtor = d /\ q.creditor = u /\ q.status = "Expired" /\ q.held = Piece(c.held, d, u)
        /\ v = c.held.supply[u] /\ RowSound(c) => RowSound(q)
    <3>1. c.status = "Expired"
      BY DEF c
    <3> HIDE DEF v, c
    <3> QED  BY <1>1, <2>1, <3>1, ClaimType
  <2>3. /\ p \in RowSet /\ p.arb = NoTerms /\ p.outstanding = v /\ p.original = v /\ ~Due(p, e)
        /\ p.debtor = d /\ p.status = "Expired" /\ p.insured = q.insured /\ p.held = q.held
        /\ p.creditor = q.creditor
    <3> HIDE DEF q, v, d
    <3> QED  BY <2>2 DEF RowSet, PanelOfPiece, Due
  <2>20. RowSound(q) => RowSound(p)
    <3> HIDE DEF q, p, v, d
    <3> QED  BY <2>2, <2>3 DEF RowSound, Live
  <2>4. /\ x \in Books /\ x \in BookSet /\ id \in DOMAIN x.rows /\ x.rows[id].arb = c.arb
        /\ x.rows \in RowFiles
    BY DEF Onward, Books, BookSet
  <2>5. /\ Onward(x, first(x, u), e) /\ first(x, u) \in BookSet
        /\ first(x, u).rows = [x.rows EXCEPT ![id] = q]
        /\ first(x, u).debt = x.debt /\ first(x, u).default = x.default
        /\ Steady(x, first(x, u))
    <3> DEFINE z == [x EXCEPT !.rows = [x.rows EXCEPT ![id] = q]]
    <3>1. first(x, u) = z
      BY <2>4 DEF BookSet
    <3> HIDE DEF q, v, c
    <3>2. [x.rows EXCEPT ![id] = q] \in RowFiles
      BY <2>2, <2>4, RowChanged
    <3>3. /\ z \in BookSet /\ z.rows = [x.rows EXCEPT ![id] = q] /\ z.next = x.next
          /\ z.agreed = x.agreed /\ z.charged = x.charged
          /\ z.debt = x.debt /\ z.default = x.default /\ Steady(x, z)
      BY <2>4, <3>2 DEF BookSet, Steady
    <3> HIDE DEF z, first
    <3>4. Onward(x, z, e)
      BY SMTT(30), <2>1, <2>2, <2>4, <3>3, OneRowLater
    <3> QED  BY <3>1, <3>3, <3>4
  <2>6. /\ Onward(x, later(x, u), e) /\ later(x, u) \in BookSet
        /\ later(x, u).rows = Added(x.rows, x.next, p)
        /\ later(x, u).debt = x.debt /\ later(x, u).default = x.default
        /\ Steady(x, later(x, u))
    <3>1. later(x, u) = Subrogated(x, p)
      OBVIOUS
    <3> HIDE DEF p, later, v
    <3> QED  BY <2>1, <2>3, <2>4, <3>1, SubrogatedLater
  <2>7. Onward(x, split(x, u), e) /\ Steady(x, split(x, u))
    <3> HIDE DEF first, later
    <3> QED  BY <2>5, <2>6
  <2>8. /\ Onward(split(x, u), step(x, u), e) /\ Tracks(split(x, u), step(x, u))
        /\ OldRows(split(x, u), step(x, u)) /\ Steady(split(x, u), step(x, u))
        /\ \A k \in Places : Total(step(x, u), k) = Total(split(x, u), k)
    <3>1. split(x, u) \in Books
      BY <2>7 DEF Onward
    <3> HIDE DEF split, share, c
    <3> QED  BY <1>1, <2>1, <3>1, LegLater
  <2>9. Onward(b, step(x, u), e)
    <3> HIDE DEF split, step
    <3>1. Onward(b, x, e)
      OBVIOUS
    <3> QED  BY <2>7, <2>8, <3>1, OnwardTwice
  <2>10. /\ \A i \in DOMAIN x.rows : i # id => split(x, u).rows[i] = x.rows[i]
         /\ RowSound(q) /\ RowsSound(x) => RowsSound(split(x, u))
    <3>1. CASE u = us[1]
      <4> HIDE DEF first, later, q, p, us
      <4>1. split(x, u) = first(x, u)
        BY <3>1
      <4> HIDE DEF split
      <4>2. \A i \in DOMAIN x.rows : i # id => first(x, u).rows[i] = x.rows[i]
        BY <2>2, <2>4, <2>5, RowChanged
      <4>3. RowSound(q) /\ RowsSound(x) => RowsSound(first(x, u))
        BY <2>2, <2>4, <2>5, SoundChanged DEF RowsSound
      <4> QED  BY <4>1, <4>2, <4>3
    <3>2. CASE u # us[1]
      <4> HIDE DEF first, later, q, p, us
      <4>1. split(x, u) = later(x, u)
        BY <3>2
      <4> HIDE DEF split
      <4>2. OldRows(x, later(x, u))
        BY <2>3, <2>4, <2>6, OldRowsAdded
      <4>3. RowSound(q) /\ RowsSound(x) => RowsSound(later(x, u))
        BY <2>3, <2>20, <2>4, <2>6, SoundAdded
      <4> QED  BY <4>1, <4>2, <4>3 DEF OldRows
    <3> QED  BY <3>1, <3>2
  <2>11. OthersLeft(b, step(x, u), id)
    <3> HIDE DEF split, step
    <3>1. OthersLeft(b, x, id) /\ DOMAIN b.rows \subseteq DOMAIN x.rows
          /\ DOMAIN x.rows \subseteq DOMAIN split(x, u).rows
      BY <2>7 DEF Onward
    <3> QED  BY <2>8, <2>10, <3>1 DEF OthersLeft, OldRows
  <2>12. v = c.held.supply[u] /\ RowSound(c) /\ RowsSound(x) => RowsSound(step(x, u))
    <3> HIDE DEF split, step, v, q, c
    <3> QED  BY <2>2, <2>8, <2>10 DEF Tracks
  <2>21. Steady(b, step(x, u))
    <3> HIDE DEF split, step
    <3>1. Steady(b, x)
      OBVIOUS
    <3> QED  BY <2>7, <2>8, <3>1 DEF Steady
  <2>24. Still(b, step(x, u))
    <3>1. id \in DOMAIN split(x, u).rows /\ DOMAIN split(x, u).rows \subseteq DOMAIN step(x, u).rows
          /\ step(x, u).rows[id] = split(x, u).rows[id]
      <4> HIDE DEF split, step
      <4> QED  BY <2>4, <2>7, <2>8 DEF Onward, OldRows
    <3>2. ASSUME NEW k \in Places
          PROVE  At(split(x, u).rows[id].held, k) <= At(c.held, k)
      <4>1. CASE u = us[1]
        <5> HIDE DEF first, later, q, p, us, c
        <5>1. split(x, u) = first(x, u)
          BY <4>1
        <5> HIDE DEF split
        <5>2. first(x, u).rows[id] = q
          BY <2>2, <2>4, <2>5, RowChanged
        <5>3. At(Piece(c.held, d, u), k) <= At(c.held, k)
          BY <1>1, PieceFits
        <5> QED  BY <2>2, <5>1, <5>2, <5>3
      <4>2. CASE u # us[1]
        <5> HIDE DEF first, later, q, p, us
        <5>1. split(x, u) = later(x, u)
          BY <4>2
        <5> HIDE DEF split
        <5>2. OldRows(x, later(x, u))
          BY <2>3, <2>4, <2>6, OldRowsAdded
        <5>3. At(x.rows[id].held, k) <= At(c.held, k)
          BY <2>4 DEF Still
        <5> QED  BY <2>4, <5>1, <5>2, <5>3 DEF OldRows
      <4> QED  BY <4>1, <4>2
    <3> HIDE DEF split, step
    <3> SUFFICES ASSUME NEW i \in DOMAIN b.rows, NEW k \in Places
                 PROVE  At(step(x, u).rows[i].held, k) <= At(b.rows[i].held, k)
      BY DEF Still
    <3>3. At(b.rows[i].held, k) \in Nat
      BY <1>1, HeldAtType
    <3>4. CASE i = id
      BY <3>1, <3>2, <3>4
    <3>5. CASE i # id
      BY <2>11, <3>3, <3>5 DEF OthersLeft
    <3> QED  BY <3>4, <3>5
  <2>22. ASSUME NEW k \in Places, u = us[1], x = b
         PROVE  Total(step(x, u), k) + At(c.held, k) = Total(b, k) + piece(u, k)
    <3> DEFINE y == first(x, u)
    <3>1. split(x, u) = y
      BY <2>22
    <3>2. y \in BookSet /\ y.rows = [b.rows EXCEPT ![id] = q]
      BY <2>5, <2>22
    <3>3. piece(u, k) = At(q.held, k)
      BY <2>2
    <3> HIDE DEF y, q, v, split, step, us, piece
    <3>4. Total(y, k) + Weight(c, k, "held") = Total(b, k) + Weight(q, k, "held")
      BY <1>1, <2>2, <3>2, TallyChanged DEF Total
    <3>5. Weight(c, k, "held") = At(c.held, k) /\ Weight(q, k, "held") = At(q.held, k)
      BY DEF Weight
    <3> QED  BY <2>8, <3>1, <3>3, <3>4, <3>5
  <2>23. ASSUME NEW k \in Places, u # us[1]
         PROVE  Total(step(x, u), k) = Total(x, k) + piece(u, k)
    <3> DEFINE y == later(x, u)
    <3>1. split(x, u) = y
      BY <2>23
    <3>2. y \in BookSet /\ y.rows = Added(x.rows, x.next, p)
      BY <2>6
    <3>3. piece(u, k) = At(p.held, k)
      <4> HIDE DEF p, q
      <4> QED  BY <2>2, <2>3
    <3> HIDE DEF y, p, v, split, step, us, piece
    <3>4. Total(y, k) = Total(x, k) + Weight(p, k, "held")
      BY <2>3, <2>4, <3>2, TallyAdded DEF Total
    <3>5. Weight(p, k, "held") = At(p.held, k)
      BY DEF Weight
    <3> QED  BY <2>8, <3>1, <3>3, <3>4, <3>5
  <2>13. split(x, u) \in BookSet /\ step(x, u) \in BookSet /\ Together(split(x, u), step(x, u))
    <3> HIDE DEF split, step
    <3> QED  BY <2>7, <2>8 DEF Onward, Books, Tracks
  <2>14. ASSUME u = us[1], x = b, v <= c.outstanding
         PROVE  Short(b, step(x, u), d, c.outstanding - v)
    <3> DEFINE y == first(x, u)
    <3>1. split(x, u) = y
      BY <2>14
    <3>2. y \in BookSet /\ y.rows = [b.rows EXCEPT ![id] = q] /\ y.debt = b.debt /\ y.default = b.default
      BY <2>5, <2>14
    <3> HIDE DEF y, q, v, split, step, us
    <3>3. Short(b, y, q.debtor, b.rows[id].outstanding - q.outstanding)
      <4>1. q.outstanding <= b.rows[id].outstanding
        BY <2>2, <2>14
      <4> QED  BY <1>1, <2>2, <3>2, <4>1, ShortFirst
    <3> DEFINE g == c.outstanding - v
    <3>4. g \in Nat /\ Short(b, y, d, g)
      <4>1. c.outstanding \in Nat
        BY <1>1 DEF RowSet
      <4> QED  BY <2>1, <2>2, <2>14, <3>3, <4>1
    <3> HIDE DEF g
    <3>5. Short(b, step(x, u), d, g)
      BY <1>1, <2>13, <3>1, <3>2, <3>4, ShortTogether
    <3> QED  BY <3>5 DEF g
  <2>15. ASSUME NEW gap \in Nat, u # us[1], v <= gap, Short(b, x, d, gap)
         PROVE  Short(b, step(x, u), d, gap - v)
    <3> DEFINE y == later(x, u)
    <3>1. split(x, u) = y
      BY <2>15
    <3>2. y \in BookSet /\ y.rows = Added(x.rows, x.next, p) /\ y.debt = x.debt /\ y.default = x.default
      BY <2>6
    <3> HIDE DEF y, p, v, split, step, us
    <3>3. Short(b, y, p.debtor, gap - p.outstanding)
      <4>1. p.outstanding <= gap /\ Short(b, x, p.debtor, gap)
        BY <2>3, <2>15
      <4> QED  BY <1>1, <2>3, <2>4, <3>2, <4>1, ShortMore
    <3> DEFINE g == gap - v
    <3>4. g \in Nat /\ Short(b, y, d, g)
      BY <2>1, <2>3, <2>15, <3>3
    <3> HIDE DEF g
    <3>5. Short(b, step(x, u), d, g)
      BY <1>1, <2>13, <3>1, <3>2, <3>4, ShortTogether
    <3> QED  BY <3>5 DEF g
  <2>25. ASSUME u = us[1], x = b, v <= c.outstanding
         PROVE  Owes(b, step(x, u), c, c.outstanding - v)
    <3> DEFINE y == first(x, u)
    <3>1. split(x, u) = y /\ step(x, u) = Leg(split(x, u), u, c, v, e)
      BY <2>25
    <3>2. y \in Books /\ y.rows = [b.rows EXCEPT ![id] = q] /\ y.charged = b.charged
      BY <2>5, <2>25 DEF Onward
    <3> HIDE DEF y, q, v, split, step, us
    <3>3. Owes(b, Leg(y, q.creditor, b.rows[id], q.outstanding, e), b.rows[id],
               b.rows[id].outstanding - q.outstanding)
      BY <2>2, <2>25, <3>2, FirstPiece
    <3> QED  BY <2>2, <3>1, <3>3
  <2>26. ASSUME NEW gap \in Nat, u # us[1], v <= gap, Owes(b, x, c, gap)
         PROVE  Owes(b, step(x, u), c, gap - v)
    <3> DEFINE y == later(x, u)
    <3>1. split(x, u) = y /\ step(x, u) = Leg(split(x, u), u, c, v, e)
      BY <2>26
    <3>2. y \in Books /\ y.rows = Added(x.rows, x.next, p) /\ y.charged = x.charged
      BY <2>6 DEF Onward
    <3>4. p.creditor = u /\ p.outstanding = v /\ p.debtor = d /\ p.status = "Expired" /\ p \in RowSet
      <4> HIDE DEF p, q, v
      <4> QED  BY <2>2, <2>3
    <3> HIDE DEF y, p, v, split, step, us, c
    <3>3. Owes(b, Leg(y, p.creditor, c, p.outstanding, e), c, gap - p.outstanding)
      BY <1>1, <2>4, <2>26, <3>2, <3>4, NextPiece
    <3> QED  BY <3>1, <3>3, <3>4
  <2> HIDE DEF step
  <2>16. step(x, u) \in V
    BY <2>9, <2>11, <2>21, <2>24 DEF Onward
  <2> HIDE DEF piece, V, us, c
  <2> QED  BY <2>12, <2>14, <2>15, <2>16, <2>22, <2>23, <2>25, <2>26
<1> HIDE DEF step
<1>6. G \in [1..n -> [V -> V]]
  <2> SUFFICES ASSUME NEW k \in 1..n, NEW x \in V
               PROVE  step(x, us[k]) \in V
    OBVIOUS
  <2>1. us[k] \in Underwriters(c.held)
    BY <1>2
  <2> HIDE DEF us, V
  <2> QED  BY <1>5, <2>1
<1> HIDE DEF n
<1>7. PICK f \in [SUBSET (1..n) -> V] : Folds(f, b, G, n)
  <2> HIDE DEF G, V
  <2> QED  BY <1>2, <1>4, <1>6, FoldExists
<1>8. ASSUME NEW s \in SUBSET (1..n), s # {}
      PROVE  Max(s) \in 1..n /\ s \ {Max(s)} \in SUBSET (1..n)
  BY <1>2, <1>8, TopIsIn DEF Picks, Tops
<1>9. Eq(f)
  <2>1. \A s \in SUBSET (1..n) : f[s] = IF s = {} THEN b ELSE step(f[s \ {Max(s)}], us[Max(s)])
    <3> HIDE DEF us
    <3> QED  BY <1>7, <1>8 DEF Folds
  <2> HIDE DEF V, us
  <2> QED  BY <1>7, <2>1
<1>10. Eq(it)
  <2> HIDE DEF Eq
  <2> QED  BY <1>9
<1>11. Iterates(it, b, G, n, V)
  <2> HIDE DEF it, us, V
  <2> QED  BY <1>8, <1>10 DEF Iterates
<1>12. PICK t \in [0..n -> V] : Through(t, b, G, n) /\ it[1..n] = t[n]
  <2> HIDE DEF it, G, V, Eq
  <2>1. Ends(it, b, G, n, V)
    BY <1>2, <1>4, <1>6, <1>11, FoldEnds
  <2> QED  BY <2>1 DEF Ends
<1>13. FoldLeft(step, b, us) = it[1..n]
  <2>1. DOMAIN us = 1..n
    BY <1>2
  <2> HIDE DEF us
  <2> QED  BY <2>1 DEF FoldLeft, MapThenFoldSet
<1>14. Substituted(b, id, e) \in {b, FoldLeft(step, b, us)}
  BY DEF Substituted, step
<1> HIDE DEF it
<1>15. /\ t[0] = b
       /\ \A k \in 1..n : us[k] \in Underwriters(c.held) /\ t[k - 1] \in V /\ t[k] \in V
                           /\ t[k] = step(t[k - 1], us[k])
  <2>1. t[0] = b
    BY <1>12 DEF Through
  <2> SUFFICES ASSUME NEW k \in 1..n
               PROVE  us[k] \in Underwriters(c.held) /\ t[k - 1] \in V /\ t[k] \in V
                      /\ t[k] = step(t[k - 1], us[k])
    BY <2>1
  <2>2. us[k] \in Underwriters(c.held)
    BY <1>2
  <2>3. k - 1 \in 0..n /\ k \in 0..n
    BY <1>2
  <2> HIDE DEF V, us
  <2> QED  BY <1>12, <2>2, <2>3 DEF Through
<1>16. t[n] \in V
  <2>1. n \in 0..n
    BY <1>2
  <2> HIDE DEF V
  <2> QED  BY <1>12, <2>1
<1>17. ASSUME Sound(b), c.insured
       PROVE  /\ RowSound(c) /\ HeldAmount(c.held) = c.outstanding /\ c.outstanding \in Nat
              /\ \A u \in Underwriters(c.held) : share(u) = c.held.supply[u]
  <2>1. RowSound(c) /\ HeldAmount(c.held) = c.outstanding
    BY <1>17 DEF Sound, RowsSound, RowSound, Live
  <2>2. c.outstanding \in Nat /\ \A u \in Underwriters(c.held) : c.held.supply[u] \in Nat
    BY <1>1 DEF HoldSet, RowSet, Underwriters
  <2>3. residual = 0
    BY <2>1, <2>2 DEF Minus
  <2> HIDE DEF residual, c, us
  <2> QED  BY <2>1, <2>2, <2>3
<1>23. ASSUME Sound(b), c.insured
       PROVE  RowsSound(t[n])
  <2> DEFINE P == {k \in Nat : k <= n => RowsSound(t[k])}
  <2> HIDE DEF V, us, c, share
  <2>1. 0 \in P
    BY <1>15, <1>23 DEF Sound
  <2>2. ASSUME NEW k \in Nat, k \in P
        PROVE  k + 1 \in P
    <3>1. SUFFICES ASSUME k + 1 <= n
                   PROVE  RowsSound(t[k + 1])
      BY <2>2
    <3>2. k + 1 \in 1..n /\ (k + 1) - 1 = k /\ RowsSound(t[k])
      BY <1>2, <2>2, <3>1
    <3>3. us[k + 1] \in Underwriters(c.held) /\ t[k] \in V /\ t[k + 1] = step(t[k], us[k + 1])
      BY <1>15, <3>2
    <3>4. RowSound(c) /\ share(us[k + 1]) = c.held.supply[us[k + 1]]
      BY <1>17, <1>23, <3>3
    <3> QED  BY <1>5, <3>2, <3>3, <3>4
  <2>3. Nat \subseteq P
    <3> HIDE DEF P
    <3> QED  BY <2>1, <2>2, NumberInduction
  <2> QED  BY <1>2, <2>3
<1>18. ASSUME Sound(b), c.insured, Underwriters(c.held) # {}
       PROVE  Together(b, t[n]) /\ Lost(b, t[n], 0)
  <2> DEFINE h == c.held
             part(k) == Given(h.supply, us, k)
  <2>1. HeldAmount(h) = c.outstanding /\ c.outstanding \in Nat
    BY <1>17, <1>18
  <2>2. \A u \in Underwriters(h) : h.supply[u] = share(u) /\ h.supply[u] \in Nat
    BY <1>3, <1>17, <1>18
  <2>3. Underwriters(h) \in SUBSET Nat /\ IsFiniteSet(Underwriters(h))
    BY <1>1, HeldAmountType, MembersAssumption
  <2>4. /\ part(1) = h.supply[us[1]]
        /\ \A k \in 1..n - 1 : part(k + 1) = part(k) + h.supply[us[k + 1]]
        /\ part(n) = c.outstanding
        /\ \A k \in 1..n : part(k) \in Nat /\ part(k) <= c.outstanding
    <3>1. SumFunctionOnSet(h.supply, Underwriters(h)) = c.outstanding
      BY <1>1, <2>1, HeldBySum
    <3> HIDE DEF h
    <3> DEFINE w == h.supply
               U == Underwriters(h)
    <3>2. us = Ascending(U) /\ n = Cardinality(U) /\ U # {} /\ \A u \in U : w[u] \in Nat
      BY <1>18, <2>2 DEF n, us, h
    <3> HIDE DEF w, U, us, n
    <3>3. /\ Given(w, us, 1) = w[us[1]]
          /\ \A k \in 1..n - 1 : Given(w, us, k + 1) = Given(w, us, k) + w[us[k + 1]]
          /\ Given(w, us, n) = SumFunctionOnSet(w, U)
          /\ \A k \in 1..n : Given(w, us, k) \in Nat /\ Given(w, us, k) <= SumFunctionOnSet(w, U)
      <4>1. U \in SUBSET Nat /\ IsFiniteSet(U)
        BY <2>3 DEF U
      <4> QED  BY <3>2, <4>1, RunningSums
    <3> QED  BY <3>1, <3>3 DEF w, U
  <2>5. n >= 1
    BY <1>2, <1>22, <1>18
  <2> HIDE DEF us, V, part, share
  <2>6. /\ part(1) = share(us[1])
        /\ \A k \in 1..n - 1 : part(k + 1) = part(k) + share(us[k + 1])
        /\ part(n) = c.outstanding
        /\ \A k \in 1..n : part(k) \in Nat /\ part(k) <= c.outstanding
    <3>1. \A k \in 1..n : us[k] \in Underwriters(h)
      BY <1>15
    <3>2. 1 \in 1..n /\ \A k \in 1..n - 1 : k + 1 \in 1..n
      BY <1>2, <2>5
    <3> QED  BY <2>2, <2>4, <3>1, <3>2
  <2> DEFINE left(k) == c.outstanding - part(k)
             P == {k \in Nat : k + 1 <= n => /\ Short(b, t[k + 1], d, left(k + 1))
                                             /\ Owes(b, t[k + 1], c, left(k + 1))}
  <2>7. 0 \in P
    <3>1. 1 \in 1..n /\ 1 - 1 = 0 /\ 0 + 1 = 1
      BY <1>2, <2>5
    <3>2. us[1] \in Underwriters(c.held) /\ t[0] = b /\ t[1] = step(b, us[1]) /\ b \in V
      BY <1>15, <3>1
    <3>3. Short(b, t[1], d, left(1)) /\ Owes(b, t[1], c, left(1))
      BY <1>5, <2>6, <3>1, <3>2
    <3> QED  BY <3>1, <3>3
  <2>8. ASSUME NEW k \in Nat, k \in P
        PROVE  k + 1 \in P
    <3> DEFINE j == k + 1
    <3>1. SUFFICES ASSUME j + 1 <= n
                   PROVE  Short(b, t[j + 1], d, left(j + 1)) /\ Owes(b, t[j + 1], c, left(j + 1))
      BY <2>8
    <3>2. j \in 1..n - 1 /\ j \in 1..n /\ j + 1 \in 1..n /\ (j + 1) - 1 = j /\ j + 1 # 1 /\ 1 \in 1..n
      BY <1>2, <2>5, <3>1
    <3>3. Short(b, t[j], d, left(j)) /\ Owes(b, t[j], c, left(j))
      BY <2>8, <3>1, <1>2
    <3> HIDE DEF j
    <3>4. us[j + 1] \in Underwriters(c.held) /\ t[j] \in V /\ t[j + 1] = step(t[j], us[j + 1])
      BY <1>15, <3>2
    <3>5. us[j + 1] # us[1]
      BY <1>22, <3>2
    <3> DEFINE gap == c.outstanding - part(j)
    <3>6. /\ gap \in Nat /\ share(us[j + 1]) \in Nat /\ share(us[j + 1]) <= gap
          /\ gap - share(us[j + 1]) = c.outstanding - part(j + 1)
      <4>1. share(us[j + 1]) \in Nat
        BY <1>3, <3>4
      <4>2. part(j + 1) = part(j) + share(us[j + 1])
        BY <2>6, <3>2
      <4>3. part(j) \in Nat /\ part(j) <= c.outstanding /\ part(j + 1) \in Nat /\ part(j + 1) <= c.outstanding
        BY <2>6, <3>2
      <4> DEFINE x == part(j)
                 y == part(j + 1)
                 z == share(us[j + 1])
                 w == c.outstanding
      <4>4. z \in Nat /\ y = x + z /\ x \in Nat /\ x <= w /\ y \in Nat /\ y <= w /\ w \in Nat
        BY <2>1, <4>1, <4>2, <4>3
      <4> HIDE DEF x, y, z, w
      <4>5. w - x \in Nat /\ z <= w - x /\ (w - x) - z = w - y
        BY <4>4
      <4> QED  BY <4>1, <4>5 DEF x, y, z, w
    <3>7. Short(b, t[j], d, gap) /\ Owes(b, t[j], c, gap)
      BY <3>3
    <3> HIDE DEF gap
    <3>8. /\ Short(b, t[j + 1], d, gap - share(us[j + 1]))
          /\ Owes(b, t[j + 1], c, gap - share(us[j + 1]))
      BY <1>5, <3>4, <3>5, <3>6, <3>7
    <3> QED  BY <3>6, <3>8
  <2>9. Nat \subseteq P
    <3> HIDE DEF P
    <3> QED  BY <2>7, <2>8, NumberInduction
  <2>10. Short(b, t[n], d, left(n)) /\ Owes(b, t[n], c, left(n))
    <3>1. n - 1 \in Nat /\ (n - 1) + 1 = n /\ n <= n
      BY <1>2, <2>5
    <3>2. n - 1 \in P
      BY <2>9, <3>1
    <3> QED  BY <3>1, <3>2
  <2>11. Short(b, t[n], d, 0) /\ Owes(b, t[n], c, 0)
    <3>1. left(n) = 0
      BY <2>1, <2>6
    <3> QED  BY <2>10, <3>1
  <2>12. t[n] \in BookSet
    BY <1>16 DEF V, Books
  <2>15. Lost(b, t[n], 0)
    <3> SUFFICES ASSUME NEW m \in Members
                 PROVE  Net(b, m) <= Net(t[n], m) + 0
      BY DEF Lost
    <3>1. Net(t[n], m) + For(c.creditor, m, 0) = Net(b, m) + For(c.debtor, m, 0)
      BY <2>11 DEF Owes
    <3>2. Net(t[n], m) \in Int /\ Net(b, m) \in Int
      BY <1>1, <2>12, NetType
    <3>3. For(c.creditor, m, 0) = 0 /\ For(c.debtor, m, 0) = 0
      BY DEF For
    <3> QED  BY <3>1, <3>2, <3>3
  <2> SUFFICES ASSUME NEW T \in Kinds, NEW m \in Members
               PROVE  Cached(b, T)[m] + Tally(t[n], m, T) = Cached(t[n], T)[m] + Tally(b, m, T)
    BY <2>15 DEF Together
  <2>13. Cached(b, T)[m] + Tally(t[n], m, T) + (IF m = d THEN 0 ELSE 0)
            = Cached(t[n], T)[m] + Tally(b, m, T)
    BY <2>11 DEF Short
  <2>14. Cached(b, T)[m] \in Nat /\ Tally(t[n], m, T) \in Nat
    BY <1>1, <2>12, CachedType, TallyType
  <2> QED  BY <2>13, <2>14
<1>24. ASSUME Sound(b), c.insured, Underwriters(c.held) # {}, NEW k \in Places
       PROVE  Total(t[n], k) = Total(b, k)
  <2> DEFINE h == c.held
             U == Underwriters(h)
             w == [u \in U |-> piece(u, k)]
             part(j) == Given(w, us, j)
  <2>1. HeldAmount(h) # 0
    <3>1. PICK u \in U : TRUE
      BY <1>24
    <3>2. h.supply[u] \in Nat /\ h.supply[u] # 0
      BY <1>1, <3>1 DEF HoldSet, Underwriters
    <3>3. \A v \in U : h.supply[v] \in Nat
      BY <1>1 DEF HoldSet, Underwriters
    <3>4. IsFiniteSet(U)
      BY <1>1, HeldAmountType
    <3>5. SumFunctionOnSet(h.supply, U) = HeldAmount(h)
      BY <1>1, HeldBySum
    <3> DEFINE lent == h.supply
    <3> HIDE DEF U, lent
    <3>6. SumFunctionOnSet(lent, U) = lent[u] + SumFunctionOnSet(lent, U \ {u}) /\ SumFunctionOnSet(lent, U \ {u}) \in Nat
      <4>1. \A v \in U : lent[v] \in Nat
        BY <3>3 DEF lent
      <4>2. IsFiniteSet(U \ {u}) /\ \A v \in U \ {u} : lent[v] \in Nat
        BY <3>4, <4>1, FS_RemoveElement
      <4> QED  BY <3>1, <3>4, <4>1, <4>2, SumSplit, SumIsNatural
    <3> QED  BY <3>2, <3>5, <3>6 DEF lent
  <2>2. U \in SUBSET Nat /\ IsFiniteSet(U) /\ U # {}
    BY <1>1, <1>24, HeldAmountType, MembersAssumption
  <2>3. \A u \in U : w[u] = piece(u, k) /\ w[u] \in Nat
    <3> SUFFICES ASSUME NEW u \in U
                 PROVE  At(Piece(h, d, u), k) \in Nat
      OBVIOUS
    <3> HIDE DEF h, d
    <3>1. Piece(h, d, u) \in HoldSet
      BY <1>1, PieceType DEF h
    <3> QED  BY <3>1, AtType
  <2>4. SumFunctionOnSet(w, U) = At(h, k)
    <3> HIDE DEF h
    <3> QED  BY <1>1, <2>1, PiecesMake DEF h
  <2>5. us = Ascending(U) /\ n = Cardinality(U)
    BY DEF n
  <2>6. n >= 1
    BY <1>2, <1>22, <1>24
  <2>7. Total(b, k) \in Nat /\ At(h, k) \in Nat
    BY <1>1, AtType, TallyType DEF Total
  <2> HIDE DEF us, V, U, w, piece, h
  <2>8. /\ part(1) = w[us[1]]
        /\ \A j \in 1..n - 1 : part(j + 1) = part(j) + w[us[j + 1]]
        /\ part(n) = SumFunctionOnSet(w, U)
        /\ \A j \in 1..n : part(j) \in Nat
    BY <2>2, <2>3, <2>5, RunningSums
  <2> HIDE DEF part
  <2> DEFINE P == {j \in Nat : j + 1 <= n => Total(t[j + 1], k) + At(h, k) = Total(b, k) + part(j + 1)}
  <2>9. 0 \in P
    <3>1. 1 \in 1..n /\ 1 - 1 = 0 /\ 0 + 1 = 1
      BY <1>2, <2>6
    <3>2. us[1] \in Underwriters(c.held) /\ t[0] = b /\ t[1] = step(b, us[1]) /\ b \in V
      BY <1>15, <3>1
    <3>3. Total(t[1], k) + At(h, k) = Total(b, k) + piece(us[1], k)
      BY <1>5, <3>2 DEF h
    <3>4. part(1) = piece(us[1], k)
      BY <2>3, <2>8, <3>2 DEF U, h
    <3> QED  BY <3>1, <3>3, <3>4
  <2>10. ASSUME NEW i \in Nat, i \in P
         PROVE  i + 1 \in P
    <3> DEFINE j == i + 1
    <3>1. SUFFICES ASSUME j + 1 <= n
                   PROVE  Total(t[j + 1], k) + At(h, k) = Total(b, k) + part(j + 1)
      BY <2>10
    <3>2. j \in 1..n - 1 /\ j \in 1..n /\ j + 1 \in 1..n /\ (j + 1) - 1 = j /\ j + 1 # 1 /\ 1 \in 1..n
      BY <1>2, <2>6, <3>1
    <3>3. Total(t[j], k) + At(h, k) = Total(b, k) + part(j)
      BY <2>10, <3>1, <1>2
    <3> HIDE DEF j
    <3>4. us[j + 1] \in Underwriters(c.held) /\ t[j] \in V /\ t[j + 1] = step(t[j], us[j + 1])
      BY <1>15, <3>2
    <3>5. us[j + 1] # us[1]
      BY <1>22, <3>2
    <3>6. Total(t[j + 1], k) = Total(t[j], k) + piece(us[j + 1], k)
      BY <1>5, <3>4, <3>5
    <3>7. part(j + 1) = part(j) + piece(us[j + 1], k) /\ piece(us[j + 1], k) \in Nat /\ part(j) \in Nat
      BY <2>3, <2>8, <3>2, <3>4 DEF U, h
    <3>8. Total(t[j], k) \in Nat
      BY <3>4, TallyType DEF Total, V, Books
    <3> QED  BY <2>7, <3>3, <3>6, <3>7, <3>8
  <2>11. Nat \subseteq P
    <3> HIDE DEF P
    <3> QED  BY <2>9, <2>10, NumberInduction
  <2>12. Total(t[n], k) + At(h, k) = Total(b, k) + At(h, k)
    <3>1. n - 1 \in Nat /\ (n - 1) + 1 = n /\ n <= n
      BY <1>2, <2>6
    <3>2. n - 1 \in P
      BY <2>11, <3>1
    <3> QED  BY <2>4, <2>8, <3>1, <3>2
  <2>13. Total(t[n], k) \in Nat
    BY <1>16, TallyType DEF Total, V, Books
  <2> QED  BY <2>7, <2>12, <2>13
<1> DEFINE z == Substituted(b, id, e)
<1>19. z = b \/ (z = t[n] /\ c.insured /\ Underwriters(c.held) # {})
  <2>1. CASE ~c.insured \/ Underwriters(c.held) \subseteq {c.creditor} \/ c.debtor \in Underwriters(c.held)
    BY <2>1 DEF Substituted
  <2>2. CASE ~(~c.insured \/ Underwriters(c.held) \subseteq {c.creditor} \/ c.debtor \in Underwriters(c.held))
    <3>1. z = FoldLeft(step, b, us)
      BY <2>2 DEF Substituted, step
    <3> HIDE DEF us, z
    <3> QED  BY <1>12, <1>13, <2>2, <3>1
  <2> QED  BY <2>1, <2>2
<1> HIDE DEF z, us
<1>20. CASE z = b
  BY <1>1, <1>20, LaterSelf, LostSelf DEF OthersLeft, z
<1>21. CASE z = t[n] /\ c.insured /\ Underwriters(c.held) # {}
  <2>1. Onward(b, z, e) /\ OthersLeft(b, z, id) /\ z \in BookSet /\ Steady(b, z) /\ Still(b, z)
    BY <1>16, <1>21 DEF Books
  <2>2. Sound(b) => Tracks(b, z)
    <3> HIDE DEF V, c
    <3> SUFFICES ASSUME Sound(b)
                 PROVE  Tracks(b, z)
      OBVIOUS
    <3>1. Together(b, z) /\ RowsSound(z) /\ \A k \in Places : Total(z, k) = Total(b, k)
      BY <1>18, <1>21, <1>23, <1>24
    <3> QED  BY <2>1, <3>1 DEF Tracks, Filled, Steady, Booked, Stock
  <2> HIDE DEF V
  <2>3. Sound(b) => Sound(z)
    BY <1>1, <2>1, <2>2, TracksSound
  <2>4. Sound(b) => Lost(b, z, 0)
    BY <1>18, <1>21
  <2> QED  BY <2>1, <2>3, <2>4 DEF Later, z
<1> QED  BY <1>19, <1>20, <1>21

\* A default leaves the row it strikes, and no other, no longer due.
LEMMA DefaultedLater ==
    ASSUME NEW b \in Books, NEW id \in DOMAIN b.rows, NEW e \in Nat
    PROVE  /\ Onward(b, Defaulted(b, id, e), e)
           /\ Still(b, Defaulted(b, id, e))
           /\ ~Due(Defaulted(b, id, e).rows[id], e)
           /\ OthersLeft(b, Defaulted(b, id, e), id)
           /\ b.rows[id].status = "Active" => Later(b, Defaulted(b, id, e), e)
           /\ b.rows[id].status = "Active" /\ Sound(b) => Lost(b, Defaulted(b, id, e), 0)
<1> DEFINE c == b.rows[id]
           r == [c EXCEPT !.status = "Expired"]
           rows == [b.rows EXCEPT ![id] = r]
           default == [b.default EXCEPT ![c.debtor] = @ + c.outstanding]
           z == [b EXCEPT !.rows[id].status = "Expired", !.default[c.debtor] = @ + c.outstanding]
<1>1. b \in BookSet /\ b.rows \in RowFiles /\ c \in RowSet /\ c.outstanding <= c.original
  BY FileTypes DEF Books, BookSet
<1>2. /\ r \in RowSet /\ r.status = "Expired" /\ r.arb = c.arb
      /\ r.outstanding = c.outstanding /\ r.original = c.original
      /\ r.debtor = c.debtor /\ r.creditor = c.creditor
      /\ r.insured = c.insured /\ r.held = c.held
  <2> HIDE DEF c
  <2> QED  BY <1>1 DEF RowSet, Statuses
<1>3. ~Due(r, e)
  <2> HIDE DEF r
  <2> QED  BY <1>2 DEF Due
<1>4. rows \in RowFiles /\ default \in Purses /\ rows[id] = r
  <2>1. rows \in RowFiles /\ rows[id] = r
    <3> HIDE DEF r
    <3> QED  BY <1>1, <1>2, RowChanged
  <2>2. default \in Purses
    <3> HIDE DEF c
    <3> QED  BY <1>1 DEF BookSet, RowSet, Purses
  <2> QED  BY <2>1, <2>2
<1>5. z = [b EXCEPT !.rows = rows, !.default = default]
  BY <1>1 DEF BookSet
<1> HIDE DEF rows, default, z, r
<1>6. /\ z \in BookSet /\ z.rows = rows /\ z.next = b.next
      /\ z.agreed = b.agreed /\ z.charged = b.charged
      /\ z.debt = b.debt /\ z.default = default
      /\ z.edges = b.edges /\ z.reserved = b.reserved /\ z.committed = b.committed
  BY <1>1, <1>4, <1>5 DEF BookSet
<1>7. Onward(b, z, e)
  BY <1>1, <1>2, <1>3, <1>6, OneRowLater DEF rows
<1>8. z \in Books /\ id \in DOMAIN z.rows /\ z.rows[id] = r
  BY <1>4, <1>6, <1>7 DEF Onward
<1>9. /\ Later(z, Substituted(z, id, e), e) /\ OthersLeft(z, Substituted(z, id, e), id)
      /\ Sound(z) => Lost(z, Substituted(z, id, e), 0)
  BY <1>2, <1>8, SubstitutedLater
<1>10. Defaulted(b, id, e) = Substituted(z, id, e)
  BY DEF Defaulted, z
<1>11. Onward(b, Defaulted(b, id, e), e)
  BY <1>7, <1>9, <1>10, OnwardTwice DEF Later
<1>12. ~Due(Defaulted(b, id, e).rows[id], e)
  <2> DEFINE y == Substituted(z, id, e)
  <2>1. id \in DOMAIN y.rows /\ (Due(y.rows[id], e) => Due(z.rows[id], e))
    <3> HIDE DEF y
    <3> QED  BY <1>8, <1>9 DEF Onward, Later, y
  <2> HIDE DEF y
  <2> QED  BY <1>3, <1>8, <1>10, <2>1 DEF y
<1>13. OthersLeft(b, Defaulted(b, id, e), id)
  <2>1. \A i \in DOMAIN b.rows : i \in DOMAIN z.rows /\ (i # id => z.rows[i] = b.rows[i])
    <3> HIDE DEF r
    <3> QED  BY <1>1, <1>2, <1>6, RowChanged DEF rows
  <2> QED  BY <1>9, <1>10, <2>1 DEF OthersLeft
<1>14. ASSUME c.status = "Active", Sound(b)
       PROVE  Sound(z)
  <2>1. RowSound(r)
    <3>1. RowSound(c)
      BY <1>14 DEF Sound, RowsSound
    <3> HIDE DEF c
    <3> QED  BY <1>2, <1>14, <3>1 DEF RowSound, Live
  <2>2. RowsSound(z)
    <3> HIDE DEF c
    <3> QED  BY <1>1, <1>2, <1>6, <1>14, <2>1, SoundChanged DEF rows, Sound, RowsSound
  <2>8. Filled(z)
    BY <1>1, <1>2, <1>6, <1>14, RowFilled DEF rows, Sound
  <2> SUFFICES ASSUME NEW T \in Kinds, NEW m \in Members
               PROVE  Cached(z, T)[m] = Tally(z, m, T)
    BY <2>2, <2>8 DEF Sound, Balanced
  <2>3. Tally(z, m, T) + Weight(c, m, T) = Tally(b, m, T) + Weight(r, m, T)
    BY <1>1, <1>2, <1>6, TallyChanged DEF rows
  <2>4. /\ Cached(b, T)[m] = Tally(b, m, T) /\ Cached(b, T)[m] \in Nat
        /\ Tally(b, m, T) \in Nat /\ Tally(z, m, T) \in Nat
    BY <1>1, <1>6, <1>14, CachedType, TallyType DEF Sound, Balanced
  <2> DEFINE a == c.outstanding
  <2>5. /\ Weight(r, m, T) = IF m = c.debtor THEN a ELSE 0
        /\ Weight(c, m, T) = IF m = c.debtor /\ T = "debt" THEN a ELSE 0
    <3> HIDE DEF c
    <3> QED  BY <1>2, <1>14 DEF Weight, Kinds, Counting
  <2>6. Cached(z, T)[m] = IF m = c.debtor /\ T # "debt" THEN Cached(b, T)[m] + a
                                                          ELSE Cached(b, T)[m]
    <3>1. /\ b.default \in [Members -> Nat] /\ a \in Nat
          /\ default = [b.default EXCEPT ![c.debtor] = b.default[c.debtor] + a]
      BY <1>1 DEF BookSet, Purses, RowSet, default
    <3>2. default[m] = IF m = c.debtor THEN b.default[m] + a ELSE b.default[m]
      <4> HIDE DEF a, c
      <4> QED  BY <3>1
    <3> HIDE DEF a, c
    <3> QED  BY <1>6, <3>2 DEF Cached
  <2>7. a \in Nat
    BY <1>1 DEF RowSet
  <2> HIDE DEF a, c
  <2> QED  BY <2>3, <2>4, <2>5, <2>6, <2>7
<1>16. Still(b, z)
  <2>1. \A k \in Places : At(r.held, k) <= At(b.rows[id].held, k)
    BY <1>1, <1>2, HeldAtType DEF c
  <2>2. z.rows = [b.rows EXCEPT ![id] = r]
    BY <1>6 DEF rows
  <2>3. b \in BookSet /\ r \in RowSet
    BY <1>1, <1>2
  <2> QED  BY ONLY id \in DOMAIN b.rows, <2>1, <2>2, <2>3, OneRowStill
<1>17. Still(b, Defaulted(b, id, e))
  <2> DEFINE y == Substituted(z, id, e)
  <2>1. Still(z, y) /\ Onward(z, y, e)
    BY <1>9 DEF Later
  <2> HIDE DEF y
  <2>2. y \in BookSet /\ DOMAIN b.rows \subseteq DOMAIN z.rows
    BY <1>7, <2>1 DEF Onward, Books
  <2>3. Still(b, y)
    BY <1>1, <1>6, <1>16, <2>1, <2>2, StillTwice
  <2> QED  BY <1>10, <2>3 DEF y
<1>15. c.status = "Active" => Later(b, Defaulted(b, id, e), e)
  BY <1>9, <1>10, <1>11, <1>14, <1>17 DEF Later
<1>18. ASSUME c.status = "Active", Sound(b)
       PROVE  Lost(b, Defaulted(b, id, e), 0)
  <2> DEFINE y == Substituted(z, id, e)
  <2>1. Lost(z, y, 0) /\ y \in BookSet
    BY <1>9, <1>14, <1>18 DEF Later, Onward, Books
  <2> HIDE DEF y
  <2>2. Lost(b, z, 0)
    <3>1. OneRow(b, z, id)
      <4> HIDE DEF r
      <4> QED  BY <1>1, <1>2, <1>6, RowChanged DEF rows, OneRow, OthersLeft
    <3> SUFFICES ASSUME NEW m \in Members
                 PROVE  Net(b, m) <= Net(z, m) + 0
      BY DEF Lost
    <3>2. Net(z, m) = Net(b, m) + Worth(r, m) - Worth(c, m) /\ Net(b, m) \in Int
      BY <1>1, <1>6, <1>8, <3>1, NetChanged, NetType
    <3>3. Worth(r, m) = Worth(c, m) /\ Worth(c, m) \in Int
      <4>1. Live(r) /\ Live(c)
        BY <1>2, <1>18 DEF Live
      <4> HIDE DEF c
      <4> QED  BY <1>1, <1>2, <4>1, WorthIs
    <3> HIDE DEF c
    <3> QED  BY <3>2, <3>3
  <2>3. Lost(b, y, 0 + 0)
    BY <1>1, <1>6, <2>1, <2>2, LostTwice
  <2> QED  BY <1>10, <2>3 DEF y
<1> QED  BY <1>11, <1>12, <1>13, <1>15, <1>17, <1>18

\* The sweep leaves no row due.
LEMMA ExpiredLater ==
    ASSUME NEW b \in Books, NEW e \in Nat
    PROVE  /\ Later(b, Expired(b, e), e)
           /\ \A id \in DOMAIN Expired(b, e).rows : ~Due(Expired(b, e).rows[id], e)
           /\ Sound(b) => Lost(b, Expired(b, e), 0)
<1> DEFINE late == {id \in DOMAIN b.rows : Due(b.rows[id], e)}
           ids == Ascending(late)
           n == Cardinality(late)
           V == {x \in Books : Onward(b, x, e) /\ Still(b, x)}
           G == [k \in 1..n |-> [x \in V |-> Defaulted(x, ids[k], e)]]
           Eq(f) == f = [s \in SUBSET (1..n) |-> IF s = {} THEN b ELSE Defaulted(f[s \ {Max(s)}], ids[Max(s)], e)]
           it == CHOOSE f : Eq(f)
<1>1. n \in Nat /\ ids \in [1..n -> late] /\ (\A id \in late : \E k \in 1..n : ids[k] = id)
      /\ \A j, k \in 1..n : ids[j] = ids[k] => j = k
  <2>1. late \subseteq DOMAIN b.rows /\ b.rows \in RowFiles
    BY DEF Books, BookSet
  <2> HIDE DEF late
  <2>2. late \in SUBSET Nat /\ IsFiniteSet(late)
    BY <2>1, FileTypes, FS_Subset
  <2> QED  BY <2>2, AscendingLists
<1>2. b \in V
  BY OnwardSelf, SameHolds DEF Books
<1>3. ASSUME NEW x \in V, NEW id \in late
      PROVE  /\ Defaulted(x, id, e) \in V
             /\ ~Due(Defaulted(x, id, e).rows[id], e)
             /\ Onward(x, Defaulted(x, id, e), e)
             /\ OthersLeft(x, Defaulted(x, id, e), id)
             /\ x.rows[id] = b.rows[id] =>
                   /\ Later(x, Defaulted(x, id, e), e)
                   /\ Sound(x) => Lost(x, Defaulted(x, id, e), 0)
  <2>1. x \in Books /\ Onward(b, x, e) /\ Still(b, x) /\ id \in DOMAIN x.rows
    BY DEF Onward
  <2> DEFINE y == Defaulted(x, id, e)
  <2>2. /\ Onward(x, y, e) /\ Still(x, y) /\ ~Due(y.rows[id], e) /\ OthersLeft(x, y, id)
        /\ x.rows[id] = b.rows[id] => Later(x, y, e) /\ (Sound(x) => Lost(x, y, 0))
    BY <2>1, DefaultedLater DEF Due
  <2> HIDE DEF y
  <2>3. Onward(b, y, e)
    BY <2>1, <2>2, OnwardTwice
  <2>5. Still(b, y)
    <3>1. b \in BookSet /\ x \in BookSet /\ y \in BookSet /\ DOMAIN b.rows \subseteq DOMAIN x.rows
      BY <2>1, <2>3 DEF Onward, Books
    <3> QED  BY <2>1, <2>2, <3>1, StillTwice
  <2>4. y \in V
    BY <2>3, <2>5 DEF Onward
  <2> QED  BY <2>2, <2>4 DEF y
<1> HIDE DEF late
<1>4. G \in [1..n -> [V -> V]]
  <2> HIDE DEF V, ids
  <2> QED  BY <1>1, <1>3
<1> HIDE DEF n
<1>5. PICK f \in [SUBSET (1..n) -> V] : Folds(f, b, G, n)
  <2> HIDE DEF G, V
  <2> QED  BY <1>1, <1>2, <1>4, FoldExists
<1>6. ASSUME NEW s \in SUBSET (1..n), s # {}
      PROVE  Max(s) \in 1..n /\ s \ {Max(s)} \in SUBSET (1..n)
  BY <1>1, <1>6, TopIsIn DEF Picks, Tops
<1>7. Eq(f)
  <2>1. \A s \in SUBSET (1..n) : f[s] = IF s = {} THEN b ELSE Defaulted(f[s \ {Max(s)}], ids[Max(s)], e)
    <3> HIDE DEF ids
    <3> QED  BY <1>5, <1>6 DEF Folds
  <2> HIDE DEF V, ids
  <2> QED  BY <1>5, <2>1
<1>8. Eq(it)
  <2> HIDE DEF Eq
  <2> QED  BY <1>7
<1>9. Expired(b, e) = it[1..n]
  <2>1. DOMAIN ids = 1..n
    BY <1>1
  <2>2. Expired(b, e) = FoldLeft(LAMBDA x, id : Defaulted(x, id, e), b, ids)
    BY DEF Expired, late
  <2> HIDE DEF ids
  <2> QED  BY <2>1, <2>2 DEF FoldLeft, MapThenFoldSet
<1>10. Iterates(it, b, G, n, V)
  <2> HIDE DEF it, ids, V
  <2> QED  BY <1>6, <1>8 DEF Iterates
<1>11. PICK t \in [0..n -> V] : Through(t, b, G, n) /\ it[1..n] = t[n]
  <2> HIDE DEF it, G, V, Eq
  <2>1. Ends(it, b, G, n, V)
    BY <1>1, <1>2, <1>4, <1>10, FoldEnds
  <2> QED  BY <2>1 DEF Ends
<1> HIDE DEF it
<1>12. ASSUME NEW k \in 0..n
       PROVE  /\ \A j \in 1..k : ids[j] \in DOMAIN t[k].rows /\ ~Due(t[k].rows[ids[j]], e)
              /\ Sound(b) => Sound(t[k]) /\ Lost(b, t[k], 0)
  <2> DEFINE struck(m) == \A j \in 1..m : ids[j] \in DOMAIN t[m].rows /\ ~Due(t[m].rows[ids[j]], e)
             waits(m) == \A j \in m + 1..n : t[m].rows[ids[j]] = b.rows[ids[j]]
             done(m) == struck(m) /\ waits(m) /\ (Sound(b) => Sound(t[m]) /\ Lost(b, t[m], 0))
             P == {m \in Nat : m <= n => done(m)}
  <2>1. 0 \in P
    <3>1. t[0] = b
      BY <1>11 DEF Through
    <3>2. Lost(b, b, 0)
      BY LostSelf DEF Books
    <3> QED  BY <3>1, <3>2
  <2>2. ASSUME NEW m \in Nat, m \in P
        PROVE  m + 1 \in P
    <3>1. SUFFICES ASSUME m + 1 <= n
                   PROVE  done(m + 1)
      BY <2>2
    <3>2. m + 1 \in 1..n /\ m \in 0..n /\ (m + 1) - 1 = m /\ done(m)
      BY <1>1, <2>2, <3>1
    <3> DEFINE id == ids[m + 1]
    <3>3. id \in late /\ t[m] \in V
      <4> HIDE DEF V, ids
      <4> QED  BY <1>1, <3>2
    <3>4. t[m + 1] = Defaulted(t[m], id, e)
      <4> HIDE DEF V, ids
      <4> QED  BY <1>11, <3>2, <3>3 DEF Through
    <3>10. t[m].rows[id] = b.rows[id]
      <4>1. m + 1 \in m + 1..n
        BY <3>2
      <4> HIDE DEF ids
      <4> QED  BY <3>2, <4>1
    <3>5. /\ Onward(t[m], t[m + 1], e) /\ ~Due(t[m + 1].rows[id], e)
          /\ OthersLeft(t[m], t[m + 1], id) /\ Later(t[m], t[m + 1], e)
          /\ Sound(t[m]) => Lost(t[m], t[m + 1], 0)
      <4> HIDE DEF id, V
      <4> QED  BY <1>3, <3>3, <3>4, <3>10
    <3>6. id \in DOMAIN t[m].rows
      BY <3>3 DEF Onward, late
    <3>11. Sound(b) => Sound(t[m + 1]) /\ Lost(b, t[m + 1], 0)
      <4>1. SUFFICES ASSUME Sound(b)
                     PROVE  Sound(t[m + 1]) /\ Lost(b, t[m + 1], 0)
        OBVIOUS
      <4>2. b \in BookSet /\ t[m] \in BookSet /\ t[m + 1] \in BookSet
        BY <3>3, <3>5 DEF Onward, Books
      <4>3. Sound(t[m]) /\ Lost(b, t[m], 0)
        BY <3>2, <4>1
      <4> HIDE DEF V
      <4>4. Lost(b, t[m + 1], 0 + 0)
        BY <3>5, <4>2, <4>3, LostTwice
      <4> QED  BY <3>5, <4>3, <4>4 DEF Later
    <3>12. ASSUME NEW j \in (m + 1) + 1..n
           PROVE  t[m + 1].rows[ids[j]] = b.rows[ids[j]]
      <4>1. j \in m + 1..n /\ j \in 1..n /\ m + 1 \in 1..n /\ j # m + 1
        BY <1>1, <3>2
      <4>2. ids[j] # id /\ ids[j] \in late
        <5> HIDE DEF ids
        <5> QED  BY <1>1, <4>1
      <4>3. ids[j] \in DOMAIN t[m].rows
        BY <3>3, <4>2 DEF Onward, late
      <4>4. t[m].rows[ids[j]] = b.rows[ids[j]]
        BY <3>2, <4>1
      <4> HIDE DEF ids, id
      <4> QED  BY <3>5, <4>2, <4>3, <4>4 DEF OthersLeft
    <3> SUFFICES ASSUME NEW j \in 1..m + 1
                 PROVE  ids[j] \in DOMAIN t[m + 1].rows /\ ~Due(t[m + 1].rows[ids[j]], e)
      BY <3>11, <3>12
    <3>7. CASE j = m + 1
      <4> HIDE DEF ids
      <4> QED  BY <3>5, <3>6, <3>7 DEF Onward
    <3>8. CASE j # m + 1
      <4>1. j \in 1..m
        BY <3>8
      <4>2. ids[j] \in DOMAIN t[m].rows /\ ~Due(t[m].rows[ids[j]], e)
        BY <3>2, <4>1
      <4> HIDE DEF ids, id
      <4> QED  BY <3>5, <4>2 DEF Onward
    <3> QED  BY <3>7, <3>8
  <2>3. Nat \subseteq P
    <3> HIDE DEF P
    <3> QED  BY <2>1, <2>2, NumberInduction
  <2>4. k \in Nat /\ k <= n
    BY <1>1
  <2> HIDE DEF ids
  <2> QED  BY <2>3, <2>4
<1>13. n \in 0..n
  BY <1>1
<1> DEFINE z == Expired(b, e)
<1>14. z = t[n]
  BY <1>9, <1>11
<1>15. Onward(b, z, e) /\ Later(b, z, e) /\ (Sound(b) => Lost(b, z, 0))
  BY <1>12, <1>13, <1>14 DEF Later
<1>16. ASSUME NEW id \in DOMAIN z.rows
       PROVE  ~Due(z.rows[id], e)
  <2>1. SUFFICES ASSUME Due(z.rows[id], e)
                 PROVE  FALSE
    OBVIOUS
  <2>2. id \in late
    <3> HIDE DEF z
    <3> QED  BY <1>15, <2>1 DEF Onward, late
  <2>3. PICK j \in 1..n : ids[j] = id
    BY <1>1, <2>2
  <2> HIDE DEF z, ids
  <2> QED  BY <1>12, <1>13, <1>14, <2>1, <2>3
<1> QED  BY <1>15, <1>16

-----------------------------------------------------------------------------
(* Rings *)

Follows(b, r, i) == b.rows[r[i]].creditor = b.rows[r[IF i = Len(r) THEN 1 ELSE i + 1]].debtor

LEMMA RingFacts ==
    ASSUME NEW b \in Books, NEW r \in Rings(b)
    PROVE  /\ r \in Seq(Nat) /\ Len(r) \in Nat /\ Len(r) >= 2 /\ Len(r) <= MaxRing
           /\ r \in [1..Len(r) -> DOMAIN b.rows]
           /\ \A i \in 1..Len(r) : Follows(b, r, i)
           /\ \A i, j \in 1..Len(r) : i # j => b.rows[r[i]].debtor # b.rows[r[j]].debtor
           /\ \A i \in 1..Len(r) : Eligible(b.rows[r[i]])
<1> DEFINE hops == {id \in DOMAIN b.rows : Eligible(b.rows[id])}
<1>1. hops \subseteq DOMAIN b.rows /\ hops \subseteq Nat /\ \A id \in hops : Eligible(b.rows[id])
  BY FileTypes DEF Books, BookSet
<1>2. /\ r \in UNION {[1..n -> hops] : n \in 2..MaxRing}
      /\ \A i \in DOMAIN r : Follows(b, r, i)
      /\ \A i, j \in DOMAIN r : i # j => b.rows[r[i]].debtor # b.rows[r[j]].debtor
  BY DEF Rings, Follows
<1> HIDE DEF hops
<1>3. MaxRing \in Nat
  BY LedgerAssumption
<1>4. PICK n \in 2..MaxRing : r \in [1..n -> hops]
  BY <1>2
<1>5. n \in Nat /\ n >= 2 /\ n <= MaxRing /\ DOMAIN r = 1..n
  BY <1>3, <1>4
<1>6. r \in Seq(Nat) /\ Len(r) = n
  <2>1. r \in [1..n -> Nat]
    BY <1>1, <1>4
  <2> QED  BY <1>5, <2>1
<1>7. r \in [1..n -> DOMAIN b.rows] /\ \A i \in 1..n : Eligible(b.rows[r[i]])
  BY <1>1, <1>4
<1> QED  BY <1>2, <1>5, <1>6, <1>7

LEMMA NoRingBeginsAnother ==
    ASSUME NEW b \in Books, NEW r \in Rings(b), NEW s \in Rings(b), Len(r) < Len(s),
           \A i \in 1..Len(r) : r[i] = s[i]
    PROVE  FALSE
<1> DEFINE n == Len(r)
<1>1. n \in Nat /\ n >= 2 /\ Len(s) \in Nat
  BY RingFacts
<1>2. n \in 1..Len(r) /\ n \in 1..Len(s) /\ n # Len(s) /\ 1 \in 1..Len(r) /\ n + 1 \in 1..Len(s)
      /\ 1 \in 1..Len(s) /\ n + 1 # 1
  BY <1>1
<1>3. b.rows[r[n]].creditor = b.rows[r[1]].debtor
  <2>1. Follows(b, r, n)
    BY <1>2, RingFacts
  <2> QED  BY <2>1 DEF Follows
<1>4. b.rows[s[n]].creditor = b.rows[s[n + 1]].debtor
  <2>1. Follows(b, s, n)
    BY <1>2, RingFacts
  <2> QED  BY <1>2, <2>1 DEF Follows
<1>5. r[n] = s[n] /\ r[1] = s[1]
  BY <1>2
<1>6. b.rows[s[1]].debtor = b.rows[s[n + 1]].debtor
  BY <1>3, <1>4, <1>5
<1> QED  BY <1>2, <1>6, RingFacts

LEMMA RingsOrdered ==
    ASSUME NEW b \in Books, NEW r \in Rings(b), NEW s \in Rings(b)
    PROVE  r = s \/ RouteBefore(r, s) \/ RouteBefore(s, r)
<1>1. ~Begins(r, s) /\ ~Begins(s, r)
  BY NoRingBeginsAnother DEF Begins
<1> QED  BY <1>1, RingFacts, RoutesPart

\* The rings of a book, if there are any, have a first.
LEMMA FirstRing ==
    ASSUME NEW b \in Books, Rings(b) # {}
    PROVE  LET ring == CHOOSE r \in Rings(b) : \A s \in Rings(b) : s = r \/ RouteBefore(r, s)
           IN ring \in Rings(b)
<1> DEFINE S == Rings(b)
           R == {p \in S \X S : RouteBefore(p[1], p[2])}
           hops == {id \in DOMAIN b.rows : Eligible(b.rows[id])}
           all == UNION {[1..n -> hops] : n \in 2..MaxRing}
<1>1. IsFiniteSet(S)
  <2>1. IsFiniteSet(hops)
    BY FileTypes, FS_Subset DEF Books, BookSet
  <2>2. S \subseteq all
    BY DEF Rings
  <2> HIDE DEF hops
  <2>3. IsFiniteSet(all)
    <3>1. 2 \in Nat /\ MaxRing \in Nat
      BY LedgerAssumption
    <3> QED  BY <2>1, <3>1, FiniteTuples
  <2> HIDE DEF all, S
  <2> QED  BY <2>2, <2>3, FS_Subset
<1>2. \A x, y \in S : <<x, y>> \in R <=> RouteBefore(x, y)
  OBVIOUS
<1> HIDE DEF R
<1>3. \A x, y \in S : x = y \/ <<x, y>> \in R \/ <<y, x>> \in R
  BY <1>2, RingsOrdered
<1>4. \A x \in S : x \in Seq(Nat)
  BY RingFacts
<1>5. \A x, y, z \in S : <<x, y>> \in R /\ <<y, z>> \in R => <<x, z>> \in R
  BY <1>2, <1>4, RouteTransitive
<1>6. PICK x \in S : \A y \in S : y = x \/ <<x, y>> \in R
  <2> HIDE DEF S
  <2> QED  BY <1>1, <1>3, <1>5, LeastOfOrder DEF Orders, S
<1>7. \E r \in Rings(b) : \A s \in Rings(b) : s = r \/ RouteBefore(r, s)
  BY <1>2, <1>6
<1> QED  BY <1>7

LEMMA HopLater ==
    ASSUME NEW b \in Books, Ready, NEW id \in DOMAIN b.rows, NEW want \in Nat, NEW e
    PROVE  Later(b, Hop(b, id, want), e)
<1> DEFINE take == Less(want, b.rows[id].outstanding)
<1>1. b.rows[id].outstanding \in Nat
  BY FileTypes DEF Books, BookSet, RowSet
<1>2. take \in Nat /\ take <= b.rows[id].outstanding
  BY <1>1, LessType
<1>3. Hop(b, id, want) = IF take <= DustMinor THEN b ELSE Discharged(b, id, take)
  BY DEF Hop
<1> DEFINE c == b.rows[id]
           y == Discharged(b, id, take)
<1> HIDE DEF take
<1>4. Onward(b, y, e) /\ Still(b, y) /\ (Live(c) => Later(b, y, e))
  BY <1>2, DischargedLater
<1>5. RowSound(c) /\ ~Live(c) => take <= DustMinor
  BY <1>1, <1>2 DEF RowSound, Ready
<1>6. Sound(b) => RowSound(c)
  BY DEF Sound, RowsSound
<1> HIDE DEF c, y
<1> QED  BY <1>3, <1>4, <1>5, <1>6, LaterSelf DEF Later, y

\* Going round a ring, each party is paid what it pays, and loses at most the
\* dust forgiven of the one claim of theirs that the ring closes.
LEMMA RingSpares ==
    ASSUME NEW b \in Books, Ready, NEW ring \in Rings(b), NEW want \in Nat, want > DustMinor,
           \A i \in 1..Len(ring) : want <= b.rows[ring[i]].outstanding,
           NEW t, t[0] = b,
           \A k \in 1..Len(ring) : t[k] \in Books /\ t[k] = Hop(t[k - 1], ring[k], want)
    PROVE  Lost(b, t[Len(ring)], DustMinor)
<1> DEFINE n == Len(ring)
           d(i) == b.rows[ring[i]].debtor
           c(i) == b.rows[ring[i]].creditor
           after(i) == IF i = n THEN 1 ELSE i + 1
           paid(k, m) == IF \E i \in 1..k : d(i) = m THEN want ELSE 0
           lost(k, m) == IF \E i \in 1..k : c(i) = m THEN want + DustMinor ELSE 0
           waits(k) == \A j \in k + 1..n : t[k].rows[ring[j]] = b.rows[ring[j]]
           fair(k) == \A m \in Members : Net(b, m) + paid(k, m) <= Net(t[k], m) + lost(k, m)
           done(k) == t[k] \in Books /\ DOMAIN t[k].rows = DOMAIN b.rows /\ waits(k) /\ fair(k)
           P == {k \in Nat : k <= n => done(k)}
<1>1. /\ n \in Nat /\ n >= 2 /\ ring \in [1..n -> DOMAIN b.rows]
      /\ \A i, j \in 1..n : i # j => d(i) # d(j)
      /\ \A i \in 1..n : Eligible(b.rows[ring[i]])
  BY RingFacts
<1>2. \A i \in 1..n : after(i) \in 1..n /\ c(i) = d(after(i))
  <2>1. \A i \in 1..n : c(i) = d(after(i))
    BY RingFacts DEF Follows
  <2>2. \A i \in 1..n : after(i) \in 1..n
    <3>1. n \in Nat /\ n >= 2
      BY <1>1
    <3> HIDE DEF n
    <3> QED  BY <3>1
  <2> QED  BY <2>1, <2>2
<1>3. \A i, j \in 1..n : i # j => c(i) # c(j)
  <2> SUFFICES ASSUME NEW i \in 1..n, NEW j \in 1..n, i # j
               PROVE  c(i) # c(j)
    OBVIOUS
  <2>1. after(i) # after(j)
    BY <1>1
  <2> HIDE DEF c, d, after
  <2> QED  BY <1>1, <1>2, <2>1
<1>4. \A i, j \in 1..n : i # j => ring[i] # ring[j]
  BY <1>1
<1>5. DustMinor \in Nat
  BY DEF Ready
<1> HIDE DEF c, d, after
<1>6. 0 \in P
  <2>1. \A m : paid(0, m) = 0 /\ lost(0, m) = 0
    OBVIOUS
  <2>2. \A m \in Members : Net(b, m) \in Int
    BY NetType DEF Books
  <2> HIDE DEF paid, lost, n
  <2> QED  BY <2>1, <2>2
<1>7. ASSUME NEW k \in Nat, k \in P
      PROVE  k + 1 \in P
  <2>1. SUFFICES ASSUME k + 1 <= n
                 PROVE  done(k + 1)
    BY <1>7
  <2>2. k + 1 \in 1..n /\ (k + 1) - 1 = k /\ done(k) /\ k + 1 \in k + 1..n
    <3>1. k <= n => done(k)
      BY <1>7
    <3>2. n \in Nat
      BY <1>1
    <3> HIDE DEF n, done
    <3> QED  BY <2>1, <3>1, <3>2
  <2> DEFINE id == ring[k + 1]
             x == t[k]
             y == t[k + 1]
             r == b.rows[id]
  <2>3. /\ x \in Books /\ y \in Books /\ DOMAIN x.rows = DOMAIN b.rows /\ id \in DOMAIN x.rows
        /\ x.rows[id] = r /\ y = Hop(x, id, want)
    <3> HIDE DEF n, fair
    <3> QED  BY <1>1, <2>2
  <2>4. want <= r.outstanding /\ r.outstanding \in Nat /\ Live(r) /\ r.debtor = d(k + 1) /\ r.creditor = c(k + 1)
    <3>1. r \in RowSet
      BY <1>1, <2>2, FileTypes DEF Books, BookSet
    <3>2. Eligible(r) /\ want <= r.outstanding
      BY <1>1, <2>2
    <3> QED  BY <3>1, <3>2 DEF Eligible, Live, RowSet, c, d
  <2> HIDE DEF id, x, y, r
  <2>5. y = Discharged(x, id, want)
    BY <1>5, <2>3, <2>4 DEF Hop, Less
  <2>6. OneRow(x, y, id)
    BY <2>3, <2>4, <2>5, DischargedLater
  <2>7. DOMAIN y.rows = DOMAIN b.rows
    BY <2>3, <2>6 DEF OneRow
  <2>8. waits(k + 1)
    <3> SUFFICES ASSUME NEW j \in (k + 1) + 1..n
                 PROVE  t[k + 1].rows[ring[j]] = b.rows[ring[j]]
      OBVIOUS
    <3>1. j \in 1..n /\ j \in k + 1..n /\ j # k + 1
      BY <1>1
    <3>2. ring[j] # id /\ ring[j] \in DOMAIN x.rows
      BY <1>1, <1>4, <2>2, <2>3, <3>1 DEF id
    <3>3. x.rows[ring[j]] = b.rows[ring[j]]
      BY <2>2, <3>1 DEF x
    <3> QED  BY <2>6, <3>2, <3>3 DEF OneRow, OthersLeft, y
  <2>9. ASSUME NEW m \in Members
        PROVE  Net(b, m) + paid(k + 1, m) <= Net(y, m) + lost(k + 1, m)
    <3> DEFINE off == Off(x, y, id)
               e == c(k + 1)
               f == d(k + 1)
    <3>1. /\ off \in Nat /\ want <= off /\ off <= want + DustMinor
          /\ Net(y, m) = Net(x, m) - For(e, m, off) + For(f, m, off)
      BY <2>3, <2>4, <2>5, DischargedNet
    <3>2. paid(k + 1, m) = paid(k, m) + For(f, m, want)
      <4>1. CASE f = m
        <5>1. ~\E i \in 1..k : d(i) = m
          BY <1>1, <2>2, <4>1
        <5>2. \E i \in 1..k + 1 : d(i) = m
          BY <2>2, <4>1
        <5> QED  BY <4>1, <5>1, <5>2 DEF For
      <4>2. CASE f # m
        <5>1. (\E i \in 1..k + 1 : d(i) = m) <=> (\E i \in 1..k : d(i) = m)
          <6>1. \A i \in 1..k + 1 : i = k + 1 \/ i \in 1..k
            OBVIOUS
          <6>2. \A i \in 1..k : i \in 1..k + 1
            OBVIOUS
          <6> QED  BY <4>2, <6>1, <6>2
        <5>2. paid(k, m) \in Int
          OBVIOUS
        <5> QED  BY <4>2, <5>1, <5>2 DEF For
      <4> QED  BY <4>1, <4>2
    <3>3. lost(k + 1, m) = lost(k, m) + For(e, m, want + DustMinor)
      <4>1. CASE e = m
        <5>1. ~\E i \in 1..k : c(i) = m
          BY <1>3, <2>2, <4>1
        <5>2. \E i \in 1..k + 1 : c(i) = m
          BY <2>2, <4>1
        <5> QED  BY <1>5, <4>1, <5>1, <5>2 DEF For
      <4>2. CASE e # m
        <5>1. (\E i \in 1..k + 1 : c(i) = m) <=> (\E i \in 1..k : c(i) = m)
          <6>1. \A i \in 1..k + 1 : i = k + 1 \/ i \in 1..k
            OBVIOUS
          <6>2. \A i \in 1..k : i \in 1..k + 1
            OBVIOUS
          <6> QED  BY <4>2, <6>1, <6>2
        <5>2. lost(k, m) \in Int
          BY <1>5
        <5> QED  BY <4>2, <5>1, <5>2 DEF For
      <4> QED  BY <4>1, <4>2
    <3>4. Net(b, m) + paid(k, m) <= Net(x, m) + lost(k, m)
      BY <2>2 DEF x
    <3>5. Net(b, m) \in Int /\ Net(x, m) \in Int /\ paid(k, m) \in Int /\ lost(k, m) \in Int
      BY <1>5, <2>3, NetType DEF Books
    <3> HIDE DEF off, e, f, paid, lost
    <3> QED  BY <1>5, <3>1, <3>2, <3>3, <3>4, <3>5 DEF For
  <2> HIDE DEF paid, lost
  <2> QED  BY <2>3, <2>7, <2>8, <2>9 DEF y
<1>8. Nat \subseteq P
  <2> HIDE DEF P
  <2> QED  BY <1>6, <1>7, NumberInduction
<1>9. fair(n) /\ t[n] \in Books
  <2>1. n \in Nat
    BY <1>1
  <2> HIDE DEF n, done
  <2>2. n <= n => done(n)
    BY <1>8, <2>1
  <2>3. done(n)
    BY <2>1, <2>2
  <2> QED  BY <2>3 DEF done
<1> SUFFICES ASSUME NEW m \in Members
             PROVE  Net(b, m) <= Net(t[n], m) + DustMinor
  BY DEF Lost
<1>10. Net(b, m) + paid(n, m) <= Net(t[n], m) + lost(n, m)
  BY <1>9
<1>11. Net(b, m) \in Int /\ Net(t[n], m) \in Int
  BY <1>9, NetType DEF Books
<1>12. (\E i \in 1..n : c(i) = m) => \E i \in 1..n : d(i) = m
  BY <1>2
<1> HIDE DEF n
<1> QED  BY <1>5, <1>10, <1>11, <1>12

LEMMA NettedLater ==
    ASSUME NEW b \in Books, Ready, NEW e
    PROVE  Later(b, Netted(b), e) /\ Lost(b, Netted(b), DustMinor)
<1> DEFINE ring == CHOOSE r \in Rings(b) : \A s \in Rings(b) : s = r \/ RouteBefore(r, s)
           n == Len(ring)
           want == Smallest(b, ring)
           V == {x \in Books : Later(b, x, e)}
           G == [k \in 1..n |-> [x \in V |-> Hop(x, ring[k], want)]]
           Eq(f) == f = [s \in SUBSET (1..n) |-> IF s = {} THEN b ELSE Hop(f[s \ {Max(s)}], ring[Max(s)], want)]
           it == CHOOSE f : Eq(f)
<1>1. CASE Rings(b) = {}
  <2>1. Netted(b) = b
    BY <1>1 DEF Netted
  <2>2. Lost(b, b, DustMinor)
    <3>1. \A m \in Members : Net(b, m) \in Int
      BY NetType DEF Books
    <3> QED  BY <3>1 DEF Lost, Ready
  <2> QED  BY <2>1, <2>2, LaterSelf
<1>2. CASE Rings(b) # {}
  <2>1. /\ n \in Nat /\ n >= 2 /\ ring \in [1..n -> DOMAIN b.rows] /\ ring \in Rings(b)
        /\ \A i \in 1..n : Eligible(b.rows[ring[i]])
    <3>1. ring \in Rings(b)
      BY <1>2, FirstRing
    <3> HIDE DEF ring
    <3> QED  BY <3>1, RingFacts
  <2>2. want \in Nat /\ want > DustMinor /\ \A i \in 1..n : want <= b.rows[ring[i]].outstanding
    <3> DEFINE owed == {b.rows[ring[i]].outstanding : i \in DOMAIN ring}
    <3>1. \A id \in DOMAIN b.rows : b.rows[id].outstanding \in Nat
      BY FileTypes DEF Books, BookSet, RowSet
    <3>2. DOMAIN ring = 1..n /\ 1 \in 1..n
      BY <2>1
    <3> HIDE DEF ring, n
    <3>3. owed \subseteq Nat /\ b.rows[ring[1]].outstanding \in owed
      BY <2>1, <3>1, <3>2
    <3>5. \A x \in owed : x > DustMinor
      BY <2>1, <3>2 DEF Eligible
    <3>6. \A i \in 1..n : b.rows[ring[i]].outstanding \in owed
      BY <3>2
    <3>4. want = Min(owed)
      BY DEF Smallest
    <3> HIDE DEF owed, want
    <3> QED  BY <3>3, <3>4, <3>5, <3>6, MinIsIn
  <2> HIDE DEF ring, want, n
  <2>3. b \in V
    BY LaterSelf
  <2>4. ASSUME NEW x \in V, NEW id \in DOMAIN b.rows
        PROVE  Hop(x, id, want) \in V
    <3> DEFINE y == Hop(x, id, want)
    <3>1. x \in Books /\ Later(b, x, e) /\ id \in DOMAIN x.rows
      BY DEF Onward, Later
    <3>2. Later(x, y, e)
      BY <2>2, <3>1, HopLater
    <3> HIDE DEF y
    <3>3. Later(b, y, e)
      BY <3>1, <3>2, LaterTwice
    <3>4. y \in V
      BY <3>3 DEF Onward, Later
    <3> QED  BY <3>4 DEF y
  <2>5. G \in [1..n -> [V -> V]]
    <3> HIDE DEF V
    <3> QED  BY <2>1, <2>4
  <2>6. PICK f \in [SUBSET (1..n) -> V] : Folds(f, b, G, n)
    <3> HIDE DEF G, V
    <3> QED  BY <2>1, <2>3, <2>5, FoldExists
  <2>7. ASSUME NEW s \in SUBSET (1..n), s # {}
        PROVE  Max(s) \in 1..n /\ s \ {Max(s)} \in SUBSET (1..n)
    BY <2>1, <2>7, TopIsIn DEF Picks, Tops
  <2>8. Eq(f)
    <3>1. \A s \in SUBSET (1..n) : f[s] = IF s = {} THEN b ELSE Hop(f[s \ {Max(s)}], ring[Max(s)], want)
      BY <2>6, <2>7 DEF Folds
    <3> HIDE DEF V
    <3> QED  BY <2>6, <3>1
  <2>9. Eq(it)
    <3> HIDE DEF Eq
    <3> QED  BY <2>8
  <2>10. Iterates(it, b, G, n, V)
    <3> HIDE DEF it, V
    <3> QED  BY <2>7, <2>9 DEF Iterates
  <2>11. PICK t \in [0..n -> V] : Through(t, b, G, n) /\ it[1..n] = t[n]
    <3> HIDE DEF it, G, V
    <3>1. Ends(it, b, G, n, V)
      BY <2>1, <2>3, <2>5, <2>10, FoldEnds
    <3> QED  BY <3>1 DEF Ends
  <2>12. Netted(b) = it[1..n]
    <3>1. DOMAIN ring = 1..n
      BY <2>1
    <3>2. Netted(b) = FoldLeft(LAMBDA x, id : Hop(x, id, want), b, ring)
      BY <1>2 DEF Netted, ring, want
    <3> QED  BY <3>1, <3>2 DEF FoldLeft, MapThenFoldSet
  <2> HIDE DEF it
  <2>13. t[0] = b /\ \A k \in 1..n : t[k] \in V /\ t[k] = Hop(t[k - 1], ring[k], want)
    <3>1. t[0] = b
      BY <2>11 DEF Through
    <3> SUFFICES ASSUME NEW k \in 1..n
                 PROVE  t[k] \in V /\ t[k] = Hop(t[k - 1], ring[k], want)
      BY <3>1
    <3>2. k - 1 \in 0..n /\ k \in 0..n
      BY <2>1
    <3> HIDE DEF V
    <3> QED  BY <2>11, <3>2 DEF Through
  <2>14. Lost(b, t[n], DustMinor)
    <3>1. \A k \in 1..Len(ring) : t[k] \in Books /\ t[k] = Hop(t[k - 1], ring[k], want)
      BY <2>13 DEF n
    <3> HIDE DEF V
    <3>2. \A i \in 1..Len(ring) : want <= b.rows[ring[i]].outstanding
      BY <2>2 DEF n
    <3> QED  BY <2>1, <2>2, <2>13, <3>1, <3>2, RingSpares DEF n
  <2>15. t[n] \in V
    <3>1. n \in 1..n
      BY <2>1
    <3> HIDE DEF V
    <3> QED  BY <2>13, <3>1
  <2> QED  BY <2>11, <2>12, <2>14, <2>15
<1> QED  BY <1>1, <1>2

LEMMA AllNettedLater ==
    ASSUME NEW b \in Books, Ready, NEW e
    PROVE  Later(b, AllNetted(b), e) /\ Lost(b, AllNetted(b), MaxRings * DustMinor)
<1> DEFINE n == MaxRings
           V == {x \in Books : Later(b, x, e)}
           G == [k \in 1..n |-> [x \in V |-> Netted(x)]]
           Eq(f) == f = [s \in SUBSET (1..n) |-> IF s = {} THEN b ELSE Netted(f[s \ {Max(s)}])]
           it == CHOOSE f : Eq(f)
<1>1. n \in Nat
  BY LedgerAssumption
<1>2. b \in V
  BY LaterSelf
<1>3. ASSUME NEW x \in V
      PROVE  Netted(x) \in V
  <2> DEFINE y == Netted(x)
  <2>1. x \in Books /\ Later(b, x, e)
    OBVIOUS
  <2>2. Later(x, y, e)
    BY <2>1, NettedLater
  <2> HIDE DEF y
  <2>3. Later(b, y, e)
    BY <2>1, <2>2, LaterTwice
  <2>4. y \in V
    BY <2>3 DEF Onward, Later
  <2> QED  BY <2>4 DEF y
<1>4. G \in [1..n -> [V -> V]]
  <2> HIDE DEF V
  <2> QED  BY <1>3
<1>5. PICK f \in [SUBSET (1..n) -> V] : Folds(f, b, G, n)
  <2> HIDE DEF G, V
  <2> QED  BY <1>1, <1>2, <1>4, FoldExists
<1>6. ASSUME NEW s \in SUBSET (1..n), s # {}
      PROVE  Max(s) \in 1..n /\ s \ {Max(s)} \in SUBSET (1..n)
  BY <1>1, <1>6, TopIsIn DEF Picks, Tops
<1>7. Eq(f)
  <2>1. \A s \in SUBSET (1..n) : f[s] = IF s = {} THEN b ELSE Netted(f[s \ {Max(s)}])
    BY <1>5, <1>6 DEF Folds
  <2> HIDE DEF V
  <2> QED  BY <1>5, <2>1
<1>8. Eq(it)
  <2> HIDE DEF Eq
  <2> QED  BY <1>7
<1>9. AllNetted(b) = it[1..n]
  <2> DEFINE q == [k \in 1..n |-> k]
  <2>1. DOMAIN q = 1..n
    OBVIOUS
  <2> QED  BY <2>1 DEF AllNetted, FoldLeft, MapThenFoldSet
<1>10. Iterates(it, b, G, n, V)
  <2> HIDE DEF it, V
  <2> QED  BY <1>6, <1>8 DEF Iterates
<1>11. PICK t \in [0..n -> V] : Through(t, b, G, n) /\ it[1..n] = t[n]
  <2> HIDE DEF it, G, V
  <2>1. Ends(it, b, G, n, V)
    BY <1>1, <1>2, <1>4, <1>10, FoldEnds
  <2> QED  BY <2>1 DEF Ends
<1> HIDE DEF it
<1>12. t[0] = b /\ \A k \in 1..n : t[k - 1] \in V /\ t[k] = Netted(t[k - 1])
  <2>1. t[0] = b
    BY <1>11 DEF Through
  <2> SUFFICES ASSUME NEW k \in 1..n
               PROVE  t[k - 1] \in V /\ t[k] = Netted(t[k - 1])
    BY <2>1
  <2>2. k - 1 \in 0..n
    BY <1>1
  <2> HIDE DEF V
  <2> QED  BY <1>11, <2>2 DEF Through
<1> DEFINE P == {k \in Nat : k <= n => Lost(b, t[k], k * DustMinor)}
<1>13. 0 \in P
  <2>1. Lost(b, b, 0) /\ 0 * DustMinor = 0
    BY LostSelf DEF Books, Ready
  <2> QED  BY <1>12, <2>1
<1>14. ASSUME NEW k \in Nat, k \in P
       PROVE  k + 1 \in P
  <2>1. SUFFICES ASSUME k + 1 <= n
                 PROVE  Lost(b, t[k + 1], (k + 1) * DustMinor)
    BY <1>14
  <2>2. k + 1 \in 1..n /\ (k + 1) - 1 = k /\ Lost(b, t[k], k * DustMinor)
    BY <1>1, <1>14, <2>1
  <2>3. t[k] \in Books /\ t[k + 1] = Netted(t[k])
    BY <1>12, <2>2
  <2>4. Later(t[k], t[k + 1], e) /\ Lost(t[k], t[k + 1], DustMinor)
    BY <2>3, NettedLater
  <2>5. b \in BookSet /\ t[k] \in BookSet /\ t[k + 1] \in BookSet
    BY <2>3, <2>4 DEF Later, Onward, Books
  <2>6. k * DustMinor \in Nat /\ DustMinor \in Nat /\ (k + 1) * DustMinor = k * DustMinor + DustMinor
    BY ProductIsNatural DEF Ready
  <2> DEFINE j == k * DustMinor
  <2>7. Lost(b, t[k], j) /\ j \in Nat /\ (k + 1) * DustMinor = j + DustMinor
    BY <2>2, <2>6
  <2> HIDE DEF j
  <2>8. Lost(b, t[k + 1], j + DustMinor)
    BY <2>4, <2>5, <2>6, <2>7, LostTwice
  <2> QED  BY <2>7, <2>8
<1>15. Nat \subseteq P
  <2> HIDE DEF P
  <2> QED  BY <1>13, <1>14, NumberInduction
<1>16. t[n] \in V /\ Lost(b, t[n], n * DustMinor)
  <2>1. n \in 0..n /\ n \in P
    BY <1>1, <1>15
  <2> HIDE DEF V
  <2> QED  BY <1>1, <2>1
<1> QED  BY <1>9, <1>11, <1>16

LEMMA FadedLater ==
    ASSUME NEW b \in Books, Ready, NEW epochs \in Nat, NEW e
    PROVE  Later(b, Faded(b, epochs), e) /\ Lost(b, Faded(b, epochs), 0)
<1> DEFINE n == epochs
           fade(x) == [x EXCEPT !.edges = Decayed(@, x.reserved, DecayNum, DecayDen)]
           V == {x \in Books : Later(b, x, e) /\ x.rows = b.rows /\ x.charged = b.charged}
           G == [k \in 1..n |-> [x \in V |-> fade(x)]]
           Eq(f) == f = [s \in SUBSET (1..n) |-> IF s = {} THEN b ELSE fade(f[s \ {Max(s)}])]
           it == CHOOSE f : Eq(f)
<1>1. b \in V
  BY LaterSelf
<1>2. ASSUME NEW x \in V
      PROVE  fade(x) \in V
  <2> DEFINE edges == Decayed(x.edges, x.reserved, DecayNum, DecayDen)
             y == [x EXCEPT !.edges = edges]
  <2>1. x \in Books /\ x \in BookSet /\ Later(b, x, e) /\ x.rows = b.rows /\ x.charged = b.charged
    BY DEF Books
  <2>2. edges \in [Arcs -> Nat]
    <3> SUFFICES ASSUME NEW a \in Arcs
                 PROVE  More((x.edges[a] * DecayNum) \div DecayDen, x.reserved[a]) \in Nat
      BY DEF Decayed
    <3>1. x.edges[a] \in Nat /\ x.reserved[a] \in Nat
      BY <2>1 DEF BookSet
    <3>2. (x.edges[a] * DecayNum) \div DecayDen \in Nat
      BY <3>1, LedgerAssumption, ProductIsNatural, QuotientIsNatural
    <3> QED  BY <3>1, <3>2, MoreType
  <2>3. fade(x) = y
    BY <2>1 DEF BookSet
  <2>7. \A a \in Arcs : edges[a] \in Nat /\ x.reserved[a] \in Nat /\ x.reserved[a] <= edges[a]
    <3> SUFFICES ASSUME NEW a \in Arcs
                 PROVE  edges[a] \in Nat /\ x.reserved[a] \in Nat /\ x.reserved[a] <= edges[a]
      OBVIOUS
    <3> DEFINE p == (x.edges[a] * DecayNum) \div DecayDen
    <3>1. x.edges[a] \in Nat /\ x.reserved[a] \in Nat
      BY <2>1 DEF BookSet
    <3>2. p \in Nat
      BY <3>1, LedgerAssumption, ProductIsNatural, QuotientIsNatural
    <3>3. edges[a] = More(p, x.reserved[a])
      BY DEF Decayed
    <3> HIDE DEF p, edges
    <3> QED  BY <3>1, <3>2, <3>3 DEF More
  <2> HIDE DEF edges
  <2>4. /\ y \in BookSet /\ y.rows = x.rows /\ y.next = x.next
        /\ y.agreed = x.agreed /\ y.charged = x.charged
        /\ y.debt = x.debt /\ y.default = x.default
        /\ y.reserved = x.reserved /\ y.committed = x.committed /\ y.edges = edges
    BY <2>1, <2>2 DEF BookSet
  <2> HIDE DEF y, fade
  <2>8. ASSUME Filled(x)
        PROVE  Filled(y)
    <3> SUFFICES ASSUME NEW k \in Places
                 PROVE  Booked(y, k) = Total(y, k) /\ Total(y, k) <= Stock(y, k)
      BY DEF Filled
    <3>1. Booked(y, k) = Booked(x, k) /\ Total(y, k) = Total(x, k)
      BY <2>4 DEF Booked, Total, Tally
    <3>2. Booked(x, k) = Total(x, k) /\ Total(x, k) <= Stock(x, k)
      BY <2>8 DEF Filled
    <3>3. CASE k[1] = "arc" /\ k[2] \in Arcs
      <4>1. Stock(y, k) = edges[k[2]] /\ Booked(x, k) = x.reserved[k[2]]
        BY <2>4, <3>3 DEF Stock, Booked, At
      <4> QED  BY <2>7, <3>1, <3>2, <3>3, <4>1
    <3>4. CASE k[1] = "supply" /\ k[2] \in Members
      <4>1. Stock(y, k) = Stock(x, k)
        BY <3>4 DEF Stock, At
      <4> QED  BY <3>1, <3>2, <4>1
    <3> QED  BY <3>3, <3>4, PlaceKinds
  <2>5. Onward(x, y, e) /\ Tracks(x, y)
    BY <2>1, <2>4, <2>8, RowsLeft, CachesLeft
  <2>9. Still(x, y)
    BY <2>1, <2>4, SameHolds
  <2>6. Later(b, y, e)
    <3>1. Later(x, y, e)
      BY <2>1, <2>5, <2>9, LaterTracks
    <3> QED  BY <2>1, <3>1, LaterTwice
  <2> QED  BY <2>1, <2>3, <2>4, <2>6 DEF Onward, Later
<1> HIDE DEF fade
<1>3. G \in [1..n -> [V -> V]]
  <2> HIDE DEF V
  <2> QED  BY <1>2
<1>4. PICK f \in [SUBSET (1..n) -> V] : Folds(f, b, G, n)
  <2> HIDE DEF G, V
  <2> QED  BY <1>1, <1>3, FoldExists
<1>5. ASSUME NEW s \in SUBSET (1..n), s # {}
      PROVE  Max(s) \in 1..n /\ s \ {Max(s)} \in SUBSET (1..n)
  BY <1>5, TopIsIn DEF Picks, Tops
<1>6. Eq(f)
  <2>1. \A s \in SUBSET (1..n) : f[s] = IF s = {} THEN b ELSE fade(f[s \ {Max(s)}])
    BY <1>4, <1>5 DEF Folds
  <2> HIDE DEF V
  <2> QED  BY <1>4, <2>1
<1>7. Eq(it)
  <2> HIDE DEF Eq
  <2> QED  BY <1>6
<1>8. Faded(b, epochs) = it[1..n]
  <2> DEFINE q == [k \in 1..n |-> k]
  <2>1. DOMAIN q = 1..n
    OBVIOUS
  <2> QED  BY <2>1 DEF Faded, FoldLeft, MapThenFoldSet, fade
<1>9. Iterates(it, b, G, n, V)
  <2> HIDE DEF it, V
  <2> QED  BY <1>5, <1>7 DEF Iterates
<1>10. it[1..n] \in V
  <2> HIDE DEF it, G, V
  <2> QED  BY <1>1, <1>3, <1>9, FoldStays
<1> HIDE DEF it
<1>11. Lost(b, it[1..n], 0)
  BY <1>10, LostSelf DEF Books
<1> QED  BY <1>8, <1>10, <1>11

-----------------------------------------------------------------------------
(* Panels *)

\* What the panel that travels with the row i may still award against m.
Open(b, m, i) == /\ i \in DOMAIN b.rows /\ b.rows[i].arb \in Terms
                 /\ ~b.rows[i].arb.awarded /\ b.rows[i].arb.creditor = m

Most(t) == Less(t.cap, t.amount)

Risk(b, m) == [i \in Nat |-> IF Open(b, m, i) THEN Most(b.rows[i].arb) ELSE 0]

AtStake(b, m) == SumFunctionOnSet(Risk(b, m), DOMAIN b.rows)

\* Until the unit moves, what was awarded against a member and what still may
\* be is what it agreed to.
Covered(b) == unit.times = 0 => \A m \in Members : b.charged[m] + AtStake(b, m) <= b.agreed[m]

LEMMA RiskType ==
    ASSUME NEW b, NEW m
    PROVE  Risk(b, m) \in [Nat -> Nat]
<1> SUFFICES ASSUME NEW i \in Nat, Open(b, m, i)
             PROVE  Most(b.rows[i].arb) \in Nat
  BY DEF Risk
<1> DEFINE t == b.rows[i].arb
<1>1. t.cap \in Nat /\ t.amount \in Nat
  BY DEF Open, Terms
<1> HIDE DEF t
<1>2. Most(t) \in Nat
  BY <1>1, LessType DEF Most
<1> QED  BY <1>2 DEF t

LEMMA AtStakeIs ==
    ASSUME NEW b \in Books, NEW m, NEW S \in SUBSET Nat, IsFiniteSet(S), DOMAIN b.rows \subseteq S
    PROVE  AtStake(b, m) = SumFunctionOnSet(Risk(b, m), S) /\ AtStake(b, m) \in Nat
<1>1. \A x \in S : Risk(b, m)[x] \in Nat
  BY RiskType
<1>2. \A x \in S \ DOMAIN b.rows : Risk(b, m)[x] = 0
  BY DEF Risk, Open
<1>3. DOMAIN b.rows \in SUBSET S
  OBVIOUS
<1>4. SumFunctionOnSet(Risk(b, m), S) = SumFunctionOnSet(Risk(b, m), DOMAIN b.rows)
  BY <1>1, <1>2, <1>3, SumOnSupport
<1>5. SumFunctionOnSet(Risk(b, m), S) \in Nat
  BY <1>1, SumIsNatural
<1> QED  BY <1>4, <1>5 DEF AtStake

LEMMA TwoBooks ==
    ASSUME NEW b \in Books, NEW c \in Books
    PROVE  LET S == DOMAIN b.rows \cup DOMAIN c.rows
           IN S \in SUBSET Nat /\ IsFiniteSet(S)
<1>1. b.rows \in RowFiles /\ c.rows \in RowFiles
  BY DEF Books, BookSet
<1>2. /\ IsFiniteSet(DOMAIN b.rows) /\ IsFiniteSet(DOMAIN c.rows)
      /\ DOMAIN b.rows \in SUBSET Nat /\ DOMAIN c.rows \in SUBSET Nat
  BY <1>1, FileTypes
<1> QED  BY <1>2, FS_Union

LEMMA AtStakeFalls ==
    ASSUME NEW b \in Books, NEW c \in Books, NEW m, \A i \in Nat : Risk(c, m)[i] <= Risk(b, m)[i]
    PROVE  AtStake(c, m) <= AtStake(b, m)
<1> DEFINE S == DOMAIN b.rows \cup DOMAIN c.rows
           f == Risk(c, m)
           h == Risk(b, m)
<1>1. S \in SUBSET Nat /\ IsFiniteSet(S) /\ DOMAIN b.rows \subseteq S /\ DOMAIN c.rows \subseteq S
  BY TwoBooks
<1> HIDE DEF S
<1>2. AtStake(b, m) = SumFunctionOnSet(h, S) /\ AtStake(c, m) = SumFunctionOnSet(f, S)
  BY <1>1, AtStakeIs
<1>3. \A x \in S : f[x] \in Nat /\ h[x] \in Nat /\ f[x] <= h[x]
  BY <1>1, RiskType
<1> HIDE DEF f, h
<1>4. SumFunctionOnSet(f, S) <= SumFunctionOnSet(h, S)
  BY <1>1, <1>3, SumMonotone
<1> QED  BY <1>2, <1>4

LEMMA AtStakeMoves ==
    ASSUME NEW b \in Books, NEW c \in Books, NEW m, NEW id \in DOMAIN c.rows,
           \A i \in Nat : i # id => Risk(c, m)[i] = Risk(b, m)[i]
    PROVE  AtStake(c, m) + Risk(b, m)[id] = AtStake(b, m) + Risk(c, m)[id]
<1> DEFINE S == DOMAIN b.rows \cup DOMAIN c.rows
           f == Risk(b, m)
           h == Risk(c, m)
<1>1. /\ S \in SUBSET Nat /\ IsFiniteSet(S) /\ DOMAIN b.rows \subseteq S /\ DOMAIN c.rows \subseteq S
      /\ id \in S
  BY TwoBooks
<1> HIDE DEF S
<1>2. AtStake(b, m) = SumFunctionOnSet(f, S) /\ AtStake(c, m) = SumFunctionOnSet(h, S)
  BY <1>1, AtStakeIs
<1>3. Weighs(f, S) /\ Weighs(h, S)
  <2>1. f \in [Nat -> Nat] /\ h \in [Nat -> Nat]
    BY RiskType
  <2> HIDE DEF f, h
  <2> QED  BY <1>1, <2>1 DEF Weighs
<1>4. AgreeOff(f, h, S, id)
  BY <1>1 DEF AgreeOff
<1> HIDE DEF f, h
<1>5. SumFunctionOnSet(h, S) + f[id] = SumFunctionOnSet(f, S) + h[id]
  BY <1>1, <1>3, <1>4, SumUpdate
<1> QED  BY <1>2, <1>5 DEF f, h

\* Where the book moves on by itself no panel is touched.
LEMMA OnwardCovered ==
    ASSUME NEW b \in Books, NEW c, NEW e, Onward(b, c, e), Covered(b)
    PROVE  Covered(c)
<1>1. c \in Books
  BY DEF Onward
<1>2. ASSUME unit.times = 0, NEW m \in Members
      PROVE  c.charged[m] + AtStake(c, m) <= c.agreed[m]
  <2>1. \A i \in Nat : Open(c, m, i) => Open(b, m, i) /\ c.rows[i].arb = b.rows[i].arb
    <3>1. NoTerms \notin Terms
      BY DEF NoTerms, Terms
    <3> QED  BY <3>1 DEF Open, Onward
  <2>2. \A i \in Nat : Risk(c, m)[i] <= Risk(b, m)[i]
    <3> SUFFICES ASSUME NEW i \in Nat
                 PROVE  Risk(c, m)[i] <= Risk(b, m)[i]
      OBVIOUS
    <3>1. Risk(c, m)[i] \in Nat /\ Risk(b, m)[i] \in Nat
      BY RiskType
    <3>2. CASE Open(c, m, i)
      <4>1. Risk(c, m)[i] = Risk(b, m)[i]
        BY <2>1, <3>2 DEF Risk
      <4> QED  BY <3>1, <4>1
    <3>3. CASE ~Open(c, m, i)
      <4>1. Risk(c, m)[i] = 0
        BY <3>3 DEF Risk
      <4> QED  BY <3>1, <4>1
    <3> QED  BY <3>2, <3>3
  <2>3. AtStake(c, m) <= AtStake(b, m)
    BY <1>1, <2>2, AtStakeFalls
  <2>4. AtStake(c, m) \in Nat /\ AtStake(b, m) \in Nat
    BY <1>1, TwoBooks, AtStakeIs
  <2>5. c.charged = b.charged /\ c.agreed = b.agreed /\ b.charged[m] \in Nat /\ b.agreed[m] \in Nat
    BY DEF Onward, Books, BookSet, Purses
  <2>6. b.charged[m] + AtStake(b, m) <= b.agreed[m]
    BY <1>2 DEF Covered
  <2> QED  BY <2>3, <2>4, <2>5, <2>6
<1> QED  BY <1>2 DEF Covered

LEMMA RankedType ==
    ASSUME NEW A, IsFiniteSet(A), NEW votes \in [A -> Nat], NEW k \in Nat, 1 <= k, k <= Cardinality(A)
    PROVE  Ranked(votes, k) \in Nat
<1> DEFINE upto(a) == {z \in DOMAIN votes : votes[z] <= votes[a]}
           T == {votes[a] : a \in {a \in DOMAIN votes : Cardinality(upto(a)) >= k}}
           R == {p \in A \X A : votes[p[2]] <= votes[p[1]]}
<1>1. A # {}
  BY FS_EmptySet
<1>2. Orders(R, A)
  <2>1. \A x, y \in A : <<x, y>> \in R <=> votes[y] <= votes[x]
    OBVIOUS
  <2>2. \A x \in A : votes[x] \in Nat
    OBVIOUS
  <2> HIDE DEF R
  <2> QED  BY <2>1, <2>2 DEF Orders
<1>3. PICK top \in A : \A y \in A : y = top \/ <<top, y>> \in R
  <2> HIDE DEF R
  <2> QED  BY <1>1, <1>2, LeastOfOrder
<1>4. upto(top) = A
  <2>1. ASSUME NEW y \in A
        PROVE  votes[y] \in Nat /\ (<<top, y>> \in R => votes[y] <= votes[top])
    OBVIOUS
  <2> HIDE DEF R
  <2>2. ASSUME NEW y \in A
        PROVE  votes[y] <= votes[top]
    <3>1. votes[y] \in Nat /\ (y = top \/ <<top, y>> \in R)
      BY <1>3, <2>1
    <3>2. CASE y = top
      BY <3>1, <3>2
    <3>3. CASE <<top, y>> \in R
      BY <2>1, <3>3
    <3> QED  BY <3>1, <3>2, <3>3
  <2> QED  BY <2>2
<1>5. T \subseteq Nat /\ T # {}
  <2>1. T \subseteq Nat
    OBVIOUS
  <2>2. Cardinality(upto(top)) >= k
    <3> HIDE DEF upto
    <3> QED  BY <1>4
  <2>3. votes[top] \in T
    BY <2>2
  <2> QED  BY <2>1, <2>3
<1>6. Ranked(votes, k) = Min(T)
  BY DEF Ranked
<1> HIDE DEF T
<1> QED  BY <1>5, <1>6, MinIsIn

LEMMA MedianType ==
    ASSUME NEW A, IsFiniteSet(A), NEW votes \in [A -> Nat], Cardinality(A) >= 1
    PROVE  Median(votes) \in Nat
<1> DEFINE n == Cardinality(A)
<1>1. n \in Nat /\ n >= 1 /\ DOMAIN votes = A
  BY FS_CardinalityType
<1>2. Median(votes) = IF n % 2 = 1 THEN Ranked(votes, (n + 1) \div 2)
                      ELSE (Ranked(votes, n \div 2) + Ranked(votes, n \div 2 + 1)) \div 2
  BY <1>1 DEF Median
<1> HIDE DEF n
<1>3. CASE n % 2 = 1
  <2> DEFINE k == (n + 1) \div 2
  <2>1. k \in Nat /\ 1 <= k /\ k <= n
    BY <1>1
  <2> HIDE DEF k
  <2>2. Ranked(votes, k) \in Nat
    BY <2>1, RankedType DEF n
  <2> QED  BY <1>2, <1>3, <2>2 DEF k
<1>4. CASE n % 2 # 1
  <2> DEFINE k == n \div 2
             k1 == n \div 2 + 1
  <2>1. k \in Nat /\ 1 <= k /\ k <= n /\ k1 \in Nat /\ 1 <= k1 /\ k1 <= n
    BY <1>1, <1>4
  <2> HIDE DEF k, k1
  <2>2. Ranked(votes, k) \in Nat /\ Ranked(votes, k1) \in Nat
    BY <2>1, RankedType DEF n
  <2> DEFINE x == Ranked(votes, k)
             y == Ranked(votes, k1)
  <2>3. Median(votes) = (x + y) \div 2
    BY <1>2, <1>4 DEF k, k1
  <2> HIDE DEF x, y
  <2> QED  BY <2>2, <2>3 DEF x, y
<1> QED  BY <1>3, <1>4

LEMMA VotesFinite ==
    ASSUME NEW t \in Terms
    PROVE  /\ t.votes \in [DOMAIN t.votes -> Nat] /\ IsFiniteSet(DOMAIN t.votes)
           /\ Cardinality(DOMAIN t.votes) \in Nat
<1>1. t.votes \in Votes
  BY DEF Terms
<1>2. PICK A \in SUBSET Members : t.votes \in [A -> Nat]
  BY <1>1 DEF Votes
<1>3. IsFiniteSet(A)
  BY MembersAssumption, FS_Subset
<1> QED  BY <1>2, <1>3, FS_CardinalityType

\* A panel is heard: its row says so, and nothing else is said of any panel.
Heard(b, c, id, e) ==
    /\ c \in Books
    /\ c.agreed = b.agreed
    /\ DOMAIN b.rows \subseteq DOMAIN c.rows
    /\ c.rows[id].arb \in Terms /\ c.rows[id].arb.awarded
    /\ \A i \in DOMAIN c.rows :
          /\ i # id => c.rows[i].arb = IF i \in DOMAIN b.rows THEN b.rows[i].arb ELSE NoTerms
          /\ Due(c.rows[i], e) => i \in DOMAIN b.rows /\ Due(b.rows[i], e)
    /\ Still(b, c)
    /\ Sound(b) => Sound(c)

LEMMA ClosedPanel ==
    ASSUME NEW b \in Books, NEW id \in DOMAIN b.rows, b.rows[id].arb \in Terms, NEW e
    PROVE  LET z == [b EXCEPT !.rows[id].arb.awarded = TRUE]
           IN Heard(b, z, id, e) /\ z.charged = b.charged /\ Lost(b, z, 0)
<1> DEFINE c == b.rows[id]
           t == [c.arb EXCEPT !.awarded = TRUE]
           r == [c EXCEPT !.arb = t]
           rows == [b.rows EXCEPT ![id] = r]
           z == [b EXCEPT !.rows[id].arb.awarded = TRUE]
<1>1. b \in BookSet /\ b.rows \in RowFiles /\ c \in RowSet /\ c.arb \in Terms
  BY FileTypes DEF Books, BookSet
<1>2. t \in Terms /\ t.awarded
  <2> HIDE DEF c
  <2> QED  BY <1>1 DEF Terms
<1>3. /\ r \in RowSet /\ r.arb = t /\ r.outstanding = c.outstanding /\ r.original = c.original
      /\ r.status = c.status /\ r.maturity = c.maturity
      /\ r.debtor = c.debtor /\ r.creditor = c.creditor
      /\ r.insured = c.insured /\ r.held = c.held
  <2> HIDE DEF c, t
  <2> QED  BY <1>1, <1>2 DEF RowSet
<1>4. /\ rows \in RowFiles /\ DOMAIN rows = DOMAIN b.rows
      /\ \A i \in DOMAIN b.rows : rows[i] = IF i = id THEN r ELSE b.rows[i]
  <2> HIDE DEF r
  <2> QED  BY <1>1, <1>3, RowChanged
<1>5. z = [b EXCEPT !.rows = rows]
  BY <1>1 DEF BookSet
<1> HIDE DEF rows, r, t, z
<1>6. /\ z \in BookSet /\ z.rows = rows /\ z.next = b.next
      /\ z.agreed = b.agreed /\ z.charged = b.charged
      /\ z.debt = b.debt /\ z.default = b.default
      /\ z.edges = b.edges /\ z.reserved = b.reserved /\ z.committed = b.committed
  BY <1>1, <1>4, <1>5 DEF BookSet
<1>7. z \in Books
  <2> SUFFICES ASSUME NEW i \in DOMAIN b.rows
               PROVE  /\ 1 <= i /\ i < b.next
                      /\ rows[i].outstanding <= rows[i].original
    BY <1>4, <1>6 DEF Books
  <2> QED  BY <1>3, <1>4 DEF Books
<1>8. \A i \in DOMAIN b.rows : Due(z.rows[i], e) => Due(b.rows[i], e)
  <2>1. Due(r, e) => Due(c, e)
    BY <1>3 DEF Due
  <2> QED  BY <1>4, <1>6, <2>1
<1>9. Tracks(b, z)
  <2>1. RowSound(c) => RowSound(r)
    BY <1>3 DEF RowSound, Live
  <2>2. RowsSound(b) => RowsSound(z)
    <3> HIDE DEF c
    <3>1. RowsSound(b) => RowSound(c) /\ \A i \in DOMAIN b.rows : RowSound(b.rows[i])
      BY DEF RowsSound, c
    <3> QED  BY <1>4, <1>6, <2>1, <3>1 DEF RowsSound
  <2>3. Together(b, z)
    BY <1>1, <1>3, <1>6, RowTogether DEF rows
  <2>4. Filled(b) => Filled(z)
    BY <1>1, <1>3, <1>6, RowFilled DEF rows
  <2> QED  BY <2>2, <2>3, <2>4 DEF Tracks
<1>10. Sound(b) => Sound(z)
  BY <1>1, <1>6, <1>9, TracksSound
<1>12. Still(b, z)
  <2>1. \A i \in DOMAIN b.rows \cap DOMAIN z.rows : z.rows[i].held = b.rows[i].held
    BY <1>3, <1>4, <1>6
  <2> QED  BY <1>1, <2>1, SameHolds
<1>11. Heard(b, z, id, e)
  BY <1>2, <1>3, <1>4, <1>6, <1>7, <1>8, <1>10, <1>12 DEF Heard
<1>13. Lost(b, z, 0)
  <2>1. OneRow(b, z, id) /\ z.rows[id] = r
    BY <1>4, <1>6 DEF OneRow, OthersLeft
  <2>2. Alike(z.rows[id], b.rows[id])
    BY <1>3, <2>1 DEF Alike
  <2> QED  BY <1>1, <1>6, <2>1, <2>2, LostAlike
<1> QED  BY <1>6, <1>11, <1>13 DEF z

\* What a panel awards is charged to the creditor it was agreed with, and is
\* no more than it might award: it costs nobody what was not charged to them.
LEMMA AwardedLater ==
    ASSUME NEW b \in Books, Ready, NEW id \in DOMAIN b.rows, b.rows[id].arb \in Terms, NEW e \in Nat
    PROVE  LET t == b.rows[id].arb
               z == Awarded(b, id, e)
           IN /\ Heard(b, z, id, e)
              /\ \A m \in Members : m # t.creditor => z.charged[m] = b.charged[m]
              /\ z.charged[t.creditor] <= b.charged[t.creditor] + Most(t)
              /\ Lost(b, z, 0)
<1> DEFINE t == b.rows[id].arb
           x == Less(Median(t.votes), Most(t))
           closed == [b EXCEPT !.rows[id].arb.awarded = TRUE]
           due == e + MinMaturity
           r == Row(t.creditor, t.debtor, x, due, Uninsured, e, e)
           opened == Opened(closed, r)
           z == [opened EXCEPT !.charged[t.creditor] = @ + x]
<1>1. Heard(b, closed, id, e) /\ closed.charged = b.charged /\ Lost(b, closed, 0)
  <2> HIDE DEF closed
  <2> QED  BY ClosedPanel DEF closed
<1>2. t \in Terms /\ t.creditor \in Members /\ t.debtor \in Members /\ t.debtor # t.creditor /\ t.quorum \in Nat \ {0}
      /\ t.cap \in Nat /\ t.amount \in Nat
  BY DEF Terms
<1>3. Most(t) \in Nat
  <2> HIDE DEF t
  <2> QED  BY <1>2, LessType DEF Most
<1>4. b.charged \in Purses
  BY DEF Books, BookSet
<1>5. CASE Cardinality(DOMAIN t.votes) < t.quorum \/ x <= DustMinor
  <2>1. Awarded(b, id, e) = closed
    BY <1>5 DEF Awarded, Most
  <2> HIDE DEF closed, t
  <2> QED  BY <1>1, <1>2, <1>3, <1>4, <2>1 DEF Purses, t
<1>6. CASE ~(Cardinality(DOMAIN t.votes) < t.quorum \/ x <= DustMinor)
  <2>1. x \in Nat /\ x <= Most(t)
    <3> HIDE DEF t
    <3>1. Cardinality(DOMAIN t.votes) >= 1
      BY <1>2, <1>6, VotesFinite
    <3>2. Median(t.votes) \in Nat
      BY <1>2, <3>1, VotesFinite, MedianType
    <3> QED  BY <1>3, <3>2, LessType
  <2>2. Awarded(b, id, e) = z
    BY <1>6 DEF Awarded, Most
  <2> HIDE DEF x, t, closed
  <2>11. r.creditor = t.debtor /\ r.debtor = t.creditor
    BY DEF Row
  <2>3. /\ r \in RowSet /\ r.outstanding = x /\ r.original = x /\ r.maturity = due
        /\ r.arb = NoTerms /\ ~Due(r, e) /\ r.status = "Active" /\ r.held = Nothing /\ RowSound(r)
    <3>1. due \in Nat /\ e <= due
      BY LedgerAssumption
    <3> DEFINE d == t.creditor
               c == t.debtor
               s == Row(d, c, x, due, Uninsured, e, e)
    <3>2. d \in Members /\ c \in Members /\ d # c
      BY <1>2
    <3> HIDE DEF due, d, c
    <3>3. /\ s \in RowSet /\ s.outstanding = x /\ s.original = x /\ s.maturity = due
          /\ s.arb = NoTerms /\ s.status = "Active" /\ s.held = Nothing /\ RowSound(s)
      BY <2>1, <3>1, <3>2, PlainRow
    <3>4. r = s
      BY DEF d, c
    <3> HIDE DEF r, s
    <3> QED  BY <3>1, <3>3, <3>4, NotYetDue
  <2> HIDE DEF r, due
  <2>4. closed \in Books
    BY <1>1 DEF Heard
  <2>5. Onward(closed, opened, e) /\ Tracks(closed, opened)
    <3>1. r.outstanding <= r.original
      BY <2>1, <2>3
    <3> QED  BY <2>3, <2>4, <3>1, OpenedLater, OpenedTracks
  <2>12. \A m \in Members : Net(opened, m) = Net(closed, m) + For(t.debtor, m, x) - For(t.creditor, m, x)
    BY <2>3, <2>4, <2>11, OpenedNet
  <2> HIDE DEF opened
  <2>6. opened \in Books /\ opened \in BookSet /\ opened.charged = b.charged
        /\ opened.agreed = closed.agreed
    BY <1>1, <2>5 DEF Onward, Books
  <2>7. /\ z \in BookSet /\ z.rows = opened.rows /\ z.next = opened.next /\ z.agreed = opened.agreed
        /\ z.charged = [b.charged EXCEPT ![t.creditor] = @ + x]
        /\ z.debt = opened.debt /\ z.default = opened.default
        /\ z.edges = opened.edges /\ z.reserved = opened.reserved /\ z.committed = opened.committed
    <3> DEFINE charged == [b.charged EXCEPT ![t.creditor] = @ + x]
    <3>1. charged \in Purses
      BY <1>2, <1>4, <2>1 DEF Purses
    <3>2. z = [opened EXCEPT !.charged = charged]
      BY <2>6 DEF BookSet
    <3> HIDE DEF charged, z
    <3> QED  BY <2>6, <3>1, <3>2 DEF BookSet, charged
  <2> HIDE DEF z
  <2>8. z \in Books
    BY <2>6, <2>7 DEF Books
  <2>9. Heard(b, z, id, e)
    <3>1. /\ DOMAIN b.rows \subseteq DOMAIN z.rows
          /\ id \in DOMAIN closed.rows /\ z.rows[id].arb = closed.rows[id].arb
      BY <1>1, <2>5, <2>7 DEF Heard, Onward
    <3>2. ASSUME NEW i \in DOMAIN z.rows
          PROVE  /\ i # id => z.rows[i].arb = IF i \in DOMAIN b.rows THEN b.rows[i].arb ELSE NoTerms
                 /\ Due(z.rows[i], e) => i \in DOMAIN b.rows /\ Due(b.rows[i], e)
      <4>1. /\ z.rows[i].arb = IF i \in DOMAIN closed.rows THEN closed.rows[i].arb ELSE NoTerms
            /\ Due(z.rows[i], e) => i \in DOMAIN closed.rows /\ Due(closed.rows[i], e)
        BY <2>5, <2>7 DEF Onward
      <4>2. i \in DOMAIN closed.rows =>
               /\ i # id => closed.rows[i].arb = IF i \in DOMAIN b.rows THEN b.rows[i].arb ELSE NoTerms
               /\ Due(closed.rows[i], e) => i \in DOMAIN b.rows /\ Due(b.rows[i], e)
        BY <1>1 DEF Heard
      <4>3. DOMAIN b.rows \subseteq DOMAIN closed.rows
        BY <1>1 DEF Heard
      <4> QED  BY <4>1, <4>2, <4>3
    <3>3. Sound(b) => Sound(z)
      <4>1. Sound(b) => Sound(opened)
        BY <1>1, <2>4, <2>5, <2>6, TracksSound DEF Heard, Books
      <4>3. \A a \in Arcs : opened.edges[a] <= z.edges[a]
        BY <2>6, <2>7 DEF BookSet
      <4>4. Filled(opened) => Filled(z)
        BY <2>6, <2>7, <4>3, FilledLeft DEF Ready
      <4>2. Tracks(opened, z)
        BY <2>7, <4>4, CachesLeft
      <4> QED  BY <2>6, <2>7, <4>1, <4>2, TracksSound
    <3>4. Still(b, z)
      <4>1. opened.rows = Added(closed.rows, closed.next, r)
        BY <2>3, <2>4, OpenedFields DEF Books, opened
      <4>2. Still(closed, z)
        BY <2>3, <2>4, <2>7, <4>1, AddedStill
      <4>3. b \in BookSet /\ closed \in BookSet /\ Still(b, closed) /\ DOMAIN b.rows \subseteq DOMAIN closed.rows
        BY <1>1, <2>4 DEF Heard, Books
      <4> QED  BY <2>7, <4>2, <4>3, StillTwice
    <3> QED  BY <1>1, <2>6, <2>7, <2>8, <3>1, <3>2, <3>3, <3>4 DEF Heard
  <2>10. /\ \A m \in Members : m # t.creditor => z.charged[m] = b.charged[m]
         /\ z.charged[t.creditor] <= b.charged[t.creditor] + Most(t)
    BY <1>2, <1>3, <1>4, <2>1, <2>7 DEF Purses
  <2>13. ASSUME NEW m \in Members
         PROVE  Net(b, m) <= Net(z, m) + 0
    <3>1. Net(z, m) + b.charged[m] = Net(opened, m) + z.charged[m]
      <4>1. Tally(z, m, "claim") = Tally(opened, m, "claim") /\ Tally(z, m, "debt") = Tally(opened, m, "debt")
        BY <2>7 DEF Tally
      <4>2. Tally(opened, m, "claim") \in Nat /\ Tally(opened, m, "debt") \in Nat
        BY <2>6, TallyType
      <4>3. opened.charged[m] = b.charged[m] /\ b.charged[m] \in Nat /\ z.charged[m] \in Nat
        BY <1>4, <2>6, <2>7 DEF BookSet, Purses
      <4> QED  BY <4>1, <4>2, <4>3 DEF Net
    <3>2. z.charged[m] = b.charged[m] + For(t.creditor, m, x) /\ b.charged[m] \in Nat
      BY <1>2, <1>4, <2>1, <2>7 DEF Purses, For
    <3>3. Net(b, m) <= Net(closed, m) + 0
      BY <1>1 DEF Lost
    <3>4. Net(b, m) \in Int /\ Net(closed, m) \in Int /\ Net(opened, m) \in Int /\ Net(z, m) \in Int
      BY <2>4, <2>6, <2>7, NetType DEF Books
    <3>5. For(t.creditor, m, x) \in Nat /\ For(t.debtor, m, x) \in Nat
      BY <2>1 DEF For
    <3> QED  BY <2>12, <3>1, <3>2, <3>3, <3>4, <3>5
  <2> QED  BY <2>2, <2>9, <2>10, <2>13 DEF t, Lost
<1> QED  BY <1>5, <1>6

LEMMA HeardCovered ==
    ASSUME NEW b \in Books, NEW c, NEW id \in DOMAIN b.rows, NEW e, Heard(b, c, id, e), Covered(b),
           b.rows[id].arb \in Terms, ~b.rows[id].arb.awarded, c.charged \in Purses,
           \A m \in Members : m # b.rows[id].arb.creditor => c.charged[m] = b.charged[m],
           c.charged[b.rows[id].arb.creditor]
               <= b.charged[b.rows[id].arb.creditor] + Most(b.rows[id].arb)
    PROVE  Covered(c)
<1> DEFINE t == b.rows[id].arb
<1>1. c \in Books /\ id \in DOMAIN c.rows /\ id \in Nat /\ c.agreed = b.agreed
  BY FileTypes DEF Heard, Books, BookSet
<1>2. ASSUME unit.times = 0, NEW m \in Members
      PROVE  c.charged[m] + AtStake(c, m) <= c.agreed[m]
  <2>1. Risk(c, m)[id] = 0
    BY <1>1 DEF Risk, Open, Heard
  <2>2. Risk(b, m)[id] = IF m = t.creditor THEN Most(t) ELSE 0
    BY <1>1 DEF Risk, Open
  <2>3. \A i \in Nat : i # id => Risk(c, m)[i] = Risk(b, m)[i]
    <3> SUFFICES ASSUME NEW i \in Nat, i # id
                 PROVE  Risk(c, m)[i] = Risk(b, m)[i]
      OBVIOUS
    <3>1. NoTerms \notin Terms
      BY DEF NoTerms, Terms
    <3>2. Open(c, m, i) <=> Open(b, m, i)
      BY <3>1 DEF Open, Heard
    <3>3. Open(b, m, i) => c.rows[i].arb = b.rows[i].arb
      BY DEF Open, Heard
    <3> QED  BY <3>2, <3>3 DEF Risk
  <2>4. AtStake(c, m) + Risk(b, m)[id] = AtStake(b, m) + Risk(c, m)[id]
    BY <1>1, <2>3, AtStakeMoves
  <2>5. AtStake(c, m) \in Nat /\ AtStake(b, m) \in Nat
    BY <1>1, TwoBooks, AtStakeIs
  <2>6. b.charged[m] \in Nat /\ c.charged[m] \in Nat /\ b.agreed[m] \in Nat
    BY DEF Books, BookSet, Purses
  <2>7. b.charged[m] + AtStake(b, m) <= b.agreed[m]
    BY <1>2 DEF Covered
  <2>8. Risk(b, m)[id] \in Nat
    BY <1>1, RiskType
  <2>9. c.charged[m] <= b.charged[m] + Risk(b, m)[id]
    <3>1. CASE m = t.creditor
      BY <2>2, <3>1
    <3>2. CASE m # t.creditor
      BY <2>2, <2>6, <3>2
    <3> QED  BY <3>1, <3>2
  <2> HIDE DEF t
  <2> QED  BY <1>1, <2>1, <2>4, <2>5, <2>6, <2>7, <2>8, <2>9
<1> QED  BY <1>2 DEF Covered

\* Each panel whose window is over is heard once: what it awards comes out of
\* what it might.
LEMMA PanelsHeardLater ==
    ASSUME NEW b \in Books, Ready, NEW e \in Nat, Covered(b)
    PROVE  LET z == PanelsHeard(b, e)
           IN /\ z \in Books /\ Covered(z) /\ (Sound(b) => Sound(z))
              /\ DOMAIN b.rows \subseteq DOMAIN z.rows /\ Still(b, z) /\ Lost(b, z, 0)
              /\ \A i \in DOMAIN z.rows : Due(z.rows[i], e) => i \in DOMAIN b.rows /\ Due(b.rows[i], e)
<1> DEFINE over == {id \in DOMAIN b.rows : WindowOver(b.rows[id], e)}
           ids == Ascending(over)
           n == Cardinality(over)
           none(x) == \A i \in DOMAIN x.rows : Due(x.rows[i], e) => i \in DOMAIN b.rows /\ Due(b.rows[i], e)
           V == {x \in Books : /\ DOMAIN b.rows \subseteq DOMAIN x.rows
                               /\ \A id \in over : x.rows[id].arb \in Terms
                               /\ none(x)
                               /\ Still(b, x) /\ Lost(b, x, 0)
                               /\ Sound(b) => Sound(x)}
           G == [k \in 1..n |-> [x \in V |-> Awarded(x, ids[k], e)]]
           Eq(f) == f = [s \in SUBSET (1..n) |-> IF s = {} THEN b ELSE Awarded(f[s \ {Max(s)}], ids[Max(s)], e)]
           it == CHOOSE f : Eq(f)
<1>1. /\ n \in Nat /\ ids \in [1..n -> over]
      /\ \A i, j \in 1..n : ids[i] = ids[j] => i = j
      /\ over \subseteq DOMAIN b.rows
  <2>1. over \subseteq DOMAIN b.rows /\ b.rows \in RowFiles
    BY DEF Books, BookSet
  <2> HIDE DEF over
  <2>2. over \in SUBSET Nat /\ IsFiniteSet(over)
    BY <2>1, FileTypes, FS_Subset
  <2> QED  BY <2>1, <2>2, AscendingLists
<1>2. \A id \in over : b.rows[id].arb \in Terms /\ ~b.rows[id].arb.awarded
  BY FileTypes DEF Books, BookSet, RowSet, WindowOver
<1> HIDE DEF over
<1>3. b \in V
  BY <1>2, SameHolds, LostSelf DEF Books
<1>4. ASSUME NEW x \in V, NEW id \in over
      PROVE  /\ Awarded(x, id, e) \in V
             /\ Heard(x, Awarded(x, id, e), id, e)
             /\ \A m \in Members : m # x.rows[id].arb.creditor
                                      => Awarded(x, id, e).charged[m] = x.charged[m]
             /\ Awarded(x, id, e).charged[x.rows[id].arb.creditor]
                    <= x.charged[x.rows[id].arb.creditor] + Most(x.rows[id].arb)
  <2>1. x \in Books /\ id \in DOMAIN x.rows /\ x.rows[id].arb \in Terms
        /\ DOMAIN b.rows \subseteq DOMAIN x.rows /\ none(x) /\ Still(b, x) /\ (Sound(b) => Sound(x))
        /\ Lost(b, x, 0)
    BY <1>1
  <2> DEFINE y == Awarded(x, id, e)
  <2>2. /\ Heard(x, y, id, e)
        /\ \A m \in Members : m # x.rows[id].arb.creditor => y.charged[m] = x.charged[m]
        /\ y.charged[x.rows[id].arb.creditor] <= x.charged[x.rows[id].arb.creditor] + Most(x.rows[id].arb)
        /\ Lost(x, y, 0)
    BY <2>1, AwardedLater
  <2> HIDE DEF y
  <2>3. y \in Books /\ DOMAIN b.rows \subseteq DOMAIN y.rows /\ none(y) /\ (Sound(b) => Sound(y))
    BY <2>1, <2>2 DEF Heard
  <2>4. ASSUME NEW i \in over
        PROVE  y.rows[i].arb \in Terms
    <3>1. i \in DOMAIN x.rows /\ i \in DOMAIN y.rows /\ x.rows[i].arb \in Terms
      BY <1>1, <2>1, <2>3
    <3> QED  BY <2>2, <3>1 DEF Heard
  <2>6. Still(b, y)
    <3>1. b \in BookSet /\ x \in BookSet /\ y \in BookSet /\ Still(x, y)
      BY <2>1, <2>2 DEF Heard, Books
    <3> QED  BY <2>1, <3>1, StillTwice
  <2>7. Lost(b, y, 0)
    <3>1. b \in BookSet /\ x \in BookSet /\ y \in BookSet
      BY <2>1, <2>3 DEF Books
    <3>2. Lost(b, y, 0 + 0)
      BY <2>1, <2>2, <3>1, LostTwice
    <3> QED  BY <3>2
  <2>5. y \in V
    BY <2>3, <2>4, <2>6, <2>7
  <2> HIDE DEF V
  <2> QED  BY <2>2, <2>5 DEF y
<1>5. G \in [1..n -> [V -> V]]
  <2> HIDE DEF V, ids
  <2> QED  BY <1>1, <1>4
<1> HIDE DEF n
<1>6. PICK f \in [SUBSET (1..n) -> V] : Folds(f, b, G, n)
  <2> HIDE DEF G, V
  <2> QED  BY <1>1, <1>3, <1>5, FoldExists
<1>7. ASSUME NEW s \in SUBSET (1..n), s # {}
      PROVE  Max(s) \in 1..n /\ s \ {Max(s)} \in SUBSET (1..n)
  BY <1>1, <1>7, TopIsIn DEF Picks, Tops
<1>8. Eq(f)
  <2>1. \A s \in SUBSET (1..n) : f[s] = IF s = {} THEN b ELSE Awarded(f[s \ {Max(s)}], ids[Max(s)], e)
    <3> HIDE DEF ids
    <3> QED  BY <1>6, <1>7 DEF Folds
  <2> HIDE DEF V, ids
  <2> QED  BY <1>6, <2>1
<1>9. Eq(it)
  <2> HIDE DEF Eq
  <2> QED  BY <1>8
<1>10. PanelsHeard(b, e) = it[1..n]
  <2>1. DOMAIN ids = 1..n
    BY <1>1
  <2>2. PanelsHeard(b, e) = FoldLeft(LAMBDA x, id : Awarded(x, id, e), b, ids)
    BY DEF PanelsHeard, over
  <2> HIDE DEF ids
  <2> QED  BY <2>1, <2>2 DEF FoldLeft, MapThenFoldSet
<1>11. Iterates(it, b, G, n, V)
  <2> HIDE DEF it, ids, V
  <2> QED  BY <1>7, <1>9 DEF Iterates
<1>12. PICK t \in [0..n -> V] : Through(t, b, G, n) /\ it[1..n] = t[n]
  <2> HIDE DEF it, G, V, Eq
  <2>1. Ends(it, b, G, n, V)
    BY <1>1, <1>3, <1>5, <1>11, FoldEnds
  <2> QED  BY <2>1 DEF Ends
<1> HIDE DEF it
<1> DEFINE unheard(x, k) == \A j \in k + 1..n : ~x.rows[ids[j]].arb.awarded
           P == {k \in Nat : k <= n => Covered(t[k]) /\ unheard(t[k], k)}
<1>13. 0 \in P
  <2>1. t[0] = b
    BY <1>12 DEF Through
  <2>2. unheard(b, 0)
    <3> HIDE DEF ids
    <3> QED  BY <1>1, <1>2
  <2> QED  BY <2>1, <2>2
<1>14. ASSUME NEW k \in Nat, k \in P
       PROVE  k + 1 \in P
  <2>1. SUFFICES ASSUME k + 1 <= n
                 PROVE  Covered(t[k + 1]) /\ unheard(t[k + 1], k + 1)
    BY <1>14
  <2>2. k + 1 \in 1..n /\ k \in 0..n /\ k + 1 \in 0..n /\ (k + 1) - 1 = k /\ Covered(t[k]) /\ unheard(t[k], k)
    BY <1>1, <1>14, <2>1
  <2> DEFINE id == ids[k + 1]
             x == t[k]
             y == t[k + 1]
  <2>3. id \in over /\ x \in V
    <3> HIDE DEF V, ids
    <3> QED  BY <1>1, <2>2
  <2>4. y = Awarded(x, id, e)
    <3> HIDE DEF V, ids
    <3> QED  BY <1>12, <2>2, <2>3 DEF Through
  <2>5. x \in Books /\ id \in DOMAIN x.rows /\ x.rows[id].arb \in Terms
    BY <1>1, <2>3
  <2>6. ~x.rows[id].arb.awarded
    <3>1. k + 1 \in k + 1..n
      BY <1>1, <2>1
    <3> QED  BY <2>2, <3>1
  <2> HIDE DEF x, y, id
  <2>7. /\ Heard(x, y, id, e)
        /\ \A m \in Members : m # x.rows[id].arb.creditor => y.charged[m] = x.charged[m]
        /\ y.charged[x.rows[id].arb.creditor] <= x.charged[x.rows[id].arb.creditor] + Most(x.rows[id].arb)
    <3> HIDE DEF V
    <3> QED  BY <1>4, <2>3, <2>4
  <2>8. y.charged \in Purses
    BY <2>7 DEF Heard, Books, BookSet
  <2>9. Covered(y)
    BY <2>2, <2>5, <2>6, <2>7, <2>8, HeardCovered DEF x
  <2>10. unheard(y, k + 1)
    <3> SUFFICES ASSUME NEW j \in (k + 1) + 1..n
                 PROVE  ~y.rows[ids[j]].arb.awarded
      OBVIOUS
    <3>1. j \in 1..n /\ j \in k + 1..n /\ j # k + 1
      BY <1>1
    <3>2. ids[j] \in over /\ ids[j] # id
      <4> HIDE DEF ids
      <4> QED  BY <1>1, <2>2, <3>1 DEF id
    <3>3. ~x.rows[ids[j]].arb.awarded
      BY <2>2, <3>1 DEF x
    <3>4. ids[j] \in DOMAIN x.rows
      <4> HIDE DEF ids
      <4> QED  BY <1>1, <2>3, <3>2
    <3> HIDE DEF ids
    <3> QED  BY <2>7, <3>2, <3>3, <3>4 DEF Heard
  <2> QED  BY <2>9, <2>10 DEF y
<1>15. Nat \subseteq P
  <2> HIDE DEF P
  <2> QED  BY <1>13, <1>14, NumberInduction
<1>16. Covered(t[n])
  BY <1>1, <1>15
<1>17. t[n] \in V
  <2> HIDE DEF V
  <2> QED  BY <1>1
<1> QED  BY <1>10, <1>12, <1>16, <1>17

LEMMA PrunedLater ==
    ASSUME NEW b \in Books, NEW e \in Nat, Covered(b)
    PROVE  LET z == Pruned(b, e)
           IN /\ z \in Books /\ Covered(z) /\ (Sound(b) => Sound(z) /\ Lost(b, z, 0))
              /\ \A i \in DOMAIN z.rows : i \in DOMAIN b.rows /\ z.rows[i] = b.rows[i]
<1> DEFINE kept == {id \in DOMAIN b.rows :
                       Live(b.rows[id]) \/ e <= b.rows[id].created + More(Retention, b.rows[id].arb.window)}
           rows == Restrict(b.rows, kept)
           z == Pruned(b, e)
<1>1. b \in BookSet /\ b.rows \in RowFiles
  BY DEF Books, BookSet
<1>2. z = [b EXCEPT !.rows = rows]
  BY <1>1 DEF Pruned, BookSet
<1>3. DOMAIN rows = kept /\ kept \subseteq DOMAIN b.rows /\ \A i \in kept : rows[i] = b.rows[i]
  BY DEF Restrict
<1>9. \A i \in DOMAIN b.rows \ kept : ~Live(b.rows[i])
  OBVIOUS
<1> HIDE DEF kept
<1>4. rows \in RowFiles
  <2>1. rows \in [kept -> RowSet]
    BY <1>1, <1>3, FileTypes DEF Restrict
  <2>2. kept \in SUBSET Nat /\ IsFiniteSet(kept)
    BY <1>1, <1>3, FileTypes, FS_Subset
  <2> HIDE DEF rows
  <2> QED  BY <2>1, <2>2 DEF RowFiles
<1> HIDE DEF rows, z
<1>5. /\ z \in BookSet /\ z.rows = rows /\ z.next = b.next
      /\ z.agreed = b.agreed /\ z.charged = b.charged
      /\ z.debt = b.debt /\ z.default = b.default
      /\ z.edges = b.edges /\ z.reserved = b.reserved /\ z.committed = b.committed
  BY <1>1, <1>2, <1>4 DEF BookSet
<1>6. z \in Books
  BY <1>3, <1>5 DEF Books
<1>7. ASSUME unit.times = 0, NEW m \in Members
      PROVE  z.charged[m] + AtStake(z, m) <= z.agreed[m]
  <2>1. \A i \in Nat : Risk(z, m)[i] <= Risk(b, m)[i]
    <3> SUFFICES ASSUME NEW i \in Nat
                 PROVE  Risk(z, m)[i] <= Risk(b, m)[i]
      OBVIOUS
    <3>1. Risk(z, m)[i] \in Nat /\ Risk(b, m)[i] \in Nat
      BY RiskType
    <3>2. CASE Open(z, m, i)
      <4>1. Open(b, m, i) /\ z.rows[i].arb = b.rows[i].arb
        BY <1>3, <1>5, <3>2 DEF Open
      <4>2. Risk(z, m)[i] = Risk(b, m)[i]
        BY <3>2, <4>1 DEF Risk
      <4> QED  BY <3>1, <4>2
    <3>3. CASE ~Open(z, m, i)
      <4>1. Risk(z, m)[i] = 0
        BY <3>3 DEF Risk
      <4> QED  BY <3>1, <4>1
    <3> QED  BY <3>2, <3>3
  <2>2. AtStake(z, m) <= AtStake(b, m)
    BY <1>6, <2>1, AtStakeFalls
  <2>3. AtStake(z, m) \in Nat /\ AtStake(b, m) \in Nat
    BY <1>6, TwoBooks, AtStakeIs
  <2>4. b.charged[m] \in Nat /\ b.agreed[m] \in Nat
    BY <1>1 DEF BookSet, Purses
  <2>5. b.charged[m] + AtStake(b, m) <= b.agreed[m]
    BY <1>7 DEF Covered
  <2> QED  BY <1>5, <2>2, <2>3, <2>4, <2>5
<1>8. Covered(z)
  BY <1>7 DEF Covered
<1>10. ASSUME Sound(b)
       PROVE  Sound(z) /\ Lost(b, z, 0)
  <2>1. \A i \in DOMAIN b.rows : RowSound(b.rows[i])
    BY <1>10 DEF Sound, RowsSound
  <2>2. RowsSound(z)
    BY <1>3, <1>5, <2>1 DEF RowsSound
  <2>3. \A i \in DOMAIN b.rows \ DOMAIN z.rows : b.rows[i].outstanding = 0 /\ b.rows[i].held = Nothing
    BY <1>3, <1>5, <1>9, <2>1 DEF RowSound
  <2>4. \A i \in DOMAIN z.rows : z.rows[i] = b.rows[i]
    BY <1>3, <1>5
  <2>5. ASSUME NEW T, NEW m
        PROVE  Tally(z, m, T) = Tally(b, m, T)
    BY <1>1, <1>3, <1>5, <2>3, <2>4, TallyDropped
  <2>6. \A T \in Kinds, m \in Members : Cached(z, T)[m] = Tally(z, m, T)
    BY <1>5, <1>10, <2>5 DEF Sound, Balanced, Cached
  <2>7. Filled(z)
    BY <1>5, <1>10, <2>5 DEF Sound, Filled, Booked, Stock, Total
  <2>8. \A m \in Members : Net(z, m) = Net(b, m) /\ Net(b, m) \in Int
    BY <1>1, <1>5, <2>5, NetType DEF Net
  <2>9. Lost(b, z, 0)
    BY <2>8 DEF Lost
  <2> QED  BY <2>2, <2>6, <2>7, <2>9 DEF Sound, Balanced
<1> QED  BY <1>3, <1>5, <1>6, <1>8, <1>10 DEF z

-----------------------------------------------------------------------------
(* The steps *)

\* The book is well formed, what panels may still award is agreed to, the sweep
\* left nothing overdue, and the rows, the caches and the reservations agree.
Good(b, e) ==
    /\ b \in Books
    /\ Covered(b)
    /\ \A id \in DOMAIN b.rows : ~Due(b.rows[id], e)
    /\ Sound(b)

LEMMA OnwardGood ==
    ASSUME NEW b, NEW c, NEW e, Good(b, e), Onward(b, c, e), Sound(b) => Sound(c)
    PROVE  Good(c, e)
<1>1. b \in Books /\ Covered(b)
  BY DEF Good
<1>2. Covered(c)
  BY <1>1, OnwardCovered
<1>3. c \in Books /\ \A id \in DOMAIN c.rows : ~Due(c.rows[id], e)
  BY DEF Good, Onward
<1> QED  BY <1>2, <1>3 DEF Good

LEMMA LaterGood ==
    ASSUME NEW b, NEW c, NEW e, Good(b, e), Later(b, c, e)
    PROVE  Good(c, e)
BY OnwardGood DEF Later

LEMMA BoundaryGood ==
    ASSUME NEW b, NEW e, Good(b, epoch), Ready, epoch \in Nat, e \in Nat, epoch < e
    PROVE  LET z == Pruned(PanelsHeard(AllNetted(Expired(Faded(b, e - epoch), e)), e), e)
           IN Good(z, e) /\ Still(b, z) /\ Lost(b, z, MaxRings * DustMinor)
<1> DEFINE b1 == Faded(b, e - epoch)
           b2 == Expired(b1, e)
           b3 == AllNetted(b2)
           b4 == PanelsHeard(b3, e)
           b5 == Pruned(b4, e)
<1>1. b \in Books /\ Covered(b) /\ Sound(b) /\ e - epoch \in Nat
  BY DEF Good
<1>2. b1 \in Books /\ Covered(b1) /\ Sound(b1) /\ Later(b, b1, e) /\ Lost(b, b1, 0)
  <2>1. Later(b, b1, e) /\ Lost(b, b1, 0)
    BY <1>1, FadedLater
  <2> HIDE DEF b1
  <2> QED  BY <1>1, <2>1, OnwardCovered DEF Onward, Later
<1> HIDE DEF b1
<1>3. Good(b2, e) /\ Later(b1, b2, e) /\ Lost(b1, b2, 0)
  <2>1. Later(b1, b2, e) /\ Lost(b1, b2, 0) /\ \A id \in DOMAIN b2.rows : ~Due(b2.rows[id], e)
    BY <1>2, ExpiredLater
  <2> HIDE DEF b2
  <2>2. Covered(b2)
    BY <1>2, <2>1, OnwardCovered DEF Later
  <2> QED  BY <1>2, <2>1, <2>2 DEF Onward, Later, Good
<1> HIDE DEF b2
<1>4. Good(b3, e) /\ Later(b2, b3, e) /\ Lost(b2, b3, MaxRings * DustMinor)
  <2>1. Later(b2, b3, e) /\ Lost(b2, b3, MaxRings * DustMinor)
    BY <1>3, AllNettedLater DEF Good
  <2> HIDE DEF b3
  <2> QED  BY <1>3, <2>1, LaterGood
<1> HIDE DEF b3
<1>5. Good(b4, e) /\ Still(b3, b4) /\ DOMAIN b3.rows \subseteq DOMAIN b4.rows /\ Lost(b3, b4, 0)
  <2>1. b3 \in Books /\ Covered(b3)
    BY <1>4 DEF Good
  <2>2. /\ b4 \in Books /\ Covered(b4) /\ (Sound(b3) => Sound(b4))
        /\ DOMAIN b3.rows \subseteq DOMAIN b4.rows /\ Still(b3, b4) /\ Lost(b3, b4, 0)
        /\ \A i \in DOMAIN b4.rows : Due(b4.rows[i], e) => i \in DOMAIN b3.rows /\ Due(b3.rows[i], e)
    BY <2>1, PanelsHeardLater
  <2> HIDE DEF b4
  <2> QED  BY <1>4, <2>2 DEF Good
<1> HIDE DEF b4
<1>6. Good(b5, e) /\ Still(b4, b5) /\ Lost(b4, b5, 0)
  <2>1. b4 \in Books /\ Covered(b4)
    BY <1>5 DEF Good
  <2>2. /\ b5 \in Books /\ Covered(b5) /\ (Sound(b4) => Sound(b5) /\ Lost(b4, b5, 0))
        /\ \A i \in DOMAIN b5.rows : i \in DOMAIN b4.rows /\ b5.rows[i] = b4.rows[i]
    BY <2>1, PrunedLater
  <2> HIDE DEF b5
  <2>3. Still(b4, b5)
    BY <2>1, <2>2, SameHolds DEF Books
  <2> QED  BY <1>5, <2>2, <2>3 DEF Good
<1> HIDE DEF b5
<1>7. Still(b, b5)
  <2>1. Later(b, b3, e)
    BY <1>1, <1>2, <1>3, <1>4, LaterTwice
  <2>2. /\ b \in BookSet /\ b3 \in BookSet /\ b4 \in BookSet /\ b5 \in BookSet
        /\ DOMAIN b.rows \subseteq DOMAIN b3.rows /\ Still(b, b3)
    BY <1>1, <1>5, <1>6, <2>1 DEF Good, Later, Onward, Books
  <2>3. Still(b, b4)
    BY <1>5, <2>2, StillTwice
  <2> QED  BY <1>5, <1>6, <2>2, <2>3, StillTwice
<1>8. Lost(b, b5, MaxRings * DustMinor)
  <2> DEFINE k == MaxRings * DustMinor
  <2>1. k \in Nat
    BY LedgerAssumption, ProductIsNatural DEF Ready
  <2>2. /\ b \in BookSet /\ b1 \in BookSet /\ b2 \in BookSet
        /\ b3 \in BookSet /\ b4 \in BookSet /\ b5 \in BookSet
    BY <1>1, <1>2, <1>3, <1>4, <1>5, <1>6 DEF Good, Books
  <2>3. Lost(b2, b3, k)
    BY <1>4
  <2> HIDE DEF k
  <2>4. Lost(b, b2, 0 + 0)
    BY <1>2, <1>3, <2>2, LostTwice
  <2>5. Lost(b, b3, 0 + k)
    BY <2>1, <2>2, <2>3, <2>4, LostTwice
  <2>6. Lost(b3, b5, 0 + 0)
    BY <1>5, <1>6, <2>2, LostTwice
  <2>7. Lost(b, b5, k + 0)
    BY <2>1, <2>2, <2>5, <2>6, LostTwice
  <2> QED  BY <2>1, <2>7 DEF k
<1> QED  BY <1>6, <1>7, <1>8 DEF b1, b2, b3, b4, b5

\* What a trade and a move of a debt do to positions: an agreed panel does
\* nothing, a hold nothing, the row what it owes.
LEMMA ConsentedBook ==
    ASSUME NEW b \in Books, NEW c \in Members, NEW x \in Nat, NEW terms \in Panels \cup {NoTerms}
    PROVE  /\ Consented(b, c, x, terms) \in Books
           /\ Consented(b, c, x, terms).rows = b.rows /\ Consented(b, c, x, terms).next = b.next
           /\ Consented(b, c, x, terms).charged = b.charged
<1>1. CASE terms = NoTerms
  BY <1>1 DEF Consented
<1>2. CASE terms \in Panels /\ terms # NoTerms
  <2> DEFINE agreed == [b.agreed EXCEPT ![c] = @ + Less(terms.cap, x)]
             a == Consented(b, c, x, terms)
  <2>1. b \in BookSet
    BY DEF Books
  <2>2. Less(terms.cap, x) \in Nat
    BY <1>2, LedgerAssumption, LessType
  <2>3. agreed \in Purses
    BY <2>1, <2>2 DEF BookSet, Purses
  <2>4. a = [b EXCEPT !.agreed = agreed]
    BY <1>2, <2>1 DEF Consented, BookSet
  <2> HIDE DEF agreed, a
  <2>5. a \in BookSet /\ a.rows = b.rows /\ a.next = b.next /\ a.charged = b.charged
    BY <2>1, <2>3, <2>4 DEF BookSet
  <2>6. a \in Books
    BY <2>5 DEF Books
  <2> QED  BY <2>5, <2>6 DEF a
<1> QED  BY <1>1, <1>2

LEMMA OpenedReserved ==
    ASSUME NEW b \in Books, NEW a \in Books, a.rows = b.rows, a.charged = b.charged,
           NEW h \in HoldSet, NEW r \in RowSet, r.status = "Active", NEW m \in Members
    PROVE  /\ Opened(Reserve(a, h), r) \in BookSet
           /\ Net(Opened(Reserve(a, h), r), m) = Net(b, m) + For(r.creditor, m, r.outstanding)
                                                         - For(r.debtor, m, r.outstanding)
<1> DEFINE c == Reserve(a, h)
<1>1. c \in Books /\ c \in BookSet /\ c.rows = b.rows /\ c.charged = b.charged
  BY ReserveLater DEF Onward
<1> HIDE DEF c
<1>2. Net(c, m) = Net(b, m)
  BY <1>1 DEF Net, Tally
<1>3. Opened(c, r) \in BookSet
  BY <1>1, OpenedFields
<1>4. Net(Opened(c, r), m) = Net(c, m) + For(r.creditor, m, r.outstanding)
                                       - For(r.debtor, m, r.outstanding)
  BY <1>1, OpenedNet
<1> QED  BY <1>2, <1>3, <1>4 DEF c

LEMMA OpenedSpares ==
    ASSUME NEW b \in Books, NEW a \in Books, a.rows = b.rows, a.charged = b.charged,
           NEW h \in HoldSet, NEW r \in RowSet, r.status = "Active"
    PROVE  Spares(b, Opened(Reserve(a, h), r), {r.debtor})
<1> DEFINE z == Opened(Reserve(a, h), r)
<1> SUFFICES ASSUME NEW m \in Members, m # r.debtor
             PROVE  Net(b, m) <= Net(z, m)
  BY DEF Spares
<1>1. Net(z, m) = Net(b, m) + For(r.creditor, m, r.outstanding) - For(r.debtor, m, r.outstanding)
  BY OpenedReserved
<1>2. Net(b, m) \in Int /\ r.outstanding \in Nat
  BY NetType DEF Books, RowSet
<1> HIDE DEF z
<1> QED  BY <1>1, <1>2 DEF For

LEMMA RowAlike ==
    ASSUME NEW b \in BookSet, NEW c \in BookSet, NEW id \in DOMAIN b.rows, NEW r \in RowSet,
           c.rows = [b.rows EXCEPT ![id] = r], c.charged = b.charged, Alike(r, b.rows[id])
    PROVE  Lost(b, c, 0)
<1>1. b.rows \in RowFiles
  BY DEF BookSet
<1>2. /\ DOMAIN c.rows = DOMAIN b.rows
      /\ \A i \in DOMAIN b.rows : c.rows[i] = IF i = id THEN r ELSE b.rows[i]
  BY <1>1, RowChanged
<1>3. OneRow(b, c, id) /\ c.rows[id] = r
  BY <1>2 DEF OneRow, OthersLeft
<1> QED  BY <1>3, LostAlike

\* A trade without a panel, or a debt taken over.
LEMMA OpenedStill ==
    ASSUME NEW b \in Books, NEW a \in Books, a.rows = b.rows, a.next = b.next,
           NEW h \in HoldSet, NEW r \in RowSet
    PROVE  Still(b, Opened(Reserve(a, h), r))
<1>1. /\ Reserve(a, h) \in BookSet /\ Reserve(a, h).rows = b.rows /\ Reserve(a, h).next = b.next
  BY ReserveLater
<1>2. Opened(Reserve(a, h), r).rows = Added(b.rows, b.next, r)
  BY <1>1, OpenedFields
<1> QED  BY <1>2, AddedStill

LEMMA BareRowGood ==
    ASSUME NEW b, Good(b, epoch), Ready, epoch \in Nat, NEW r \in RowSet,
           r.outstanding <= r.original, r.arb = NoTerms, ~Due(r, epoch),
           r.status = "Active", RowSound(r),
           Filled(b) => \A k \in Places : Booked(b, k) + At(r.held, k) <= Stock(b, k)
    PROVE  Good(Opened(Reserve(b, r.held), r), epoch) /\ Still(b, Opened(Reserve(b, r.held), r))
<1> DEFINE c == Reserve(b, r.held)
           z == Opened(c, r)
<1>1. b \in Books /\ r.held \in HoldSet
  BY DEF Good, RowSet
<1>2. Onward(b, c, epoch)
  BY <1>1, ReserveLater
<1>3. Tracks(b, z)
  BY <1>1, ReservedTracks
<1>7. Still(b, z)
  BY <1>1, OpenedStill
<1> HIDE DEF c
<1>4. Onward(c, z, epoch)
  BY <1>2, OpenedLater DEF Onward
<1> HIDE DEF z
<1>5. Later(b, z, epoch)
  BY <1>1, <1>2, <1>3, <1>4, <1>7, OnwardTwice, LaterTracks
<1>6. Good(z, epoch)
  BY <1>5, LaterGood
<1> QED  BY <1>6, <1>7 DEF c, z

\* A panel comes with what it may award, which its creditor agreed to.
LEMMA PanelRowGood ==
    ASSUME NEW b, Good(b, epoch), Ready, epoch \in Nat, NEW r \in RowSet,
           r.outstanding <= r.original, r.arb \in Terms, ~Due(r, epoch),
           r.status = "Active", RowSound(r),
           Filled(b) => \A k \in Places : Booked(b, k) + At(r.held, k) <= Stock(b, k)
    PROVE  LET agreed == [b EXCEPT !.agreed[r.arb.creditor] = @ + Most(r.arb)]
           IN Good(Opened(Reserve(agreed, r.held), r), epoch) /\ Still(b, Opened(Reserve(agreed, r.held), r))
<1> DEFINE t == r.arb
           h == r.held
           k == b.next
           a == [b EXCEPT !.agreed[t.creditor] = @ + Most(t)]
           c == Reserve(a, h)
           z == Opened(c, r)
<1>1. b \in Books /\ b \in BookSet /\ Covered(b) /\ k \in Nat /\ k >= 1
  BY DEF Good, Books, BookSet
<1>2. t.creditor \in Members /\ Most(t) \in Nat
  <2>1. t.creditor \in Members /\ t.cap \in Nat /\ t.amount \in Nat
    BY DEF Terms
  <2> HIDE DEF t
  <2> QED  BY <2>1, LessType DEF Most
<1> HIDE DEF t
<1>3. /\ a \in Books /\ a \in BookSet /\ a.rows = b.rows /\ a.next = b.next /\ a.charged = b.charged
      /\ a.agreed = [b.agreed EXCEPT ![t.creditor] = @ + Most(t)]
      /\ a.debt = b.debt /\ a.default = b.default
      /\ a.edges = b.edges /\ a.reserved = b.reserved /\ a.committed = b.committed
  <2> DEFINE agreed == [b.agreed EXCEPT ![t.creditor] = @ + Most(t)]
  <2>1. agreed \in Purses
    BY <1>1, <1>2 DEF BookSet, Purses
  <2>2. a = [b EXCEPT !.agreed = agreed]
    BY <1>1 DEF BookSet
  <2> HIDE DEF agreed, a
  <2>3. /\ a \in BookSet /\ a.rows = b.rows /\ a.next = b.next /\ a.charged = b.charged
        /\ a.agreed = agreed /\ a.debt = b.debt /\ a.default = b.default
        /\ a.edges = b.edges /\ a.reserved = b.reserved /\ a.committed = b.committed
    BY <1>1, <2>1, <2>2 DEF BookSet
  <2>4. a \in Books
    BY <1>1, <2>3 DEF Books
  <2> QED  BY <2>3, <2>4 DEF agreed
<1> HIDE DEF a
<1>4. Onward(a, c, epoch)
  BY <1>3, ReserveLater DEF RowSet
<1>13. Filled(a) <=> Filled(b)
  BY <1>3 DEF Filled, Booked, Total, Stock, Tally
<1>14. Tracks(b, a)
  BY <1>3, <1>13, CachesLeft
<1>15. Tracks(a, z)
  <2>1. Filled(a) => \A k0 \in Places : Booked(a, k0) + At(h, k0) <= Stock(a, k0)
    BY <1>3, <1>13 DEF Booked, Stock
  <2> QED  BY <1>3, <2>1, ReservedTracks
<1>16. Still(b, z)
  <2>1. h \in HoldSet
    BY DEF RowSet
  <2> HIDE DEF h
  <2> QED  BY <1>1, <1>3, <2>1, OpenedStill
<1> HIDE DEF c, h
<1>5. /\ c \in Books /\ c \in BookSet /\ c.rows \in RowFiles /\ c.next \in Nat /\ c.next >= 1
      /\ c.agreed = a.agreed /\ c.charged = b.charged
  BY <1>3, <1>4 DEF Onward, Books, BookSet
<1>6. /\ z \in BookSet /\ z.rows = Added(c.rows, c.next, r) /\ z.next = c.next + 1
      /\ z.agreed = a.agreed /\ z.charged = b.charged
  BY <1>5, OpenedFields
<1>12. Sound(z)
  <2>1. Sound(a)
    BY <1>1, <1>3, <1>14, TracksSound DEF Good
  <2> HIDE DEF z
  <2> QED  BY <1>3, <1>6, <1>15, <2>1, TracksSound
<1> HIDE DEF z
<1> DEFINE n == c.next
           f == c.rows
<1>7. /\ DOMAIN z.rows = DOMAIN f \cup {n} /\ z.rows[n] = r
      /\ \A i \in DOMAIN f : i # n => z.rows[i] = f[i]
  <2>1. z.rows = Added(f, n, r) /\ f \in RowFiles /\ n \in Nat
    BY <1>5, <1>6
  <2> HIDE DEF f, n
  <2> DEFINE g == Added(f, n, r)
  <2>2. /\ DOMAIN g = DOMAIN f \cup {n} /\ g[n] = r
        /\ \A i \in DOMAIN f : i # n => g[i] = f[i]
    BY ZenonT(40), <2>1, RowAdded
  <2>3. z.rows = g
    BY <2>1
  <2> HIDE DEF g
  <2> QED  BY <2>2, <2>3
<1>8. /\ n \in Nat /\ n \notin DOMAIN f /\ n >= 1
      /\ \A i \in DOMAIN f : 1 <= i /\ i < n /\ i \in Nat /\ f[i].outstanding <= f[i].original
  <2>1. \A i \in DOMAIN f : 1 <= i /\ i < n /\ i \in Nat /\ f[i].outstanding <= f[i].original
    BY <1>5, FileTypes DEF Books
  <2> HIDE DEF f
  <2> QED  BY <1>5, <2>1
<1>9. z \in Books
  <2> SUFFICES ASSUME NEW i \in DOMAIN z.rows
               PROVE  /\ 1 <= i /\ i < z.next
                      /\ z.rows[i].outstanding <= z.rows[i].original
    BY <1>5, <1>6 DEF Books
  <2> HIDE DEF f
  <2>1. CASE i = n
    BY <1>6, <1>7, <1>8, <2>1
  <2>2. CASE i # n
    <3>1. i \in DOMAIN f /\ z.rows[i] = f[i]
      BY <1>7, <2>2
    <3>2. z.next = n + 1
      BY <1>6
    <3> HIDE DEF n
    <3> QED  BY <1>8, <3>1, <3>2
  <2> QED  BY <2>1, <2>2
<1>10. \A i \in DOMAIN z.rows : ~Due(z.rows[i], epoch)
  <2>1. \A i \in DOMAIN f : ~Due(f[i], epoch)
    BY <1>3, <1>4 DEF Onward, Good
  <2> HIDE DEF f, n
  <2> QED  BY <1>7, <2>1
<1>11. ASSUME unit.times = 0, NEW m \in Members
       PROVE  z.charged[m] + AtStake(z, m) <= z.agreed[m]
  <2>1. ASSUME NEW i \in Nat, i # n
        PROVE  Risk(z, m)[i] = Risk(b, m)[i]
    <3>1. NoTerms \notin Terms
      BY DEF NoTerms, Terms
    <3>2. i \in DOMAIN z.rows <=> i \in DOMAIN f
      <4> HIDE DEF f, n
      <4> QED  BY <1>7, <2>1
    <3>3. i \in DOMAIN f => z.rows[i] = f[i]
      <4> HIDE DEF f, n
      <4> QED  BY <1>7, <2>1
    <3>4. i \in DOMAIN f => f[i].arb = IF i \in DOMAIN b.rows THEN b.rows[i].arb ELSE NoTerms
      BY <1>3, <1>4 DEF Onward
    <3>5. i \in DOMAIN b.rows => i \in DOMAIN f
      BY <1>3, <1>4 DEF Onward
    <3> HIDE DEF f
    <3>6. Open(z, m, i) <=> Open(b, m, i)
      BY <3>1, <3>2, <3>3, <3>4, <3>5 DEF Open
    <3>7. Open(b, m, i) => z.rows[i].arb = b.rows[i].arb
      BY <3>3, <3>4, <3>5 DEF Open
    <3> QED  BY <3>6, <3>7 DEF Risk
  <2>2. Risk(b, m)[n] = 0
    <3>1. n \notin DOMAIN b.rows
      BY <1>3, <1>4, <1>8 DEF Onward
    <3> QED  BY <1>8, <3>1 DEF Risk, Open
  <2>3. Risk(z, m)[n] \in Nat /\ Risk(z, m)[n] <= IF m = t.creditor THEN Most(t) ELSE 0
    <3>1. z.rows[n].arb = t
      BY <1>7 DEF t
    <3>2. CASE Open(z, m, n)
      <4>1. Risk(z, m)[n] = Most(t) /\ m = t.creditor
        BY <1>8, <3>1, <3>2 DEF Risk, Open
      <4> QED  BY <1>2, <4>1
    <3>3. CASE ~Open(z, m, n)
      <4>1. Risk(z, m)[n] = 0
        BY <1>8, <3>3 DEF Risk
      <4> QED  BY <1>2, <4>1
    <3> QED  BY <3>2, <3>3
  <2>4. n \in DOMAIN z.rows
    BY <1>7
  <2> HIDE DEF n
  <2>5. AtStake(z, m) + Risk(b, m)[n] = AtStake(b, m) + Risk(z, m)[n]
    BY <1>1, <1>9, <2>1, <2>4, AtStakeMoves
  <2>6. AtStake(z, m) \in Nat /\ AtStake(b, m) \in Nat
    BY <1>1, <1>9, TwoBooks, AtStakeIs
  <2>7. /\ b.charged[m] \in Nat /\ b.agreed[m] \in Nat
        /\ z.charged[m] = b.charged[m]
        /\ z.agreed[m] = b.agreed[m] + IF m = t.creditor THEN Most(t) ELSE 0
    BY <1>1, <1>2, <1>3, <1>6 DEF BookSet, Purses
  <2>8. b.charged[m] + AtStake(b, m) <= b.agreed[m]
    BY <1>1, <1>11 DEF Covered
  <2> DEFINE more == IF m = t.creditor THEN Most(t) ELSE 0
  <2>9. more \in Nat /\ Risk(z, m)[n] <= more /\ z.agreed[m] = b.agreed[m] + more
    BY <1>2, <2>3, <2>7
  <2> HIDE DEF more
  <2> QED  BY <2>2, <2>3, <2>5, <2>6, <2>7, <2>8, <2>9
<1> QED  BY <1>9, <1>10, <1>11, <1>12, <1>16 DEF Good, Covered, z, c, a, t, h

LEMMA AgreedType ==
    ASSUME NEW terms \in Panels, NEW d \in Members, NEW c \in Members, d # c, NEW x \in Nat
    PROVE  /\ Agreed(terms, d, c, x) \in Terms /\ terms # NoTerms
           /\ Agreed(terms, d, c, x).creditor = c
           /\ Most(Agreed(terms, d, c, x)) = Less(terms.cap, x)
<1>1. /\ terms.arbiters \in SUBSET Members /\ terms.quorum \in Nat \ {0}
      /\ terms.window \in Nat \ {0} /\ terms.cap \in Nat
  BY LedgerAssumption
<1>2. terms # NoTerms
  BY <1>1 DEF NoTerms
<1>3. <<>> \in Votes
  <2>1. <<>> \in [{} -> Nat]
    OBVIOUS
  <2> QED  BY <2>1 DEF Votes
<1> DEFINE a == [arbiters |-> terms.arbiters, quorum |-> terms.quorum, window |-> terms.window,
                 cap |-> terms.cap, debtor |-> d, creditor |-> c, amount |-> x, votes |-> <<>>,
                 awarded |-> FALSE]
<1>4. Agreed(terms, d, c, x) = a
  BY <1>2 DEF Agreed
<1>5. a \in Terms
  BY <1>1, <1>3 DEF Terms
<1> QED  BY <1>2, <1>4, <1>5 DEF Most

LEMMA AcceptGood ==
    ASSUME Good(book, epoch), Ready, epoch \in Nat, NEW d \in Members, NEW c \in Members, NEW x \in Nat,
           NEW term \in MinMaturity..MaxHorizon, NEW terms \in Panels \cup {NoTerms}, NEW S,
           Accept(d, c, x, term, terms, S)
    PROVE  Good(book', epoch) /\ Still(book, book') /\ Spares(book, book', {d})
<1>1. book \in Books
  BY DEF Good
<1>2. PICK t \in Taken(book, d, x) \cup {Uninsured} :
         book' = Opened(Reserve(Consented(book, c, x, terms), t.held),
                        [Row(d, c, x, epoch + term, t, epoch, epoch) EXCEPT !.arb = Agreed(terms, d, c, x)])
  <2>3. PICK t \in IF term <= InsuredHorizon THEN Taken(book, d, x) ELSE {Uninsured} :
           book' = Opened(Reserve(Consented(book, c, x, terms), t.held),
                          [Row(d, c, x, epoch + term, t, epoch, epoch) EXCEPT !.arb = Agreed(terms, d, c, x)])
    BY DEF Accept
  <2>4. t \in Taken(book, d, x) \cup {Uninsured}
    BY <2>3
  <2> QED  BY <2>3, <2>4, Zenon
<1>12. /\ t \in Holdings /\ t.held.supply[d] = 0
       /\ HeldAmount(t.held) = IF t.insured THEN x ELSE 0
       /\ HeldAmount(t.held) = 0 => t.held = Nothing
       /\ Filled(book) => \A k \in Places : Booked(book, k) + At(t.held, k) <= Stock(book, k)
  BY <1>1, TakenWhole
<1>13. d # c
  BY DEF Accept
<1> DEFINE due == epoch + term
           r0 == Row(d, c, x, due, t, epoch, epoch)
           a == Agreed(terms, d, c, x)
           r == [r0 EXCEPT !.arb = a]
           h == t.held
<1>3. due \in Nat /\ epoch <= due
  BY LedgerAssumption
<1> HIDE DEF due
<1>4. /\ r0 \in RowSet /\ r0.outstanding = x /\ r0.original = x /\ r0.maturity = due /\ r0.arb = NoTerms
      /\ r0.status = "Active" /\ r0.insured = t.insured /\ r0.held = t.held
      /\ r0.debtor = d /\ r0.creditor = c
  <2>1. t \in Holdings /\ due \in Nat
    BY <1>3, <1>12
  <2>2. /\ r0 \in RowSet
        /\ r0.outstanding = x /\ r0.original = x /\ r0.maturity = due /\ r0.arb = NoTerms
        /\ r0.debtor = d /\ r0.creditor = c /\ r0.status = "Active"
        /\ r0.insured = t.insured /\ r0.held = t.held
    <3> DEFINE now == epoch
               s == Row(d, c, x, due, t, now, now)
    <3>1. now \in Nat
      OBVIOUS
    <3> HIDE DEF now
    <3>2. /\ s \in RowSet
          /\ s.outstanding = x /\ s.original = x /\ s.maturity = due /\ s.arb = NoTerms
          /\ s.debtor = d /\ s.creditor = c /\ s.status = "Active"
          /\ s.insured = t.insured /\ s.held = t.held
      <4>1. s \in RowSet
        BY <2>1, <3>1, RowType
      <4> QED  BY <4>1 DEF Row
    <3> QED  BY <3>2 DEF now
  <2> HIDE DEF r0
  <2> QED  BY <2>2
<1> HIDE DEF r0
<1>5. a \in Terms \cup {NoTerms}
  BY <1>13, AgreedType DEF Agreed
<1> HIDE DEF a
<1>6. /\ r \in RowSet /\ r.outstanding = x /\ r.original = x /\ r.maturity = due /\ r.arb = a
      /\ r.status = "Active" /\ r.insured = t.insured /\ r.held = t.held
      /\ r.debtor = d /\ r.creditor = c
  BY <1>4, <1>5 DEF RowSet
<1>7. book' = Opened(Reserve(Consented(book, c, x, terms), h), r)
  BY <1>2 DEF due, r0, a, h
<1> HIDE DEF r
<1>8. ~Due(r, epoch) /\ r.outstanding <= r.original
  BY <1>3, <1>6, NotYetDue
<1>11. RowSound(r)
  BY <1>6, <1>12, <1>13, RowBacked
<1>14. r.held = h /\ (Filled(book) => \A k \in Places : Booked(book, k) + At(r.held, k) <= Stock(book, k))
  BY <1>6, <1>12
<1>15. Spares(book, book', {d})
  <2> DEFINE a0 == Consented(book, c, x, terms)
  <2>1. a0 \in Books /\ a0.rows = book.rows /\ a0.charged = book.charged
    BY <1>1, ConsentedBook
  <2>2. h \in HoldSet
    BY <1>12 DEF Holdings
  <2> HIDE DEF a0, h
  <2>3. Spares(book, Opened(Reserve(a0, h), r), {r.debtor})
    BY <1>1, <1>6, <2>1, <2>2, OpenedSpares
  <2> QED  BY <1>6, <1>7, <2>3 DEF a0
<1> HIDE DEF h
<1>9. CASE terms = NoTerms
  <2>1. a = NoTerms /\ Consented(book, c, x, terms) = book
    BY <1>9 DEF a, Agreed, Consented
  <2>2. Good(Opened(Reserve(book, r.held), r), epoch) /\ Still(book, Opened(Reserve(book, r.held), r))
    BY <1>6, <1>8, <1>11, <1>14, <2>1, BareRowGood
  <2> QED  BY <1>7, <1>14, <1>15, <2>1, <2>2
<1>10. CASE terms \in Panels
  <2>1. a \in Terms /\ a.creditor = c /\ Most(a) = Less(terms.cap, x) /\ terms # NoTerms
    BY <1>10, <1>13, AgreedType DEF a
  <2>2. Consented(book, c, x, terms) = [book EXCEPT !.agreed[r.arb.creditor] = @ + Most(r.arb)]
    BY <1>6, <2>1 DEF Consented
  <2> DEFINE agreed == [book EXCEPT !.agreed[r.arb.creditor] = @ + Most(r.arb)]
  <2>3. Good(Opened(Reserve(agreed, r.held), r), epoch) /\ Still(book, Opened(Reserve(agreed, r.held), r))
    BY <1>6, <1>8, <1>11, <1>14, <2>1, PanelRowGood
  <2> QED  BY <1>7, <1>14, <1>15, <2>2, <2>3
<1> QED  BY <1>9, <1>10, <1>15

LEMMA DischargeGood ==
    ASSUME Good(book, epoch), Ready, NEW id \in DOMAIN book.rows, NEW x, NEW S, NEW status,
           Discharge(id, x, S, status), status \in {"Active", "Expired"}
    PROVE  /\ Good(book', epoch) /\ Still(book, book')
           /\ Spares(book, book', {book.rows[id].creditor})
<1>1. book \in Books /\ book.rows[id].outstanding \in Nat
  BY FileTypes DEF Good, Books, BookSet, RowSet
<1>2. x \in Nat /\ x <= book.rows[id].outstanding /\ book' = Discharged(book, id, x)
  BY <1>1 DEF Discharge
<1>4. Live(book.rows[id])
  BY DEF Discharge, Live
<1>3. Later(book, Discharged(book, id, x), epoch)
  BY <1>1, <1>2, <1>4, DischargedLater
<1>5. Spares(book, Discharged(book, id, x), {book.rows[id].creditor})
  BY <1>1, <1>2, <1>4, DischargedSpares
<1> QED  BY <1>2, <1>3, <1>5, LaterGood DEF Later

\* A row lets go of all it holds.
LEMMA GivenBack ==
    ASSUME NEW b \in BookSet, NEW y \in BookSet, Ready, NEW id \in DOMAIN b.rows, NEW r \in RowSet,
           r.held = Nothing, y.rows = [b.rows EXCEPT ![id] = r], y.edges = b.edges,
           y.reserved = Release(b, b.rows[id].held).reserved,
           y.committed = Release(b, b.rows[id].held).committed
    PROVE  Filled(b) => Filled(y)
<1> SUFFICES ASSUME Filled(b), NEW k \in Places
             PROVE  Booked(y, k) = Total(y, k) /\ Total(y, k) <= Stock(y, k)
  BY DEF Filled
<1> DEFINE h == b.rows[id].held
           z == Release(b, h)
<1>1. h \in HoldSet
  BY FileTypes DEF BookSet, RowSet
<1>2. Booked(y, k) = Minus(Booked(b, k), At(h, k)) /\ Stock(y, k) = Stock(b, k)
  <2>1. Booked(z, k) = Minus(Booked(b, k), At(h, k))
    BY <1>1, ReleaseLater
  <2>2. y.reserved = z.reserved /\ y.committed = z.committed
    OBVIOUS
  <2> HIDE DEF z
  <2>3. Booked(y, k) = Booked(z, k)
    BY <2>2 DEF Booked
  <2>4. Stock(y, k) = Stock(b, k)
    BY DEF Stock
  <2> QED  BY <2>1, <2>3, <2>4
<1>3. Total(y, k) + Weight(b.rows[id], k, "held") = Total(b, k) + Weight(r, k, "held")
  BY TallyChanged DEF Total
<1>4. Weight(b.rows[id], k, "held") = At(h, k) /\ Weight(r, k, "held") = 0
  BY NothingAt DEF Weight
<1>5. At(h, k) \in Nat
  BY <1>1, AtType
<1>6. Booked(b, k) = Total(b, k) /\ Total(b, k) <= Stock(b, k)
  BY DEF Filled
<1>7. Total(b, k) \in Nat /\ Total(y, k) \in Nat /\ Stock(b, k) \in Nat
  BY PlaceTypes DEF Ready
<1> HIDE DEF h
<1> QED  BY <1>2, <1>3, <1>4, <1>5, <1>6, <1>7 DEF Minus

LEMMA ExtendGood ==
    ASSUME Good(book, epoch), Ready, epoch \in Nat, NEW id \in DOMAIN book.rows, NEW due, NEW S,
           Extend(id, due, S)
    PROVE  Good(book', epoch) /\ Still(book, book') /\ Lost(book, book', 0)
<1> DEFINE b == book
           c == b.rows[id]
           drops == c.insured /\ due > c.accepted + InsuredHorizon
           r0 == [c EXCEPT !.maturity = due]
           r1 == [c EXCEPT !.maturity = due, !.insured = FALSE, !.held = Nothing]
           z == Release(b, c.held)
<1>1. b \in Books /\ b \in BookSet /\ b.rows \in RowFiles /\ c \in RowSet /\ c.outstanding <= c.original
  BY FileTypes DEF Good, Books, BookSet
<1>2. c.maturity \in Nat /\ c.held \in HoldSet
  BY <1>1 DEF RowSet
<1>3. due \in Nat /\ due > c.maturity
  <2>1. due \in c.maturity + 1..epoch + MaxHorizon
    BY DEF Extend
  <2>2. epoch + MaxHorizon \in Nat
    BY LedgerAssumption
  <2> HIDE DEF c
  <2> QED  BY <1>2, <2>1, <2>2
<1>4. /\ r0 \in RowSet /\ r0.maturity = due /\ r0.outstanding = c.outstanding /\ r0.original = c.original
      /\ r0.arb = c.arb /\ r0.status = c.status
      /\ r1 \in RowSet /\ r1.maturity = due /\ r1.outstanding = c.outstanding /\ r1.original = c.original
      /\ r1.arb = c.arb /\ r1.status = c.status
      /\ r0.debtor = c.debtor /\ r0.creditor = c.creditor /\ r0.insured = c.insured /\ r0.held = c.held
      /\ r1.debtor = c.debtor /\ r1.creditor = c.creditor /\ ~r1.insured /\ r1.held = Nothing
  <2> HIDE DEF c
  <2> QED  BY <1>1, <1>3, NothingType DEF RowSet
<1>5. (Due(r0, epoch) => Due(c, epoch)) /\ (Due(r1, epoch) => Due(c, epoch))
  <2> HIDE DEF c, r0, r1
  <2> QED  BY <1>2, <1>3, <1>4 DEF Due
<1>8. RowSound(c) /\ c.status = "Active" => RowSound(r0) /\ RowSound(r1)
  <2> HIDE DEF c, r0, r1
  <2>1. c.debtor \in Members
    BY <1>1 DEF RowSet
  <2>2. RowSound(c) => RowSound(r0)
    BY <1>4 DEF RowSound, Live
  <2>3. RowSound(c) /\ c.status = "Active" => RowSound(r1)
    BY <1>4, <2>1, NothingHeld DEF RowSound, Live
  <2> QED  BY <2>2, <2>3
<1>9. RowSound(r0) /\ RowSound(r1) /\ Sound(b) /\ \A i \in DOMAIN b.rows : RowSound(b.rows[i])
  <2>1. Sound(b) /\ (\A i \in DOMAIN b.rows : RowSound(b.rows[i])) /\ c.status = "Active"
    BY DEF Good, Sound, RowsSound, Extend
  <2> QED  BY <1>8, <2>1
<1>6. CASE ~drops
  <2> DEFINE y == [b EXCEPT !.rows = [b.rows EXCEPT ![id] = r0]]
  <2>1. book' = y
    BY <1>1, <1>6 DEF Extend, BookSet
  <2> HIDE DEF r0, r1
  <2>2. [b.rows EXCEPT ![id] = r0] \in RowFiles
    BY <1>1, <1>4, RowChanged
  <2>3. /\ y \in BookSet /\ y.rows = [b.rows EXCEPT ![id] = r0] /\ y.next = b.next
        /\ y.agreed = b.agreed /\ y.charged = b.charged
        /\ y.debt = b.debt /\ y.default = b.default
        /\ y.edges = b.edges /\ y.reserved = b.reserved /\ y.committed = b.committed
    BY <1>1, <2>2 DEF BookSet
  <2> HIDE DEF y
  <2>4. Onward(b, y, epoch)
    BY <1>1, <1>4, <1>5, <2>3, OneRowLater
  <2>5. Together(b, y)
    BY <1>1, <1>4, <2>3, RowTogether
  <2>6. RowsSound(y)
    BY <1>1, <1>4, <1>9, <2>3, SoundChanged
  <2>8. Filled(b) => Filled(y)
    BY <1>1, <1>4, <2>3, RowFilled
  <2>9. Still(b, y)
    <3>1. \A k \in Places : At(r0.held, k) <= At(c.held, k)
      BY <1>1, <1>4, HeldAtType
    <3> QED  BY <1>1, <1>4, <2>3, <3>1, OneRowStill
  <2>7. Later(b, y, epoch)
    BY <1>1, <2>4, <2>5, <2>6, <2>8, <2>9, LaterTracks DEF Tracks
  <2>10. Lost(b, y, 0)
    BY <1>1, <1>4, <2>3, RowAlike DEF Alike
  <2> QED  BY <2>1, <2>7, <2>10, LaterGood DEF Later
<1>7. CASE drops
  <2> DEFINE y == [z EXCEPT !.rows = [b.rows EXCEPT ![id] = r1]]
  <2>1. /\ z \in BookSet /\ z.rows = b.rows /\ z.next = b.next
        /\ z.agreed = b.agreed /\ z.charged = b.charged
        /\ z.debt = b.debt /\ z.default = b.default /\ z.edges = b.edges
    BY <1>1, <1>2, ReleaseLater
  <2>2. book' = y
    <3>1. book' = [z EXCEPT !.rows[id].maturity = due, !.rows[id].insured = FALSE, !.rows[id].held = Nothing]
      BY <1>7 DEF Extend
    <3> HIDE DEF z
    <3> QED  BY <1>1, <2>1, <3>1 DEF BookSet
  <2> HIDE DEF r1, z
  <2>3. [b.rows EXCEPT ![id] = r1] \in RowFiles
    BY <1>1, <1>4, RowChanged
  <2>4. /\ y \in BookSet /\ y.rows = [b.rows EXCEPT ![id] = r1] /\ y.next = b.next
        /\ y.agreed = b.agreed /\ y.charged = b.charged
        /\ y.debt = b.debt /\ y.default = b.default /\ y.edges = b.edges
        /\ y.reserved = z.reserved /\ y.committed = z.committed
    BY <2>1, <2>3 DEF BookSet
  <2> HIDE DEF y
  <2>5. Onward(b, y, epoch)
    BY <1>1, <1>4, <1>5, <2>4, OneRowLater
  <2>6. Together(b, y)
    BY <1>1, <1>4, <2>4, RowTogether
  <2>7. RowsSound(y)
    BY <1>1, <1>4, <1>9, <2>4, SoundChanged
  <2>9. Filled(b) => Filled(y)
    BY <1>1, <1>4, <2>4, GivenBack DEF z
  <2>10. Still(b, y)
    <3>1. \A k \in Places : At(r1.held, k) <= At(c.held, k)
      BY <1>1, <1>4, HeldAtType, NothingAt
    <3> QED  BY <1>1, <1>4, <2>4, <3>1, OneRowStill
  <2>8. Later(b, y, epoch)
    BY <1>1, <2>5, <2>6, <2>7, <2>9, <2>10, LaterTracks DEF Tracks
  <2>11. Lost(b, y, 0)
    BY <1>1, <1>4, <2>4, RowAlike DEF Alike
  <2> QED  BY <2>2, <2>8, <2>11, LaterGood DEF Later
<1> QED  BY <1>6, <1>7

LEMMA TransferGood ==
    ASSUME Good(book, epoch), Ready, epoch \in Nat, NEW id \in DOMAIN book.rows, NEW n \in Members, NEW S,
           Transfer(id, n, S)
    PROVE  Good(book', epoch) /\ Still(book, book') /\ Spares(book, book', {n})
<1> DEFINE b == book
           c == b.rows[id]
           z == Release(b, c.held)
           r == [c EXCEPT !.status = "Transferred", !.outstanding = 0, !.held = Nothing, !.insured = FALSE]
           rows == [b.rows EXCEPT ![id] = r]
           debt == [z.debt EXCEPT ![c.debtor] = Minus(@, c.outstanding)]
           y == [z EXCEPT !.debt = debt, !.rows = rows]
           m == Moved(c, id)
<1>1. b \in Books /\ b \in BookSet /\ b.rows \in RowFiles /\ c \in RowSet /\ c.outstanding <= c.original
  BY FileTypes DEF Good, Books, BookSet
<1>2. /\ c.maturity \in Nat /\ c.held \in HoldSet /\ c.outstanding \in Nat /\ c.debtor \in Members
      /\ c.creditor \in Members /\ c.accepted \in Nat /\ c.original \in Nat
  BY <1>1 DEF RowSet
<1>3. ~Due(c, epoch) /\ c.status = "Active" /\ n # c.creditor
  BY DEF Good, Transfer
<1>4. /\ z \in BookSet /\ z.rows = b.rows /\ z.next = b.next
      /\ z.agreed = b.agreed /\ z.charged = b.charged
      /\ z.debt = b.debt /\ z.default = b.default /\ z.edges = b.edges
  BY <1>1, <1>2, ReleaseLater
<1>5. /\ r \in RowSet /\ r.outstanding = 0 /\ r.original = c.original /\ r.arb = c.arb
      /\ r.status = "Transferred" /\ ~r.insured /\ r.held = Nothing
      /\ r.debtor = c.debtor /\ r.creditor = c.creditor
  <2> HIDE DEF c
  <2> QED  BY <1>1, NothingType DEF RowSet, Statuses
<1>6. m = y
  <2>1. m = [z EXCEPT !.debt[c.debtor] = Minus(@, c.outstanding),
                      !.rows[id].status = "Transferred", !.rows[id].outstanding = 0,
                      !.rows[id].held = Nothing, !.rows[id].insured = FALSE]
    BY DEF Moved
  <2> DEFINE four == [z.rows EXCEPT ![id].status = "Transferred", ![id].outstanding = 0,
                                    ![id].held = Nothing, ![id].insured = FALSE]
  <2>2. m = [z EXCEPT !.debt = debt, !.rows = four]
    <3> HIDE DEF z, c, m
    <3> QED  BY <1>4, <2>1 DEF BookSet
  <2>3. four = rows
    <3> HIDE DEF z
    <3> QED  BY <1>1, <1>4
  <2> HIDE DEF four, z, rows, m, debt
  <2> QED  BY <2>2, <2>3
<1>7. rows \in RowFiles /\ debt \in Purses
  <2>1. rows \in RowFiles
    <3> HIDE DEF r
    <3> QED  BY <1>1, <1>5, RowChanged
  <2>2. debt \in Purses
    <3> HIDE DEF z, c
    <3> QED  BY <1>2, <1>4, MinusIsNatural DEF BookSet, Purses
  <2> QED  BY <2>1, <2>2
<1> HIDE DEF z, debt, rows, m, r
<1>8. /\ m \in BookSet /\ m.rows = rows /\ m.next = b.next
      /\ m.agreed = b.agreed /\ m.charged = b.charged
      /\ m.debt = debt /\ m.default = b.default /\ m.edges = b.edges
      /\ m.reserved = z.reserved /\ m.committed = z.committed
  BY <1>4, <1>6, <1>7 DEF BookSet
<1>17. Sound(b) /\ RowSound(c) /\ \A i \in DOMAIN b.rows : RowSound(b.rows[i])
  BY DEF Good, Sound, RowsSound
<1>18. ASSUME NEW T \in Kinds, NEW p \in Members
       PROVE  Cached(m, T)[p] = Tally(m, p, T)
  <2>1. Tally(m, p, T) + Weight(c, p, T) = Tally(b, p, T) + Weight(r, p, T)
    BY <1>1, <1>5, <1>8, TallyChanged DEF rows
  <2> DEFINE owed == c.outstanding
             was == Cached(b, T)[p]
  <2>2. /\ Weight(r, p, T) = 0
        /\ Weight(c, p, T) = IF p = c.debtor /\ T = "debt" THEN owed ELSE 0
    <3> HIDE DEF c
    <3> QED  BY <1>3, <1>5 DEF Weight, Kinds, Counting
  <2>3. /\ was = Tally(b, p, T) /\ was \in Nat /\ Tally(m, p, T) \in Nat /\ owed \in Nat
        /\ Weight(c, p, T) <= Tally(b, p, T)
    <3>1. was = Tally(b, p, T) /\ was \in Nat
      BY <1>1, <1>17, CachedType DEF Sound, Balanced
    <3>2. Tally(m, p, T) \in Nat /\ owed \in Nat /\ Weight(c, p, T) <= Tally(b, p, T)
      BY <1>1, <1>2, <1>8, TallyType
    <3> HIDE DEF was, c
    <3> QED  BY <3>1, <3>2
  <2>4. Cached(m, T)[p] = IF p = c.debtor /\ T = "debt" THEN Minus(was, owed) ELSE was
    <3>1. \A q \in Members : debt[q] = IF q = c.debtor THEN Minus(b.debt[q], owed) ELSE b.debt[q]
      <4>1. debt = [b.debt EXCEPT ![c.debtor] = Minus(b.debt[c.debtor], owed)]
        BY <1>4 DEF debt
      <4>2. b.debt \in [Members -> Nat]
        BY <1>1 DEF BookSet, Purses
      <4> HIDE DEF owed
      <4> QED  BY <4>1, <4>2
    <3> HIDE DEF owed, c
    <3> QED  BY <1>8, <3>1 DEF Cached, was
  <2> HIDE DEF owed, was, c
  <2> QED  BY <2>1, <2>2, <2>3, <2>4 DEF Minus
<1>9. Good(m, epoch) /\ Still(b, m)
  <2>1. r.outstanding <= r.original /\ ~Due(r, epoch)
    BY <1>2, <1>5 DEF Due
  <2>2. Onward(b, m, epoch)
    BY <1>1, <1>5, <1>8, <2>1, OneRowLater DEF rows
  <2>3. RowSound(r)
    BY <1>2, <1>5, <1>17, NothingHeld DEF RowSound, Live
  <2>4. RowsSound(m)
    BY <1>1, <1>5, <1>8, <1>17, <2>3, SoundChanged DEF rows
  <2>6. Filled(m)
    BY <1>1, <1>5, <1>8, <1>17, GivenBack DEF rows, z, Sound
  <2>7. Still(b, m)
    <3>1. \A k \in Places : At(r.held, k) <= At(c.held, k)
      BY <1>1, <1>5, HeldAtType, NothingAt
    <3> QED  BY <1>1, <1>5, <1>8, <3>1, OneRowStill DEF rows
  <2>5. Later(b, m, epoch)
    BY <1>18, <2>2, <2>4, <2>6, <2>7 DEF Later, Sound, Balanced
  <2> QED  BY <2>5, <2>7, LaterGood
<1>20. m \in Books
  BY <1>9 DEF Good
<1>10. PICK t \in Taken(m, n, c.outstanding) \cup {Uninsured} :
          book' = Opened(Reserve(m, t.held), Row(n, c.creditor, c.outstanding, c.maturity, t, epoch, c.accepted))
  <2>3. \E t \in IF WithinHorizon(c) THEN Taken(m, n, c.outstanding) ELSE {Uninsured} :
          book' = Opened(Reserve(m, t.held), Row(n, c.creditor, c.outstanding, c.maturity, t, epoch, c.accepted))
    BY DEF Transfer, m
  <2> QED  BY <2>3
<1> DEFINE owed == c.outstanding
           due == c.maturity
           lender == c.creditor
           since == c.accepted
           h == t.held
           w == Row(n, lender, owed, due, t, epoch, since)
<1>11. owed \in Nat /\ due \in Nat /\ lender \in Members /\ since \in Nat /\ n # lender
  BY <1>2, <1>3
<1>21. /\ t \in Holdings /\ t.held.supply[n] = 0
       /\ HeldAmount(t.held) = IF t.insured THEN owed ELSE 0
       /\ HeldAmount(t.held) = 0 => t.held = Nothing
       /\ Filled(m) => \A k \in Places : Booked(m, k) + At(t.held, k) <= Stock(m, k)
  BY <1>2, <1>10, <1>20, TakenWhole
<1>12. book' = Opened(Reserve(m, h), w)
  BY <1>10
<1>13. w.status = "Active" /\ w.insured = t.insured /\ w.held = t.held /\ w.debtor = n /\ w.creditor = lender
  BY DEF Row
<1> HIDE DEF c
<1>14. /\ w \in RowSet /\ w.outstanding = owed /\ w.original = owed /\ w.maturity = due /\ w.arb = NoTerms
  <2> HIDE DEF owed, due, lender, since, h, m
  <2>1. t \in Holdings
    BY <1>21
  <2>2. w \in RowSet
    BY <1>11, <2>1, RowType
  <2> QED  BY <2>2 DEF Row
<1> HIDE DEF w
<1>15. ~Due(w, epoch)
  BY <1>3, <1>13, <1>14 DEF Due
<1>25. /\ Live(c) /\ c.outstanding = owed /\ c.creditor = lender
       /\ w.debtor = n /\ w.creditor = lender /\ w.outstanding = owed
  BY <1>3, <1>13, <1>14 DEF Live
<1> HIDE DEF owed, due, lender, since
<1>19. RowSound(w)
  BY <1>11, <1>13, <1>14, <1>21, RowBacked
<1>22. w.held = h /\ (Filled(m) => \A k \in Places : Booked(m, k) + At(w.held, k) <= Stock(m, k))
  BY <1>13, <1>21
<1> HIDE DEF h
<1>16. w.outstanding <= w.original
  BY <1>11, <1>14
<1> DEFINE z2 == Opened(Reserve(m, w.held), w)
<1>23. Good(z2, epoch) /\ Still(m, z2)
  BY <1>9, <1>13, <1>14, <1>15, <1>16, <1>19, <1>22, BareRowGood
<1>24. Still(b, z2)
  <2>1. m \in BookSet /\ z2 \in BookSet /\ DOMAIN m.rows = DOMAIN b.rows
    BY <1>1, <1>7, <1>8, <1>20, <1>23 DEF Good, Books, rows
  <2> HIDE DEF z2
  <2> QED  BY <1>1, <1>9, <1>23, <2>1, StillTwice
\* The creditor has of the one row what they had of the other.
<1>26. Spares(b, z2, {n})
  <2> SUFFICES ASSUME NEW p \in Members, p # n
               PROVE  Net(b, p) <= Net(z2, p)
    BY DEF Spares
  <2>1. OneRow(b, m, id) /\ m.rows[id] = r
    <3>1. /\ DOMAIN m.rows = DOMAIN b.rows
          /\ \A i \in DOMAIN b.rows : m.rows[i] = IF i = id THEN r ELSE b.rows[i]
      BY <1>1, <1>5, <1>8, RowChanged DEF rows
    <3> QED  BY <3>1 DEF OneRow, OthersLeft
  <2>2. Net(m, p) = Net(b, p) + Worth(r, p) - Worth(c, p)
    <3>1. Net(m, p) = Net(b, p) + Worth(m.rows[id], p) - Worth(b.rows[id], p)
      BY <1>1, <1>8, <2>1, NetChanged
    <3> QED  BY <2>1, <3>1 DEF c
  <2>3. Worth(r, p) = For(r.creditor, p, 0) - For(r.debtor, p, 0)
    BY <1>5, WorthIs
  <2>4. Worth(c, p) = For(lender, p, owed) - For(c.debtor, p, owed)
    BY <1>1, <1>25, WorthIs
  <2>5. Net(z2, p) = Net(m, p) + For(lender, p, owed) - For(n, p, owed)
    <3>1. w.held \in HoldSet
      BY <1>14 DEF RowSet
    <3> QED  BY <1>13, <1>14, <1>20, <1>25, <3>1, OpenedReserved
  <2>6. Net(b, p) \in Int /\ owed \in Nat
    BY <1>1, <1>11, NetType
  <2> HIDE DEF z2
  <2> QED  BY <2>2, <2>3, <2>4, <2>5, <2>6 DEF For
<1> QED  BY <1>12, <1>22, <1>23, <1>24, <1>26

LEMMA AttestGood ==
    ASSUME Good(book, epoch), Ready, NEW id \in DOMAIN book.rows, NEW a, NEW x \in Nat, NEW S,
           Attest(id, a, x, S)
    PROVE  Good(book', epoch) /\ Still(book, book') /\ Lost(book, book', 0)
<1> DEFINE b == book
           c == b.rows[id]
           t == c.arb
           votes == Added(t.votes, a, x)
           u == [t EXCEPT !.votes = votes]
           r == [c EXCEPT !.arb = u]
           rows == [b.rows EXCEPT ![id] = r]
           z == [b EXCEPT !.rows = rows]
<1>1. b \in Books /\ b \in BookSet /\ b.rows \in RowFiles /\ c \in RowSet /\ Covered(b)
  BY FileTypes DEF Good, Books, BookSet
<1>2. t \in Terms /\ a \in Members /\ ~t.awarded
  <2>1. a \in t.arbiters /\ ~t.awarded
    BY DEF Attest
  <2>2. t \in Terms \cup {NoTerms}
    BY <1>1 DEF RowSet
  <2> HIDE DEF t
  <2> QED  BY <2>1, <2>2 DEF Terms, NoTerms
<1>3. votes \in Votes
  <2> DEFINE v == t.votes
  <2>1. PICK A \in SUBSET Members : v \in [A -> Nat]
    BY <1>2 DEF Terms, Votes
  <2> HIDE DEF v
  <2>2. Added(v, a, x) \in [A \cup {a} -> Nat]
    BY <2>1 DEF Added
  <2> QED  BY <1>2, <2>2 DEF Votes, v
<1>4. /\ u \in Terms /\ u.awarded = t.awarded /\ u.creditor = t.creditor /\ u.cap = t.cap
      /\ u.amount = t.amount
  <2> HIDE DEF t, votes
  <2> QED  BY <1>2, <1>3 DEF Terms
<1>5. /\ r \in RowSet /\ r.arb = u /\ r.outstanding = c.outstanding /\ r.original = c.original
      /\ r.status = c.status /\ r.maturity = c.maturity
      /\ r.debtor = c.debtor /\ r.creditor = c.creditor
      /\ r.insured = c.insured /\ r.held = c.held
  <2> HIDE DEF c, u
  <2> QED  BY <1>1, <1>4 DEF RowSet
<1>6. book' = z
  BY <1>1 DEF Attest, BookSet
<1> HIDE DEF r
<1>7. /\ rows \in RowFiles /\ DOMAIN rows = DOMAIN b.rows
      /\ \A i \in DOMAIN b.rows : rows[i] = IF i = id THEN r ELSE b.rows[i]
  BY <1>1, <1>5, RowChanged
<1> HIDE DEF rows
<1>8. /\ z \in BookSet /\ z.rows = rows /\ z.next = b.next
      /\ z.agreed = b.agreed /\ z.charged = b.charged
      /\ z.debt = b.debt /\ z.default = b.default
      /\ z.edges = b.edges /\ z.reserved = b.reserved /\ z.committed = b.committed
  BY <1>1, <1>7 DEF BookSet
<1> HIDE DEF z
<1>9. z \in Books
  <2> SUFFICES ASSUME NEW i \in DOMAIN b.rows
               PROVE  /\ 1 <= i /\ i < b.next
                      /\ rows[i].outstanding <= rows[i].original
    BY <1>1, <1>7, <1>8 DEF Books
  <2> QED  BY <1>1, <1>5, <1>7 DEF Books
<1>10. \A i \in DOMAIN z.rows : ~Due(z.rows[i], epoch)
  <2>1. Due(r, epoch) => Due(c, epoch)
    BY <1>5 DEF Due
  <2>2. \A i \in DOMAIN b.rows : ~Due(b.rows[i], epoch)
    BY DEF Good
  <2> QED  BY <1>7, <1>8, <2>1, <2>2
<1>11. ASSUME unit.times = 0, NEW m \in Members
       PROVE  z.charged[m] + AtStake(z, m) <= z.agreed[m]
  <2>1. ASSUME NEW i \in Nat
        PROVE  Risk(z, m)[i] <= Risk(b, m)[i]
    <3>1. CASE i # id
      <4>1. Risk(z, m)[i] = Risk(b, m)[i]
        BY <1>7, <1>8, <3>1 DEF Risk, Open
      <4>2. Risk(b, m)[i] \in Nat
        BY RiskType
      <4> QED  BY <4>1, <4>2
    <3>2. CASE i = id
      <4>1. z.rows[i].arb = u /\ b.rows[i].arb = t /\ i \in DOMAIN z.rows
        BY <1>5, <1>7, <1>8, <3>2
      <4>2. Most(u) = Most(t)
        <5> HIDE DEF u, t
        <5> QED  BY <1>4 DEF Most
      <4> HIDE DEF u, t
      <4>3. Open(z, m, i) <=> Open(b, m, i)
        BY <1>2, <1>4, <3>2, <4>1 DEF Open
      <4>4. Risk(z, m)[i] = Risk(b, m)[i]
        BY <4>1, <4>2, <4>3 DEF Risk
      <4>5. Risk(b, m)[i] \in Nat
        BY RiskType
      <4> QED  BY <4>4, <4>5
    <3> QED  BY <3>1, <3>2
  <2>2. AtStake(z, m) <= AtStake(b, m)
    BY <1>1, <1>9, <2>1, AtStakeFalls
  <2>3. AtStake(z, m) \in Nat /\ AtStake(b, m) \in Nat
    BY <1>1, <1>9, TwoBooks, AtStakeIs
  <2>4. b.charged[m] \in Nat /\ b.agreed[m] \in Nat
    BY <1>1 DEF BookSet, Purses
  <2>5. b.charged[m] + AtStake(b, m) <= b.agreed[m]
    BY <1>1, <1>11 DEF Covered
  <2> QED  BY <1>8, <2>2, <2>3, <2>4, <2>5
<1>12. Sound(z)
  <2>1. Sound(b) /\ RowSound(c) /\ \A i \in DOMAIN b.rows : RowSound(b.rows[i])
    BY DEF Good, Sound, RowsSound
  <2>2. RowSound(r)
    <3> HIDE DEF c
    <3> QED  BY <1>5, <2>1 DEF RowSound, Live
  <2>3. RowsSound(z)
    BY <1>7, <1>8, <2>1, <2>2 DEF RowsSound
  <2>4. Together(b, z)
    BY <1>1, <1>5, <1>8, RowTogether DEF rows
  <2>5. Filled(b) => Filled(z)
    BY <1>1, <1>5, <1>8, RowFilled DEF rows
  <2> QED  BY <1>1, <1>8, <2>1, <2>3, <2>4, <2>5, TracksSound DEF Tracks
<1>13. Still(b, z)
  <2>1. \A i \in DOMAIN b.rows \cap DOMAIN z.rows : z.rows[i].held = b.rows[i].held
    BY <1>5, <1>7, <1>8
  <2> QED  BY <1>1, <2>1, SameHolds
<1>14. Lost(b, z, 0)
  BY <1>1, <1>5, <1>8, RowAlike DEF Alike, rows
<1> QED  BY <1>6, <1>9, <1>10, <1>11, <1>12, <1>13, <1>14 DEF Good, Covered

-----------------------------------------------------------------------------
(* Re-denomination: amounts are floored one by one *)

Scale == Nat \X (Nat \ {0})

LEMMA FloorGreatest ==
    ASSUME NEW x \in Nat, NEW a \in Nat, NEW t \in Nat \ {0}, x * t <= a
    PROVE  x <= a \div t
<1> DEFINE q == a \div t
           r == a % t
<1>1. q \in Nat /\ r \in Nat /\ q * t + r = a
  BY QuotientFits
<1>2. r < t
  OBVIOUS
<1> HIDE DEF q, r
<1>3. CASE q < x
  <2>1. q + 1 <= x
    BY <1>1, <1>3
  <2>2. (q + 1) * t <= x * t
    BY <1>1, <2>1, ProductGrows
  <2>3. (q + 1) * t = q * t + t
    BY <1>1
  <2>4. q * t \in Nat /\ x * t \in Nat
    BY <1>1, ProductIsNatural
  <2> HIDE <1>3
  <2> QED  BY <1>1, <1>2, <2>2, <2>3, <2>4
<1> QED  BY <1>1, <1>3 DEF q

LEMMA FloorType ==
    ASSUME NEW v \in Nat, NEW pi \in Scale
    PROVE  /\ Floored(v, pi) \in Nat /\ pi[1] \in Nat /\ pi[2] \in Nat \ {0}
           /\ Floored(v, pi) * pi[2] <= v * pi[1]
           /\ v = 0 => Floored(v, pi) = 0
<1> DEFINE p == pi[1]
           q == pi[2]
           a == v * p
<1>1. p \in Nat /\ q \in Nat \ {0}
  BY DEF Scale
<1> HIDE DEF p, q
<1>2. a \in Nat
  BY <1>1, ProductIsNatural
<1>3. v = 0 => a = 0
  BY <1>1
<1>4. Floored(v, pi) = a \div q
  BY DEF Floored, p, q
<1> HIDE DEF a
<1>5. a \div q \in Nat /\ (a \div q) * q <= a
  BY <1>1, <1>2, QuotientFits
<1>6. 0 \div q = 0
  BY <1>1
<1> QED  BY <1>1, <1>3, <1>4, <1>5, <1>6 DEF p, q, a

\* The floors of two amounts, or of a part.
LEMMA FloorAdds ==
    ASSUME NEW x \in Nat, NEW y \in Nat, NEW pi \in Scale
    PROVE  Floored(x, pi) + Floored(y, pi) <= Floored(x + y, pi)
<1> DEFINE p == pi[1]
           q == pi[2]
           fx == Floored(x, pi)
           fy == Floored(y, pi)
<1>1. p \in Nat /\ q \in Nat \ {0} /\ fx \in Nat /\ fy \in Nat /\ fx * q <= x * p /\ fy * q <= y * p
  BY FloorType
<1>2. Floored(x + y, pi) = ((x + y) * p) \div q
  BY DEF Floored
<1> HIDE DEF p, q, fx, fy
<1>3. (fx + fy) * q = fx * q + fy * q /\ (x + y) * p = x * p + y * p
  BY <1>1
<1>4. fx * q \in Nat /\ fy * q \in Nat /\ x * p \in Nat /\ y * p \in Nat
  BY <1>1, ProductIsNatural
<1>5. (fx + fy) * q <= (x + y) * p /\ (x + y) * p \in Nat /\ fx + fy \in Nat
  BY <1>1, <1>3, <1>4
<1>6. fx + fy <= ((x + y) * p) \div q
  BY <1>1, <1>5, FloorGreatest
<1> QED  BY <1>2, <1>6 DEF fx, fy

LEMMA FloorGrows ==
    ASSUME NEW x \in Nat, NEW y \in Nat, x <= y, NEW pi \in Scale
    PROVE  Floored(x, pi) <= Floored(y, pi)
<1>1. y - x \in Nat /\ x + (y - x) = y
  OBVIOUS
<1>2. Floored(x, pi) + Floored(y - x, pi) <= Floored(x + (y - x), pi)
  BY <1>1, FloorAdds
<1>3. Floored(x, pi) \in Nat /\ Floored(y - x, pi) \in Nat /\ Floored(y, pi) \in Nat
  BY <1>1, FloorType
<1> QED  BY <1>1, <1>2, <1>3

\* What is at most the floor of each part is at most the floor of the whole.
LEMMA FloorOfSum ==
    ASSUME NEW S, IsFiniteSet(S), NEW f, NEW h, Weighs(f, S), Weighs(h, S), NEW pi \in Scale,
           \A x \in S : h[x] <= Floored(f[x], pi)
    PROVE  SumFunctionOnSet(h, S) <= Floored(SumFunctionOnSet(f, S), pi)
<1> DEFINE sf(s) == SumFunctionOnSet(f, s)
           sh(s) == SumFunctionOnSet(h, s)
           P == {s \in SUBSET S : sh(s) <= Floored(sf(s), pi)}
<1>1. \A x \in S : f[x] \in Nat /\ h[x] \in Nat
  BY DEF Weighs
<1>2. {} \in P
  <2>1. sf({}) = 0 /\ sh({}) = 0
    BY SumOfNothing
  <2>2. Floored(0, pi) = 0
    BY FloorType
  <2> QED  BY <2>1, <2>2
<1>3. ASSUME NEW s \in SUBSET S, NEW x \in S \ s, s \in P
      PROVE  s \cup {x} \in P
  <2> DEFINE u == s \cup {x}
  <2>1. IsFiniteSet(s) /\ IsFiniteSet(u) /\ x \in u /\ u \ {x} = s /\ u \in SUBSET S
    BY <1>3, FS_Subset
  <2>2. \A y \in u : f[y] \in Nat /\ h[y] \in Nat
    BY <1>1, <2>1
  <2> HIDE DEF u
  <2>3. SumFunctionOnSet(f, u) = f[x] + SumFunctionOnSet(f, s)
    BY <2>1, <2>2, SumSplit
  <2>4. SumFunctionOnSet(h, u) = h[x] + SumFunctionOnSet(h, s)
    BY <2>1, <2>2, SumSplit
  <2>5. \A y \in s : f[y] \in Nat /\ h[y] \in Nat
    BY <1>1
  <2>6. SumFunctionOnSet(f, s) \in Nat
    BY <2>1, <2>5, SumIsNatural
  <2>7. SumFunctionOnSet(h, s) \in Nat
    BY <2>1, <2>5, SumIsNatural
  <2> DEFINE v == f[x]
             w == sf(s)
             hv == h[x]
             hw == sh(s)
  <2>8. v \in Nat /\ w \in Nat /\ hv \in Nat /\ hw \in Nat /\ hv <= Floored(v, pi) /\ hw <= Floored(w, pi)
    BY <1>1, <1>3, <2>6, <2>7
  <2>9. sf(u) = v + w /\ sh(u) = hv + hw
    BY <2>3, <2>4
  <2> HIDE DEF v, w, hv, hw, sf, sh
  <2>10. Floored(v, pi) + Floored(w, pi) <= Floored(v + w, pi)
    BY <2>8, FloorAdds
  <2>11. Floored(v, pi) \in Nat /\ Floored(w, pi) \in Nat /\ Floored(v + w, pi) \in Nat
    BY <2>8, FloorType
  <2>12. hv + hw <= Floored(v + w, pi)
    BY <2>8, <2>10, <2>11
  <2>13. sh(u) <= Floored(sf(u), pi)
    BY <2>9, <2>12
  <2> QED  BY <2>1, <2>13 DEF u
<1>4. S \in P
  <2> HIDE DEF P
  <2> QED  BY <1>2, <1>3, SetInduction
<1> QED  BY <1>4

\* What is not above the dust is not above it in the new unit.
LEMMA DustFloored ==
    ASSUME NEW x \in Nat, NEW n \in Nat, NEW d \in Nat \ {0}, NEW pi \in Scale,
           x <= (Dust * n) \div d
    PROVE  Floored(x, pi) <= (Dust * (n * pi[1])) \div (d * pi[2])
<1> DEFINE p == pi[1]
           q == pi[2]
           y == Floored(x, pi)
           a == Dust * n
<1>1. p \in Nat /\ q \in Nat \ {0} /\ y \in Nat /\ y * q <= x * p
  BY FloorType
<1>2. a \in Nat /\ Dust \in Nat
  BY LedgerAssumption, ProductIsNatural
<1>3. Dust * (n * p) = a * p
  BY <1>1, <1>2
<1> HIDE DEF p, q, y, a
<1>4. x * d <= a
  <2> DEFINE z == a \div d
  <2>1. z \in Nat /\ z * d <= a /\ x <= z
    BY <1>2, QuotientFits DEF a
  <2> HIDE DEF z
  <2>2. x * d <= z * d
    BY <2>1, ProductGrows
  <2>3. x * d \in Nat /\ z * d \in Nat
    BY <2>1, ProductIsNatural
  <2> QED  BY <1>2, <2>1, <2>2, <2>3
<1>5. (y * q) * d <= (x * p) * d
  BY <1>1, ProductIsNatural, ProductGrows
<1>6. (x * d) * p <= a * p
  BY <1>1, <1>2, <1>4, ProductIsNatural, ProductGrows
<1>7. (x * p) * d = (x * d) * p /\ y * (d * q) = (y * q) * d
  BY <1>1
<1>8. d * q \in Nat \ {0} /\ a * p \in Nat /\ (x * p) * d \in Nat /\ (y * q) * d \in Nat
  BY <1>1, <1>2, ProductIsNatural
<1>9. y * (d * q) <= a * p
  BY <1>5, <1>6, <1>7, <1>8
<1>10. y <= (a * p) \div (d * q)
  BY <1>1, <1>8, <1>9, FloorGreatest
<1> QED  BY <1>3, <1>10 DEF y, p, q

-----------------------------------------------------------------------------
(* What some rows hold together *)

LEMMA PlusAt ==
    ASSUME NEW x \in HoldSet, NEW y \in HoldSet
    PROVE  Plus(x, y) \in HoldSet /\ \A k \in Places : At(Plus(x, y), k) = At(x, k) + At(y, k)
<1>1. Plus(x, y) \in HoldSet
  BY DEF Plus, HoldSet
<1>2. \A k \in Places : At(Plus(x, y), k) = At(x, k) + At(y, k)
  BY PlaceKinds DEF Plus, At
<1> QED  BY <1>1, <1>2

AllHeld(f) == FoldFunction(LAMBDA c, h : Plus(c.held, h), Nothing, f)

HeldAtPlace(f, k) == [i \in DOMAIN f |-> At(f[i].held, k)]

\* The holds of some rows together take of each place what each takes.
LEMMA AllHeldIs ==
    ASSUME NEW D, IsFiniteSet(D), NEW f \in [D -> RowSet]
    PROVE  /\ AllHeld(f) \in HoldSet
           /\ \A k \in Places : At(AllHeld(f), k) = SumFunctionOnSet(HeldAtPlace(f, k), D)
<1> DEFINE Eq(g) == g = [s \in SUBSET D |-> IF s = {} THEN Nothing
                                          ELSE Plus(f[CHOOSE x \in s : TRUE].held, g[s \ {CHOOSE x \in s : TRUE}])]
           it == CHOOSE g : Eq(g)
           c == First(D)
           G == [s \in SUBSET D |-> [v \in HoldSet |-> IF s = {} THEN v ELSE Plus(f[c[s]].held, v)]]
<1>1. Picks(c, D) /\ \A s \in SUBSET D : c[s] = CHOOSE x \in s : TRUE
  BY FirstIsIn DEF First
<1> HIDE DEF c
<1>2. \A i \in D : f[i].held \in HoldSet
  BY DEF RowSet
<1>3. G \in [SUBSET D -> [HoldSet -> HoldSet]]
  <2> SUFFICES ASSUME NEW s \in SUBSET D, NEW v \in HoldSet, s # {}
               PROVE  Plus(f[c[s]].held, v) \in HoldSet
    OBVIOUS
  <2>1. c[s] \in D
    BY <1>1 DEF Picks
  <2> QED  BY <1>2, <2>1, PlusAt
<1>4. PICK g \in [SUBSET D -> HoldSet] : Recursion(g, SUBSET D, Nothing, c, G)
  <2> DEFINE V == HoldSet
             base == Nothing
  <2>1. base \in V /\ G \in [SUBSET D -> [V -> V]] /\ Picks(c, D)
    BY <1>1, <1>3, NothingType
  <2> HIDE DEF G, V, base
  <2>2. \E g \in [SUBSET D -> V] : Recursion(g, SUBSET D, base, c, G)
    BY <2>1, RecursionExists
  <2> QED  BY <2>2 DEF V, base
<1>5. Eq(g)
  <2>1. ASSUME NEW s \in SUBSET D, s # {}
        PROVE  g[s] = Plus(f[c[s]].held, g[s \ {c[s]}])
    <3>1. g[s \ {c[s]}] \in HoldSet
      BY <1>4
    <3> QED  BY <1>4, <2>1, <3>1 DEF Recursion
  <2>2. g[{}] = Nothing
    BY <1>4 DEF Recursion
  <2> QED  BY <1>1, <1>4, <2>1, <2>2
<1>6. Eq(it)
  <2> HIDE DEF Eq
  <2> QED  BY <1>5
<1>7. AllHeld(f) = it[D]
  BY DEF AllHeld, FoldFunction, FoldFunctionOnSet, MapThenFoldSet
<1> HIDE DEF it
<1> DEFINE Good1(s) == /\ it[s] \in HoldSet
                       /\ \A k \in Places : At(it[s], k) = SumFunctionOnSet(HeldAtPlace(f, k), s)
           Bad == {s \in SUBSET D : ~Good1(s)}
<1>8. Bad = {}
  <2> SUFFICES ASSUME Bad # {}
               PROVE  FALSE
    OBVIOUS
  <2>1. PICK s \in Bad : \A u \in Bad : u \subseteq s => u = s
    <3>1. Bad \in SUBSET (SUBSET D)
      OBVIOUS
    <3> HIDE DEF Bad
    <3> QED  BY <3>1, MinimalSet
  <2>2. s # {}
    <3> SUFFICES ASSUME s = {}
                 PROVE  FALSE
      OBVIOUS
    <3>1. it[s] = Nothing
      BY <1>6
    <3>2. Good1(s)
      BY <3>1, NothingType, NothingAt, SumOfNothing
    <3> QED  BY <2>1, <3>2
  <2> DEFINE x == CHOOSE y \in s : TRUE
             u == s \ {x}
  <2>3. x \in s /\ s \in SUBSET D /\ u \in SUBSET D /\ u \subseteq s /\ u # s
    BY <2>1, <2>2
  <2>4. it[s] = Plus(f[x].held, it[u])
    BY <1>6, <2>2, <2>3
  <2> HIDE DEF x
  <2>5. Good1(u)
    BY <2>1, <2>3
  <2>6. it[s] \in HoldSet /\ \A k \in Places : At(it[s], k) = At(f[x].held, k) + At(it[u], k)
    <3> DEFINE h == f[x].held
               g1 == it[u]
    <3>1. x \in D
      BY <2>3
    <3>2. h \in HoldSet
      BY <1>2, <3>1
    <3>3. g1 \in HoldSet
      BY <2>5
    <3>4. it[s] = Plus(h, g1)
      BY <2>4
    <3> HIDE DEF h, g1, Good1, u
    <3>5. it[s] \in HoldSet /\ \A k \in Places : At(it[s], k) = At(h, k) + At(g1, k)
      BY <3>2, <3>3, <3>4, PlusAt
    <3> QED  BY <3>5 DEF h, g1
  <2>7. ASSUME NEW k \in Places
        PROVE  At(it[s], k) = SumFunctionOnSet(HeldAtPlace(f, k), s)
    <3> DEFINE w == HeldAtPlace(f, k)
    <3>1. \A i \in D : w[i] = At(f[i].held, k) /\ w[i] \in Nat
      BY <1>2, AtType DEF HeldAtPlace
    <3> HIDE DEF w
    <3>2. IsFiniteSet(s) /\ \A i \in s : w[i] \in Nat
      BY <2>3, <3>1, FS_Subset
    <3>3. SumFunctionOnSet(w, s) = w[x] + SumFunctionOnSet(w, u)
      BY <2>3, <3>2, SumSplit
    <3>4. At(it[u], k) = SumFunctionOnSet(w, u)
      BY <2>5 DEF w
    <3>5. At(it[s], k) = At(f[x].held, k) + At(it[u], k)
      BY <2>6
    <3>6. w[x] = At(f[x].held, k)
      BY <2>3, <3>1
    <3> HIDE DEF u
    <3> QED  BY <3>3, <3>4, <3>5, <3>6 DEF w
  <2> QED  BY <2>1, <2>6, <2>7
<1>9. Good1(D)
  BY <1>8
<1> QED  BY <1>7, <1>9

-----------------------------------------------------------------------------
(* What is shaved off floored holds *)

\* The same rows, each holding no more of any place than before.
Pared(f, x) ==
    /\ x \in RowFiles /\ DOMAIN x = DOMAIN f
    /\ \A i \in DOMAIN f : /\ x[i] = [f[i] EXCEPT !.held = x[i].held]
                           /\ \A k \in Places : At(x[i].held, k) <= At(f[i].held, k)

LEMMA ParedSelf ==
    ASSUME NEW f \in RowFiles
    PROVE  Pared(f, f)
<1>1. \A i \in DOMAIN f : f[i] = [f[i] EXCEPT !.held = f[i].held]
  BY FileTypes DEF RowSet
<1>2. \A i \in DOMAIN f : \A k \in Places : At(f[i].held, k) <= At(f[i].held, k)
  <2> SUFFICES ASSUME NEW i \in DOMAIN f, NEW k \in Places
               PROVE  At(f[i].held, k) <= At(f[i].held, k)
    OBVIOUS
  <2>1. f[i].held \in HoldSet
    BY FileTypes DEF RowSet
  <2>2. At(f[i].held, k) \in Nat
    BY <2>1, AtType
  <2> QED  BY <2>2
<1> QED  BY <1>1, <1>2 DEF Pared

LEMMA ParedTwice ==
    ASSUME NEW f \in RowFiles, NEW x, NEW y, Pared(f, x), Pared(x, y)
    PROVE  Pared(f, y)
<1>1. x \in RowFiles /\ y \in RowFiles /\ DOMAIN x = DOMAIN f /\ DOMAIN y = DOMAIN f
  BY DEF Pared
<1>2. ASSUME NEW i \in DOMAIN f
      PROVE  y[i] = [f[i] EXCEPT !.held = y[i].held]
  <2> DEFINE fi == f[i]
             xi == x[i]
             yi == y[i]
  <2>1. fi \in RowSet /\ xi \in RowSet /\ yi \in RowSet
    BY <1>1, FileTypes
  <2>2. xi = [fi EXCEPT !.held = xi.held] /\ yi = [xi EXCEPT !.held = yi.held]
    BY <1>1, <1>2 DEF Pared
  <2> HIDE DEF fi, xi, yi
  <2>3. yi = [fi EXCEPT !.held = yi.held]
    BY <2>1, <2>2 DEF RowSet
  <2> QED  BY <2>3 DEF fi, yi
<1>3. ASSUME NEW i \in DOMAIN f, NEW k \in Places
      PROVE  At(y[i].held, k) <= At(f[i].held, k)
  <2> DEFINE p == At(f[i].held, k)
             q == At(x[i].held, k)
             r == At(y[i].held, k)
  <2>1. f[i].held \in HoldSet /\ x[i].held \in HoldSet /\ y[i].held \in HoldSet
    BY <1>1, <1>3, FileTypes DEF RowSet
  <2>2. p \in Nat /\ q \in Nat /\ r \in Nat
    BY <2>1, AtType
  <2>3. q <= p /\ r <= q
    BY <1>1, <1>3 DEF Pared
  <2> HIDE DEF p, q, r
  <2>4. r <= p
    BY <2>2, <2>3
  <2> QED  BY <2>4 DEF p, r
<1> QED  BY <1>1, <1>2, <1>3 DEF Pared

Claims(f, ids) == {c \in ids \X Members : f[c[1]].held.supply[c[2]] > 0}

\* One claim is the largest, or the first of the largest.
LEMMA LargestClaim ==
    ASSUME NEW f \in RowFiles, NEW ids \in SUBSET DOMAIN f, Claims(f, ids) # {}
    PROVE  LET size(c) == f[c[1]].held.supply[c[2]]
           IN \E c \in Claims(f, ids) : \A e \in Claims(f, ids) :
                 size(c) > size(e) \/ (size(c) = size(e) /\ (c = e \/ RouteBefore(c, e)))
<1> DEFINE claims == Claims(f, ids)
           size(c) == f[c[1]].held.supply[c[2]]
           R == {p \in claims \X claims : \/ size(p[1]) > size(p[2])
                                          \/ size(p[1]) = size(p[2]) /\ RouteBefore(p[1], p[2])}
<1>1. IsFiniteSet(claims)
  <2>1. IsFiniteSet(ids)
    BY FileTypes, FS_Subset
  <2>2. IsFiniteSet(ids \X Members)
    BY <2>1, MembersAssumption, FS_Product
  <2>3. claims \subseteq ids \X Members
    BY DEF Claims
  <2> QED  BY <2>2, <2>3, FS_Subset
<1>2. ASSUME NEW c \in claims
      PROVE  size(c) \in Nat /\ c \in Seq(Nat) /\ Len(c) = 2 /\ c = <<c[1], c[2]>>
  <2>1. c[1] \in ids /\ c[2] \in Members /\ c = <<c[1], c[2]>> /\ c[1] \in DOMAIN f
    BY <1>2 DEF Claims
  <2>2. c[1] \in Nat /\ c[2] \in Nat /\ f[c[1]] \in RowSet
    BY <2>1, FileTypes, MembersAssumption
  <2>3. f[c[1]].held.supply \in [Members -> Nat]
    BY <2>2 DEF RowSet, HoldSet
  <2>4. <<c[1], c[2]>> \in Seq(Nat) /\ Len(<<c[1], c[2]>>) = 2
    BY <2>2
  <2> QED  BY <2>1, <2>3, <2>4
<1>3. \A x, y \in claims : <<x, y>> \in R <=> \/ size(x) > size(y)
                                              \/ size(x) = size(y) /\ RouteBefore(x, y)
  OBVIOUS
<1> HIDE DEF R, size
<1>4. ASSUME NEW x \in claims, NEW y \in claims
      PROVE  x = y \/ <<x, y>> \in R \/ <<y, x>> \in R
  <2>1. x \in Seq(Nat) /\ y \in Seq(Nat) /\ Len(x) = 2 /\ Len(y) = 2 /\ size(x) \in Nat /\ size(y) \in Nat
    BY <1>2
  <2>2. ~Begins(x, y) /\ ~Begins(y, x)
    BY <2>1 DEF Begins
  <2>3. x = y \/ RouteBefore(x, y) \/ RouteBefore(y, x)
    BY <2>1, <2>2, RoutesPart
  <2>4. size(x) = size(y) \/ size(x) > size(y) \/ size(y) > size(x)
    BY <2>1
  <2> QED  BY <1>3, <2>3, <2>4
<1>5. ASSUME NEW x \in claims, NEW y \in claims, NEW z \in claims, <<x, y>> \in R, <<y, z>> \in R
      PROVE  <<x, z>> \in R
  <2>1. /\ x \in Seq(Nat) /\ y \in Seq(Nat) /\ z \in Seq(Nat)
        /\ size(x) \in Nat /\ size(y) \in Nat /\ size(z) \in Nat
    BY <1>2
  <2>2. /\ size(x) > size(y) \/ (size(x) = size(y) /\ RouteBefore(x, y))
        /\ size(y) > size(z) \/ (size(y) = size(z) /\ RouteBefore(y, z))
    BY <1>3, <1>5
  <2>3. RouteBefore(x, y) /\ RouteBefore(y, z) => RouteBefore(x, z)
    BY <2>1, RouteTransitive
  <2>4. size(x) > size(z) \/ (size(x) = size(z) /\ RouteBefore(x, z))
    BY <2>1, <2>2, <2>3
  <2> QED  BY <1>3, <2>4
<1>6. PICK c \in claims : \A e \in claims : e = c \/ <<c, e>> \in R
  <2>1. Orders(R, claims) /\ claims # {}
    BY <1>4, <1>5 DEF Orders
  <2> HIDE DEF claims
  <2> QED  BY <1>1, <2>1, LeastOfOrder
<1>7. ASSUME NEW e \in claims
      PROVE  size(c) > size(e) \/ (size(c) = size(e) /\ (c = e \/ RouteBefore(c, e)))
  BY <1>3, <1>6
<1>8. \E q \in claims : \A e \in claims :
         size(q) > size(e) \/ (size(q) = size(e) /\ (q = e \/ RouteBefore(q, e)))
  BY <1>7
<1> QED  BY <1>8 DEF size

LEMMA TrimmedPared ==
    ASSUME NEW f \in RowFiles, NEW ids \in SUBSET DOMAIN f
    PROVE  Pared(f, Trimmed(f, ids))
<1> DEFINE claims == Claims(f, ids)
           size(c) == f[c[1]].held.supply[c[2]]
           t == CHOOSE c \in claims : \A e \in claims :
                   size(c) > size(e) \/ (size(c) = size(e) /\ (c = e \/ RouteBefore(c, e)))
           i == t[1]
           u == t[2]
<1>1. CASE claims = {}
  <2>1. Trimmed(f, ids) = f
    BY <1>1 DEF Trimmed, Claims
  <2> QED  BY <2>1, ParedSelf
<1>2. CASE claims # {}
  <2>1. t \in claims
    <3>1. \E c \in claims : \A e \in claims :
             size(c) > size(e) \/ (size(c) = size(e) /\ (c = e \/ RouteBefore(c, e)))
      BY <1>2, LargestClaim
    <3> HIDE DEF claims, size
    <3> QED  BY <3>1
  <2>2. Trimmed(f, ids) = [f EXCEPT ![i].held.supply[u] = @ - 1]
    BY <1>2 DEF Trimmed, Claims
  <2>3. i \in DOMAIN f /\ u \in Members /\ f[i].held.supply[u] > 0
    <3> HIDE DEF t
    <3> QED  BY <2>1 DEF Claims
  <2> HIDE DEF t, i, u
  <2> DEFINE c == f[i]
             h == c.held
             s == [h.supply EXCEPT ![u] = @ - 1]
             g == [h EXCEPT !.supply = s]
             r == [c EXCEPT !.held = g]
  <2>4. c \in RowSet /\ h \in HoldSet /\ h.supply \in [Members -> Nat]
    BY <2>3, FileTypes DEF RowSet, HoldSet
  <2>5. Trimmed(f, ids) = [f EXCEPT ![i] = r]
    BY <2>2
  <2>6. s \in [Members -> Nat] /\ \A m \in Members : s[m] <= h.supply[m]
    <3>1. \A m \in Members : s[m] = IF m = u THEN h.supply[u] - 1 ELSE h.supply[m]
      BY <2>4
    <3>2. h.supply[u] > 0 /\ \A m \in Members : h.supply[m] \in Nat
      BY <2>3, <2>4
    <3>3. s \in [Members -> Nat]
      <4>1. h.supply[u] - 1 \in Nat
        BY <2>3, <3>2
      <4> QED  BY <2>4, <4>1
    <3> HIDE DEF s, h
    <3> QED  BY <3>1, <3>2, <3>3
  <2> HIDE DEF s
  <2>7. g \in HoldSet /\ g.edges = h.edges /\ g.supply = s
    BY <2>4, <2>6 DEF HoldSet
  <2> HIDE DEF g
  <2>8. r \in RowSet /\ r.held = g
    BY <2>4, <2>7 DEF RowSet
  <2>9. \A k \in Places : At(g, k) <= At(h, k)
    <3> SUFFICES ASSUME NEW k \in Places
                 PROVE  At(g, k) <= At(h, k)
      OBVIOUS
    <3>1. At(h, k) \in Nat
      BY <2>4, AtType
    <3>2. CASE k[1] = "arc" /\ k[2] \in Arcs
      <4>1. At(g, k) = At(h, k)
        BY <2>7, <3>2 DEF At
      <4> QED  BY <3>1, <4>1
    <3>3. CASE k[1] = "supply" /\ k[2] \in Members
      BY <2>6, <2>7, <3>3 DEF At
    <3> QED  BY <3>2, <3>3, PlaceKinds
  <2> DEFINE x == [f EXCEPT ![i] = r]
  <2> HIDE DEF h
  <2>10. /\ x \in RowFiles /\ DOMAIN x = DOMAIN f
         /\ \A j \in DOMAIN f : x[j] = IF j = i THEN r ELSE f[j]
    <3> HIDE DEF r
    <3> QED  BY <2>8, RowChanged
  <2>11. Pared(f, f)
    BY ParedSelf
  <2> HIDE DEF x
  <2>12. ASSUME NEW j \in DOMAIN f
         PROVE  x[j] = [f[j] EXCEPT !.held = x[j].held] /\ \A k \in Places : At(x[j].held, k) <= At(f[j].held, k)
    <3>1. CASE j = i
      <4>1. x[j] = r
        BY <2>10, <3>1
      <4>2. x[j].held = g /\ f[j].held = h
        BY <2>8, <3>1, <4>1 DEF h
      <4>3. x[j] = [f[j] EXCEPT !.held = g]
        BY <3>1, <4>1
      <4> QED  BY <2>9, <4>2, <4>3
    <3>2. CASE j # i
      <4>1. x[j] = f[j]
        BY <2>10, <3>2
      <4> QED  BY <2>11, <4>1 DEF Pared
    <3> QED  BY <3>1, <3>2
  <2>13. Pared(f, x)
    BY <2>10, <2>12 DEF Pared
  <2> QED  BY <2>5, <2>13 DEF x
<1> QED  BY <1>1, <1>2

LEMMA ShavedPared ==
    ASSUME NEW f \in RowFiles, NEW d \in Members
    PROVE  Pared(f, Shaved(f, d))
<1> DEFINE ids == {id \in DOMAIN f : f[id].insured /\ Live(f[id]) /\ f[id].debtor = d}
           g == Restrict(f, ids)
           held == AllHeld(g)
           n == Minus(HeldAmount(held), Cut(held.edges, held.supply, {d}))
           V == {x \in RowFiles : Pared(f, x)}
           G == [k \in 1..n |-> [x \in V |-> Trimmed(x, ids)]]
           Eq(z) == z = [s \in SUBSET (1..n) |-> IF s = {} THEN f ELSE Trimmed(z[s \ {Max(s)}], ids)]
           it == CHOOSE z : Eq(z)
<1>1. ids \in SUBSET DOMAIN f
  OBVIOUS
<1>2. Shaved(f, d) = FoldLeft(LAMBDA x, k : Trimmed(x, ids), f, [k \in 1..n |-> k])
  BY DEF Shaved, AllHeld
<1> HIDE DEF ids
<1>3. n \in Nat
  <2>1. IsFiniteSet(ids) /\ g \in [ids -> RowSet]
    BY <1>1, FileTypes, FS_Subset DEF Restrict
  <2> HIDE DEF g
  <2>2. held \in HoldSet
    BY <2>1, AllHeldIs
  <2> HIDE DEF held
  <2>3. HeldAmount(held) \in Nat
    BY <2>2, HeldAmountType
  <2>4. Cut(held.edges, held.supply, {d}) \in Nat
    <3>1. held.edges \in [Arcs -> Nat] /\ held.supply \in [Members -> Nat] /\ {d} \in SUBSET Members
      BY <2>2 DEF HoldSet
    <3> QED  BY <3>1, CutIsNatural
  <2> QED  BY <2>3, <2>4, MinusIsNatural
<1> HIDE DEF n
<1>4. f \in V
  BY ParedSelf
<1>5. ASSUME NEW x \in V
      PROVE  Trimmed(x, ids) \in V
  <2> DEFINE y == Trimmed(x, ids)
  <2>1. x \in RowFiles /\ Pared(f, x) /\ ids \in SUBSET DOMAIN x
    BY <1>1 DEF Pared
  <2>2. Pared(x, y)
    BY <2>1, TrimmedPared
  <2> HIDE DEF y
  <2>3. Pared(f, y)
    BY <2>1, <2>2, ParedTwice
  <2>4. y \in V
    BY <2>3 DEF Pared
  <2> QED  BY <2>4 DEF y
<1>6. G \in [1..n -> [V -> V]]
  <2> HIDE DEF V
  <2> QED  BY <1>5
<1>7. PICK z \in [SUBSET (1..n) -> V] : Folds(z, f, G, n)
  <2> HIDE DEF G, V
  <2> QED  BY <1>3, <1>4, <1>6, FoldExists
<1>8. ASSUME NEW s \in SUBSET (1..n), s # {}
      PROVE  Max(s) \in 1..n /\ s \ {Max(s)} \in SUBSET (1..n)
  BY <1>3, <1>8, TopIsIn DEF Picks, Tops
<1>9. Eq(z)
  <2>1. \A s \in SUBSET (1..n) : z[s] = IF s = {} THEN f ELSE Trimmed(z[s \ {Max(s)}], ids)
    BY <1>7, <1>8 DEF Folds
  <2> HIDE DEF V
  <2> QED  BY <1>7, <2>1
<1>10. Eq(it)
  <2> HIDE DEF Eq
  <2> QED  BY <1>9
<1>11. Shaved(f, d) = it[1..n]
  <2> DEFINE q == [k \in 1..n |-> k]
  <2>1. DOMAIN q = 1..n
    OBVIOUS
  <2> QED  BY <1>2, <2>1 DEF FoldLeft, MapThenFoldSet
<1>12. Iterates(it, f, G, n, V)
  <2> HIDE DEF it, V
  <2> QED  BY <1>8, <1>10 DEF Iterates
<1>13. it[1..n] \in V
  <2> HIDE DEF it, G, V
  <2> QED  BY <1>3, <1>4, <1>6, <1>12, FoldStays
<1> HIDE DEF it
<1> QED  BY <1>11, <1>13

LEMMA AllShavedPared ==
    ASSUME NEW f \in RowFiles
    PROVE  Pared(f, FoldLeft(Shaved, f, Ascending(Members)))
<1> DEFINE n == Cardinality(Members)
           ds == Ascending(Members)
           V == {x \in RowFiles : Pared(f, x)}
           G == [k \in 1..n |-> [x \in V |-> Shaved(x, ds[k])]]
           Eq(z) == z = [s \in SUBSET (1..n) |-> IF s = {} THEN f ELSE Shaved(z[s \ {Max(s)}], ds[Max(s)])]
           it == CHOOSE z : Eq(z)
<1>1. n \in Nat /\ ds \in [1..n -> Members]
  BY MembersAssumption, AscendingLists
<1> HIDE DEF n, ds
<1>2. f \in V
  BY ParedSelf
<1>3. ASSUME NEW x \in V, NEW d \in Members
      PROVE  Shaved(x, d) \in V
  <2> DEFINE y == Shaved(x, d)
  <2>1. x \in RowFiles /\ Pared(f, x)
    OBVIOUS
  <2>2. Pared(x, y)
    BY <2>1, ShavedPared
  <2> HIDE DEF y
  <2>3. Pared(f, y)
    BY <2>1, <2>2, ParedTwice
  <2>4. y \in V
    BY <2>3 DEF Pared
  <2> QED  BY <2>4 DEF y
<1>4. G \in [1..n -> [V -> V]]
  <2> HIDE DEF V
  <2> QED  BY <1>1, <1>3
<1>5. PICK z \in [SUBSET (1..n) -> V] : Folds(z, f, G, n)
  <2> HIDE DEF G, V
  <2> QED  BY <1>1, <1>2, <1>4, FoldExists
<1>6. ASSUME NEW s \in SUBSET (1..n), s # {}
      PROVE  Max(s) \in 1..n /\ s \ {Max(s)} \in SUBSET (1..n)
  BY <1>1, <1>6, TopIsIn DEF Picks, Tops
<1>7. Eq(z)
  <2>1. \A s \in SUBSET (1..n) : z[s] = IF s = {} THEN f ELSE Shaved(z[s \ {Max(s)}], ds[Max(s)])
    BY <1>5, <1>6 DEF Folds
  <2> HIDE DEF V
  <2> QED  BY <1>5, <2>1
<1>8. Eq(it)
  <2> HIDE DEF Eq
  <2> QED  BY <1>7
<1>9. FoldLeft(Shaved, f, Ascending(Members)) = it[1..n]
  <2>1. DOMAIN ds = 1..n
    BY <1>1
  <2>2. FoldLeft(Shaved, f, Ascending(Members)) = FoldLeft(Shaved, f, ds)
    BY DEF ds
  <2> QED  BY <2>1, <2>2 DEF FoldLeft, MapThenFoldSet
<1>10. Iterates(it, f, G, n, V)
  <2> HIDE DEF it, V
  <2> QED  BY <1>6, <1>8 DEF Iterates
<1>11. it[1..n] \in V
  <2> HIDE DEF it, G, V
  <2> QED  BY <1>1, <1>2, <1>4, <1>10, FoldStays
<1> HIDE DEF it
<1> QED  BY <1>9, <1>11

-----------------------------------------------------------------------------
(* The rows of a re-denominated book *)

LEMMA FlooredHoldIs ==
    ASSUME NEW h \in HoldSet, NEW pi \in Scale
    PROVE  /\ FlooredHold(h, pi) \in HoldSet
           /\ \A k \in Places : At(FlooredHold(h, pi), k) = Floored(At(h, k), pi)
<1>1. \A a \in Arcs : h.edges[a] \in Nat
  BY DEF HoldSet
<1>2. \A u \in Members : h.supply[u] \in Nat
  BY DEF HoldSet
<1>3. FlooredHold(h, pi) \in HoldSet
  <2>1. \A a \in Arcs : Floored(h.edges[a], pi) \in Nat
    BY <1>1, FloorType
  <2>2. \A u \in Members : Floored(h.supply[u], pi) \in Nat
    BY <1>2, FloorType
  <2> QED  BY <2>1, <2>2 DEF FlooredHold, HoldSet
<1>4. \A k \in Places : At(FlooredHold(h, pi), k) = Floored(At(h, k), pi)
  BY PlaceKinds DEF FlooredHold, At
<1> QED  BY <1>3, <1>4

\* The floors of what each supplies are at most the floor of the whole.
LEMMA FlooredAmount ==
    ASSUME NEW h \in HoldSet, NEW x \in HoldSet, NEW pi \in Scale,
           \A k \in Places : At(x, k) <= Floored(At(h, k), pi)
    PROVE  HeldAmount(x) <= Floored(HeldAmount(h), pi)
<1> DEFINE f == h.supply
           g == x.supply
<1>1. f \in [Members -> Nat] /\ g \in [Members -> Nat]
  BY DEF HoldSet
<1>2. \A u \in Members : g[u] <= Floored(f[u], pi)
  <2> SUFFICES ASSUME NEW u \in Members
               PROVE  g[u] <= Floored(f[u], pi)
    OBVIOUS
  <2> DEFINE k == <<"supply", u>>
  <2>1. k \in Places /\ At(x, k) = g[u] /\ At(h, k) = f[u]
    BY PlaceOf, AtSupply
  <2> HIDE DEF k, f, g
  <2> QED  BY <2>1
<1>3. HeldAmount(x) = Sum(g) /\ HeldAmount(h) = Sum(f)
  BY DEF HeldAmount
<1> HIDE DEF f, g
<1>4. Sum(g) = SumFunctionOnSet(g, Members) /\ Sum(f) = SumFunctionOnSet(f, Members)
  BY <1>1, SumIs
<1>5. Weighs(f, Members) /\ Weighs(g, Members)
  BY <1>1 DEF Weighs
<1>6. SumFunctionOnSet(g, Members) <= Floored(SumFunctionOnSet(f, Members), pi)
  BY <1>2, <1>5, MembersAssumption, FloorOfSum
<1> QED  BY <1>3, <1>4, <1>6

LEMMA RescaledTermsType ==
    ASSUME NEW t \in Terms \cup {NoTerms}, NEW pi \in Scale
    PROVE  RescaledTerms(t, pi) \in Terms \cup {NoTerms}
<1>1. CASE t = NoTerms
  BY <1>1 DEF RescaledTerms
<1>2. CASE t # NoTerms
  <2> DEFINE cap == Floored(t.cap, pi)
             votes == [a \in DOMAIN t.votes |-> Floored(t.votes[a], pi)]
             s == [t EXCEPT !.cap = cap, !.votes = votes]
  <2>1. t \in Terms /\ t.cap \in Nat /\ t.votes \in Votes
    BY <1>2 DEF Terms
  <2>2. cap \in Nat
    BY <2>1, FloorType
  <2>3. votes \in Votes
    <3>1. PICK A \in SUBSET Members : t.votes \in [A -> Nat]
      BY <2>1 DEF Votes
    <3>2. \A a \in A : Floored(t.votes[a], pi) \in Nat
      BY <3>1, FloorType
    <3>3. votes \in [A -> Nat]
      BY <3>1, <3>2
    <3> QED  BY <3>3 DEF Votes
  <2>4. RescaledTerms(t, pi) = s
    BY <1>2, <2>1 DEF RescaledTerms, Terms
  <2> HIDE DEF cap, votes
  <2>5. s \in Terms
    BY <2>1, <2>2, <2>3 DEF Terms
  <2> QED  BY <2>4, <2>5
<1> QED  BY <1>1, <1>2

FlooredRow(c, pi) ==
    [c EXCEPT !.outstanding = Floored(@, pi), !.original = Floored(@, pi),
              !.held = FlooredHold(@, pi), !.arb = RescaledTerms(@, pi)]

LEMMA FlooredRowIs ==
    ASSUME NEW c \in RowSet, NEW pi \in Scale
    PROVE  LET r == FlooredRow(c, pi)
           IN /\ r \in RowSet
              /\ r.outstanding = Floored(c.outstanding, pi) /\ r.original = Floored(c.original, pi)
              /\ r.held = FlooredHold(c.held, pi)
              /\ r.debtor = c.debtor /\ r.creditor = c.creditor /\ r.status = c.status
              /\ r.maturity = c.maturity /\ r.insured = c.insured
<1> DEFINE o == Floored(c.outstanding, pi)
           g == Floored(c.original, pi)
           h == FlooredHold(c.held, pi)
           t == RescaledTerms(c.arb, pi)
           r == [c EXCEPT !.outstanding = o, !.original = g, !.held = h, !.arb = t]
<1>1. o \in Nat /\ g \in Nat
  BY FloorType DEF RowSet
<1>2. h \in HoldSet
  BY FlooredHoldIs DEF RowSet
<1>3. t \in Terms \cup {NoTerms}
  BY RescaledTermsType DEF RowSet
<1>4. FlooredRow(c, pi) = r
  BY DEF FlooredRow, RowSet
<1> HIDE DEF o, g, h, t
<1>5. /\ r \in RowSet /\ r.outstanding = o /\ r.original = g /\ r.held = h
      /\ r.debtor = c.debtor /\ r.creditor = c.creditor /\ r.status = c.status
      /\ r.maturity = c.maturity /\ r.insured = c.insured
  BY <1>1, <1>2, <1>3 DEF RowSet
<1> QED  BY <1>4, <1>5 DEF o, g, h

\* A claim is read back from what it still holds: no more than the floor of
\* what it was, of what is owed and of every place.
LEMMA RereadIs ==
    ASSUME NEW c \in RowSet, RowSound(c), c.outstanding <= c.original, NEW pi \in Scale,
           NEW x \in RowSet, x = [FlooredRow(c, pi) EXCEPT !.held = x.held],
           \A k \in Places : At(x.held, k) <= Floored(At(c.held, k), pi)
    PROVE  LET r == Reread(x)
           IN /\ r \in RowSet /\ RowSound(r) /\ r.outstanding <= r.original
              /\ r.outstanding <= Floored(c.outstanding, pi)
              /\ r.debtor = c.debtor /\ r.status = c.status /\ r.maturity = c.maturity
              /\ \A k \in Places : At(r.held, k) <= Floored(At(c.held, k), pi)
<1> DEFINE r == Reread(x)
           h == x.held
           fo == Floored(c.outstanding, pi)
           fg == Floored(c.original, pi)
           live == Live(c) /\ c.insured
<1>1. /\ c.held \in HoldSet /\ h \in HoldSet /\ c.outstanding \in Nat /\ c.original \in Nat
      /\ c.debtor \in Members /\ c.insured \in BOOLEAN
  BY DEF RowSet
<1>2. /\ x.outstanding = fo /\ x.original = fg /\ x.debtor = c.debtor /\ x.creditor = c.creditor
      /\ x.status = c.status /\ x.maturity = c.maturity /\ x.insured = c.insured
  <2> DEFINE y == FlooredRow(c, pi)
  <2>1. /\ y \in RowSet /\ y.outstanding = fo /\ y.original = fg /\ y.debtor = c.debtor
        /\ y.creditor = c.creditor /\ y.status = c.status /\ y.maturity = c.maturity
        /\ y.insured = c.insured
    BY FlooredRowIs
  <2>2. x = [y EXCEPT !.held = h]
    OBVIOUS
  <2> HIDE DEF y, fo, fg, h
  <2> QED  BY <2>1, <2>2 DEF RowSet
<1>3. fo \in Nat /\ fg \in Nat /\ fo <= fg
  BY <1>1, FloorType, FloorGrows
<1>4. HeldAmount(h) <= Floored(HeldAmount(c.held), pi) /\ HeldAmount(h) \in Nat
  BY <1>1, FlooredAmount, HeldAmountType
<1>5. ASSUME NEW k \in Places
      PROVE  At(Nothing, k) <= Floored(At(c.held, k), pi)
  <2>1. At(c.held, k) \in Nat
    BY <1>1, AtType
  <2>2. At(Nothing, k) = 0 /\ Floored(At(c.held, k), pi) \in Nat
    BY <2>1, FloorType, NothingAt
  <2> QED  BY <2>2
<1>6. c.held = Nothing => h = Nothing
  <2> SUFFICES ASSUME c.held = Nothing, NEW k \in Places
               PROVE  At(h, k) = At(Nothing, k)
    BY <1>1, NothingType, HoldsEqual
  <2>1. Floored(0, pi) = 0
    BY FloorType
  <2>2. At(h, k) <= 0 /\ At(Nothing, k) = 0
    BY <2>1, NothingAt
  <2>3. At(h, k) \in Nat
    BY <1>1, AtType
  <2> QED  BY <2>2, <2>3
<1>7. h.supply[c.debtor] = 0
  <2> DEFINE k == <<"supply", c.debtor>>
             v == h.supply[c.debtor]
  <2>1. k \in Places /\ At(h, k) = v /\ At(c.held, k) = c.held.supply[c.debtor]
    BY <1>1, PlaceOf, AtSupply
  <2>2. c.held.supply[c.debtor] = 0
    BY DEF RowSound
  <2>3. Floored(0, pi) = 0
    BY FloorType
  <2>4. v <= 0 /\ v \in Nat
    <3>1. At(h, k) \in Nat
      BY <1>1, <2>1, AtType
    <3>2. At(h, k) <= Floored(At(c.held, k), pi)
      BY <2>1
    <3> HIDE DEF k, h, v
    <3> QED  BY <2>1, <2>2, <2>3, <3>1, <3>2
  <2> QED  BY <2>4
<1>8. c.debtor # c.creditor
  BY DEF RowSound
<1>9. CASE ~live
  <2>1. r = x
    BY <1>2, <1>9 DEF Reread, Live
  <2>2. HeldAmount(c.held) = 0 /\ c.held = Nothing
    BY <1>9 DEF RowSound
  <2>3. h = Nothing /\ HeldAmount(h) = 0
    BY <1>6, <2>2, NothingHeld
  <2>4. ~Live(c) => fo = 0
    <3>1. ~Live(c) => c.outstanding = 0
      BY DEF RowSound
    <3>2. Floored(0, pi) = 0
      BY FloorType
    <3> QED  BY <3>1, <3>2
  <2>5. Live(x) <=> Live(c)
    BY <1>2 DEF Live
  <2> HIDE DEF fo, fg, r
  <2>6. RowSound(x)
    BY <1>2, <1>7, <1>8, <1>9, <2>3, <2>4, <2>5 DEF RowSound
  <2> QED  BY <1>2, <1>3, <2>1, <2>6 DEF r, fo
<1>10. CASE live /\ HeldAmount(h) = 0
  <2> DEFINE y == [x EXCEPT !.insured = FALSE, !.held = Nothing]
  <2>1. r = y
    BY <1>2, <1>10 DEF Reread, Live
  <2>2. /\ y \in RowSet /\ y.held = Nothing /\ y.insured = FALSE /\ y.outstanding = fo
        /\ y.original = fg /\ y.debtor = c.debtor /\ y.creditor = c.creditor /\ y.status = c.status
        /\ y.maturity = c.maturity
    <3> HIDE DEF fo, fg
    <3> QED  BY <1>2, NothingType DEF RowSet
  <2> HIDE DEF y, fo, fg, r
  <2>3. Live(y) /\ Nothing.supply[c.debtor] = 0 /\ HeldAmount(Nothing) = 0
    BY <1>1, <1>10, <2>2, NothingHeld DEF Live
  <2>4. RowSound(y)
    BY <1>8, <2>2, <2>3 DEF RowSound
  <2> QED  BY <1>3, <1>5, <2>1, <2>2, <2>4 DEF r, fo
<1>11. CASE live /\ HeldAmount(h) # 0
  <2> DEFINE n == HeldAmount(h)
             y == [x EXCEPT !.outstanding = n]
  <2>1. r = y
    BY <1>2, <1>11 DEF Reread, Live
  <2>2. n \in Nat /\ n <= fo
    <3>1. HeldAmount(c.held) = c.outstanding
      BY <1>11 DEF RowSound
    <3> QED  BY <1>4, <3>1
  <2> HIDE DEF n
  <2>3. /\ y \in RowSet /\ y.held = h /\ y.insured = TRUE /\ y.outstanding = n
        /\ y.original = fg /\ y.debtor = c.debtor /\ y.creditor = c.creditor /\ y.status = c.status
        /\ y.maturity = c.maturity
    <3>1. x.insured = TRUE
      BY <1>1, <1>2, <1>11
    <3> HIDE DEF fo, fg
    <3> QED  BY <1>2, <2>2, <3>1 DEF RowSet
  <2> HIDE DEF y, fo, fg, r
  <2>4. Live(y) /\ HeldAmount(y.held) = n /\ n # 0
    BY <1>11, <2>3 DEF Live, n
  <2> HIDE DEF h
  <2>5. RowSound(y)
    BY <1>7, <1>8, <2>3, <2>4 DEF RowSound
  <2>6. n <= fg
    BY <1>3, <2>2
  <2> QED  BY <2>1, <2>2, <2>3, <2>5, <2>6 DEF r, fo, h
<1> QED  BY <1>9, <1>10, <1>11

\* A sum over the rows that count for m is the sum over all of them.
LEMMA CountedIs ==
    ASSUME NEW b \in BookSet, NEW m, NEW T, NEW R \in SUBSET DOMAIN b.rows,
           \A i \in R : Weight(b.rows[i], m, T) = b.rows[i].outstanding,
           \A i \in DOMAIN b.rows \ R : Weight(b.rows[i], m, T) = 0
    PROVE  Sum([i \in R |-> b.rows[i].outstanding]) = Tally(b, m, T)
<1> DEFINE f == b.rows
           S == DOMAIN f
           w == Owing(f, m, T)
           v == [id \in R |-> f[id].outstanding]
<1>1. IsFiniteSet(S) /\ \A i \in S : f[i] \in RowSet
  BY FileTypes DEF BookSet
<1>2. /\ \A i \in S : w[i] \in Nat
      /\ \A i \in R : w[i] = v[i]
      /\ \A i \in S \ R : w[i] = 0
  <2>1. \A i \in S : w[i] = Weight(f[i], m, T)
    BY DEF Owing
  <2>2. \A i \in R : v[i] = f[i].outstanding
    OBVIOUS
  <2> HIDE DEF w, v
  <2>3. \A i \in S : w[i] \in Nat
    BY <1>1, <2>1, WeightType
  <2> QED  BY <2>1, <2>2, <2>3
<1>3. DOMAIN v = R
  OBVIOUS
<1>4. Tally(b, m, T) = SumFunctionOnSet(w, S)
  BY DEF Tally
<1>10. R \in SUBSET S
  OBVIOUS
<1> HIDE DEF w, v, S, f
<1>5. IsFiniteSet(R)
  BY <1>1, <1>10, FS_Subset
<1>6. SumFunctionOnSet(w, S) = SumFunctionOnSet(w, R)
  BY <1>1, <1>2, <1>10, SumOnSupport
<1>7. SumFunctionOnSet(w, R) = SumFunctionOnSet(v, R)
  <2>1. \A i \in R : w[i] \in Nat /\ w[i] = v[i]
    BY <1>2, <1>10
  <2> QED  BY <1>5, <2>1, SumCongruent
<1>8. Sum(v) = SumFunctionOnSet(v, R)
  BY <1>3, SumIs
<1>9. Sum(v) = Tally(b, m, T)
  BY <1>4, <1>6, <1>7, <1>8
<1> QED  BY <1>9 DEF v, f

LEMMA CountedIsTally ==
    ASSUME NEW b \in BookSet, NEW m, NEW T, T \notin {"held", "claim"}, NEW R,
           R = {i \in DOMAIN b.rows : b.rows[i].debtor = m /\ b.rows[i].status \in Counting(T)}
    PROVE  Sum([i \in R |-> b.rows[i].outstanding]) = Tally(b, m, T)
<1>1. \A i \in R : Weight(b.rows[i], m, T) = b.rows[i].outstanding
  BY DEF Weight
<1>2. \A i \in DOMAIN b.rows \ R : Weight(b.rows[i], m, T) = 0
  BY DEF Weight
<1>3. R \in SUBSET DOMAIN b.rows
  OBVIOUS
<1> QED  BY <1>1, <1>2, <1>3, CountedIs

LEMMA ClaimsAreTally ==
    ASSUME NEW b \in BookSet, NEW m, NEW R,
           R = {i \in DOMAIN b.rows : b.rows[i].creditor = m /\ Live(b.rows[i])}
    PROVE  Sum([i \in R |-> b.rows[i].outstanding]) = Tally(b, m, "claim")
<1>1. \A i \in R : Weight(b.rows[i], m, "claim") = b.rows[i].outstanding
  BY DEF Weight
<1>2. \A i \in DOMAIN b.rows \ R : Weight(b.rows[i], m, "claim") = 0
  BY DEF Weight
<1>3. R \in SUBSET DOMAIN b.rows
  OBVIOUS
<1> QED  BY <1>1, <1>2, <1>3, CountedIs

\* What the re-denominated book is: each row floored, shaved and read back, the
\* debts and the reservations counted anew.
LEMMA RescaledRows ==
    ASSUME NEW b \in Books, RowsSound(b), NEW pi \in Scale
    PROVE  LET y == Rescaled(b, pi)
           IN /\ y.rows \in RowFiles /\ DOMAIN y.rows = DOMAIN b.rows
              /\ \A i \in DOMAIN b.rows :
                    LET r == y.rows[i]
                        c == b.rows[i]
                    IN /\ r \in RowSet /\ RowSound(r) /\ r.outstanding <= r.original
                       /\ r.outstanding <= Floored(c.outstanding, pi)
                       /\ r.debtor = c.debtor /\ r.status = c.status /\ r.maturity = c.maturity
                       /\ \A k \in Places : At(r.held, k) <= Floored(At(c.held, k), pi)
<1> DEFINE f == b.rows
           D == DOMAIN f
           cut == [id \in D |-> FlooredRow(f[id], pi)]
           shaved == FoldLeft(Shaved, cut, Ascending(Members))
           rows == [id \in D |-> Reread(shaved[id])]
<1>1. b \in BookSet /\ f \in RowFiles
  BY DEF Books, BookSet
<1>2. Rescaled(b, pi).rows = rows
  BY <1>1 DEF Rescaled, FlooredRow, BookSet
<1>3. IsFiniteSet(D) /\ D \in SUBSET Nat /\ \A i \in D : f[i] \in RowSet
  BY <1>1, FileTypes
<1>4. cut \in RowFiles /\ DOMAIN cut = D
  <2>1. \A i \in D : FlooredRow(f[i], pi) \in RowSet
    BY <1>3, FlooredRowIs
  <2>2. cut \in [D -> RowSet]
    BY <2>1
  <2> QED  BY <1>3, <2>2 DEF RowFiles
<1> HIDE DEF cut
<1>5. Pared(cut, shaved)
  BY <1>4, AllShavedPared
<1> HIDE DEF shaved
<1>6. ASSUME NEW i \in D
      PROVE  LET r == rows[i]
                 c == f[i]
             IN /\ r \in RowSet /\ RowSound(r) /\ r.outstanding <= r.original
                /\ r.outstanding <= Floored(c.outstanding, pi)
                /\ r.debtor = c.debtor /\ r.status = c.status /\ r.maturity = c.maturity
                /\ \A k \in Places : At(r.held, k) <= Floored(At(c.held, k), pi)
  <2> DEFINE c == f[i]
             x == shaved[i]
             z == cut[i]
  <2>1. c \in RowSet /\ RowSound(c) /\ c.outstanding <= c.original
    BY <1>1, <1>3 DEF Books, RowsSound
  <2>2. z = FlooredRow(c, pi)
    BY DEF cut
  <2>3. x \in RowSet /\ x = [z EXCEPT !.held = x.held] /\ \A k \in Places : At(x.held, k) <= At(z.held, k)
    <3>1. shaved \in RowFiles /\ i \in DOMAIN shaved
      BY <1>4, <1>5 DEF Pared
    <3> QED  BY <1>4, <1>5, <3>1, FileTypes DEF Pared
  <2>4. rows[i] = Reread(x)
    OBVIOUS
  <2> HIDE DEF c, x, z, rows
  <2>5. z.held = FlooredHold(c.held, pi)
    BY <2>1, <2>2, FlooredRowIs
  <2>6. \A k \in Places : At(x.held, k) <= Floored(At(c.held, k), pi)
    BY <2>1, <2>3, <2>5, FlooredHoldIs DEF RowSet
  <2>7. x = [FlooredRow(c, pi) EXCEPT !.held = x.held]
    BY <2>2, <2>3
  <2> DEFINE r == Reread(x)
  <2>8. /\ r \in RowSet /\ RowSound(r) /\ r.outstanding <= r.original
        /\ r.outstanding <= Floored(c.outstanding, pi)
        /\ r.debtor = c.debtor /\ r.status = c.status /\ r.maturity = c.maturity
        /\ \A k \in Places : At(r.held, k) <= Floored(At(c.held, k), pi)
    BY <2>1, <2>3, <2>6, <2>7, RereadIs
  <2> HIDE DEF r
  <2> QED  BY <2>4, <2>8 DEF r, c
<1>7. rows \in RowFiles /\ DOMAIN rows = D
  <2>1. rows \in [D -> RowSet]
    <3>1. \A i \in D : rows[i] \in RowSet
      BY <1>6
    <3> QED  BY <3>1
  <2> QED  BY <1>3, <2>1 DEF RowFiles
<1> HIDE DEF rows
<1> QED  BY <1>2, <1>6, <1>7

LEMMA RescaledIs ==
    ASSUME NEW b \in Books, RowsSound(b), NEW pi \in Scale
    PROVE  LET y == Rescaled(b, pi)
           IN /\ y \in Books /\ RowsSound(y)
              /\ \A m \in Members : y.debt[m] = Tally(y, m, "debt")
              /\ \A k \in Places : Booked(y, k) = Total(y, k)
              /\ y.edges = [a \in Arcs |-> Floored(b.edges[a], pi)]
<1> DEFINE y == Rescaled(b, pi)
           rows == y.rows
           D == DOMAIN rows
           held == AllHeld(rows)
           edges == [a \in Arcs |-> Floored(b.edges[a], pi)]
           counted(m) == {i \in D : Live(rows[i]) /\ rows[i].debtor = m}
           debt == [m \in Members |-> Sum([i \in counted(m) |-> rows[i].outstanding])]
           default == [m \in Members |-> Floored(b.default[m], pi)]
           agreed == [m \in Members |-> Floored(b.agreed[m], pi)]
           charged == [m \in Members |-> Floored(b.charged[m], pi)]
<1>1. b \in BookSet
  BY DEF Books
<1>2. /\ rows \in RowFiles /\ D = DOMAIN b.rows
      /\ \A i \in D : rows[i] \in RowSet /\ RowSound(rows[i]) /\ rows[i].outstanding <= rows[i].original
  BY RescaledRows
<1>3. y = [b EXCEPT !.rows = rows, !.edges = edges, !.reserved = held.edges, !.committed = held.supply,
                    !.debt = debt, !.default = default, !.agreed = agreed, !.charged = charged]
  BY <1>1 DEF Rescaled, AllHeld, BookSet
<1> HIDE DEF rows
<1>4. held \in HoldSet /\ \A k \in Places : At(held, k) = SumFunctionOnSet(HeldAtPlace(rows, k), D)
  <2>1. IsFiniteSet(D) /\ rows \in [D -> RowSet]
    BY <1>2, FileTypes
  <2> HIDE DEF D
  <2> QED  BY <2>1, AllHeldIs
<1> HIDE DEF held
<1>5. edges \in [Arcs -> Nat] /\ default \in Purses /\ agreed \in Purses /\ charged \in Purses
  <2>1. \A a \in Arcs : Floored(b.edges[a], pi) \in Nat
    BY <1>1, FloorType DEF BookSet
  <2>2. \A m \in Members : /\ Floored(b.default[m], pi) \in Nat /\ Floored(b.agreed[m], pi) \in Nat
                           /\ Floored(b.charged[m], pi) \in Nat
    BY <1>1, FloorType DEF BookSet, Purses
  <2> QED  BY <2>1, <2>2 DEF Purses
<1>6. debt \in Purses
  <2> SUFFICES ASSUME NEW m \in Members
               PROVE  Sum([i \in counted(m) |-> rows[i].outstanding]) \in Nat
    BY DEF Purses
  <2> DEFINE R == counted(m)
             v == [i \in R |-> rows[i].outstanding]
  <2>1. IsFiniteSet(D)
    BY <1>2, FileTypes
  <2>2. R \in SUBSET D
    OBVIOUS
  <2> HIDE DEF R
  <2>3. IsFiniteSet(R)
    BY <2>1, <2>2, FS_Subset
  <2>4. v \in [R -> Nat]
    BY <1>2, <2>2 DEF RowSet
  <2> HIDE DEF v
  <2>5. Sum(v) \in Nat
    BY <2>3, <2>4, SumIsInNat
  <2> QED  BY <2>5 DEF v, R
<1> DEFINE z == [b EXCEPT !.rows = rows, !.edges = edges, !.reserved = held.edges, !.committed = held.supply,
                          !.debt = debt, !.default = default, !.agreed = agreed, !.charged = charged]
<1>7. y = z
  BY <1>3
<1>8. held.edges \in [Arcs -> Nat] /\ held.supply \in Purses
  BY <1>4 DEF HoldSet, Purses
<1> HIDE DEF edges, debt, default, agreed, charged, y
<1>9. /\ z \in BookSet /\ z.rows = rows /\ z.next = b.next /\ z.edges = edges /\ z.debt = debt
      /\ z.reserved = held.edges /\ z.committed = held.supply
  BY <1>1, <1>2, <1>5, <1>6, <1>8 DEF BookSet
<1> HIDE DEF z
<1>10. y \in Books
  <2>1. /\ z.next >= 1
        /\ \A id \in DOMAIN z.rows : /\ 1 <= id /\ id < z.next
                                     /\ z.rows[id].outstanding <= z.rows[id].original
    BY <1>2, <1>9 DEF Books
  <2> QED  BY <1>7, <1>9, <2>1 DEF Books
<1>11. RowsSound(y)
  BY <1>2, <1>7, <1>9 DEF RowsSound
<1>12. ASSUME NEW m \in Members
       PROVE  y.debt[m] = Tally(y, m, "debt")
  <2> DEFINE R == counted(m)
  <2>1. y.debt[m] = Sum([i \in R |-> rows[i].outstanding])
    BY <1>7, <1>9 DEF debt
  <2>2. R = {i \in DOMAIN rows : rows[i].debtor = m /\ rows[i].status \in Counting("debt")}
    BY DEF Live, Counting
  <2> HIDE DEF R
  <2>3. Sum([i \in R |-> z.rows[i].outstanding]) = Tally(z, m, "debt")
    BY <1>9, <2>2, CountedIsTally
  <2> QED  BY <1>7, <1>9, <2>1, <2>3
<1>13. ASSUME NEW k \in Places
       PROVE  Booked(y, k) = Total(y, k)
  <2>1. Booked(y, k) = At(held, k)
    BY <1>7, <1>9, PlaceKinds DEF Booked, At
  <2>2. Owing(rows, k, "held") = HeldAtPlace(rows, k)
    BY DEF Owing, HeldAtPlace, Weight
  <2>3. Total(y, k) = SumFunctionOnSet(HeldAtPlace(rows, k), D)
    BY <1>7, <1>9, <2>2 DEF Total, Tally
  <2> QED  BY <1>4, <2>1, <2>3
<1>14. y.edges = edges
  BY <1>7, <1>9
<1> QED  BY <1>10, <1>11, <1>12, <1>13, <1>14 DEF y, edges

LEMMA RescaledGood ==
    ASSUME Good(book, epoch), Ready, unit.times \in Nat, unit.num \in Nat, unit.den \in Nat \ {0},
           NEW pi \in Scale, Redenominate(pi)
    PROVE  Good(book, epoch)'
<1> DEFINE b == book
           y == Rescaled(book, pi)
           D == DOMAIN book.rows
<1>1. b \in Books /\ b \in BookSet /\ RowsSound(b) /\ Filled(b) /\ \A i \in D : ~Due(b.rows[i], epoch)
  BY DEF Good, Sound, Books
<1>2. /\ book' = y /\ epoch' = epoch /\ supply' = [u \in Members |-> Floored(supply[u], pi)]
      /\ unit'.num = unit.num * pi[1] /\ unit'.den = unit.den * pi[2] /\ unit'.times = unit.times + 1
  BY DEF Redenominate
<1>3. /\ y \in Books /\ RowsSound(y)
      /\ \A m \in Members : y.debt[m] = Tally(y, m, "debt")
      /\ \A k \in Places : Booked(y, k) = Total(y, k)
      /\ y.edges = [a \in Arcs |-> Floored(b.edges[a], pi)]
  BY <1>1, RescaledIs
<1>4. /\ y.rows \in RowFiles /\ DOMAIN y.rows = D
      /\ \A i \in D : /\ y.rows[i] \in RowSet
                      /\ y.rows[i].outstanding <= Floored(b.rows[i].outstanding, pi)
                      /\ y.rows[i].status = b.rows[i].status /\ y.rows[i].maturity = b.rows[i].maturity
                      /\ \A k \in Places : At(y.rows[i].held, k) <= Floored(At(b.rows[i].held, k), pi)
  BY <1>1, RescaledRows
<1> HIDE DEF y
<1>5. unit'.times \in Nat /\ unit'.times # 0
  BY <1>2
<1>7. Covered(book)'
  BY <1>5 DEF Covered
<1>8. Balanced(book)'
  <2> SUFFICES ASSUME NEW T \in {"debt", "default"}, T = "default" => unit'.times = 0, NEW m \in Members
               PROVE  Cached(book', T)[m] = Tally(book', m, T)
    BY DEF Balanced, Kinds, Cached, Tally, Owing, Weight, Counting, At
  <2>1. T = "debt"
    BY <1>5
  <2> QED  BY <1>2, <1>3, <2>1 DEF Cached
<1>9. RowsSound(book)'
  BY <1>2, <1>3 DEF RowsSound
<1>10. Filled(book)'
  <2>1. ASSUME NEW k \in Places
        PROVE  Total(y, k) <= At([edges |-> y.edges, supply |-> supply'], k)
    <3> DEFINE f == Owing(b.rows, k, "held")
               h == Owing(y.rows, k, "held")
               s == SumFunctionOnSet(f, D)
               st == Stock(b, k)
               stock == At([edges |-> y.edges, supply |-> supply'], k)
    <3>1. IsFiniteSet(D) /\ \A i \in D : b.rows[i] \in RowSet
      BY <1>1, FileTypes DEF BookSet
    <3>2. /\ \A i \in D : f[i] = At(b.rows[i].held, k)
          /\ \A i \in D : h[i] = At(y.rows[i].held, k)
      BY <1>4 DEF Owing, Weight
    <3>3. Total(b, k) = s /\ Total(y, k) = SumFunctionOnSet(h, D)
      BY <1>4 DEF Total, Tally
    <3> HIDE DEF f, h
    <3>4. Weighs(f, D)
      <4>1. \A i \in D : f[i] \in Nat
        BY <3>1, <3>2, AtType DEF RowSet
      <4> QED  BY <4>1 DEF Weighs
    <3>5. Weighs(h, D)
      <4>1. \A i \in D : h[i] \in Nat
        BY <1>4, <3>2, AtType DEF RowSet
      <4> QED  BY <4>1 DEF Weighs
    <3>6. \A i \in D : h[i] <= Floored(f[i], pi)
      BY <1>4, <3>2
    <3>7. SumFunctionOnSet(h, D) <= Floored(s, pi)
      <4> HIDE DEF D
      <4> QED  BY <3>1, <3>4, <3>5, <3>6, FloorOfSum
    <3>8. s \in Nat /\ SumFunctionOnSet(h, D) \in Nat
      <4> HIDE DEF D
      <4> QED  BY <3>1, <3>4, <3>5, SumIsNatural DEF Weighs
    <3>9. st \in Nat /\ s <= st
      <4>1. st \in Nat
        BY <1>1, PlaceKinds DEF Stock, At, BookSet, Ready, Purses
      <4> QED  BY <1>1, <3>3, <4>1 DEF Filled
    <3>10. stock = Floored(st, pi)
      BY <1>2, <1>3, PlaceKinds DEF Stock, At
    <3> HIDE DEF s, st, stock, D
    <3>11. Floored(s, pi) <= Floored(st, pi) /\ Floored(s, pi) \in Nat /\ Floored(st, pi) \in Nat
      BY <3>8, <3>9, FloorGrows, FloorType
    <3>12. SumFunctionOnSet(h, D) <= stock
      BY <3>7, <3>8, <3>10, <3>11
    <3> QED  BY <3>3, <3>12 DEF stock
  <2>2. \A k \in Places : Booked(book', k) = Total(book', k)
    BY <1>2, <1>3
  <2>3. \A k \in Places : Total(book', k) <= At([edges |-> book'.edges, supply |-> supply'], k)
    BY <1>2, <2>1
  <2> QED  BY <2>2, <2>3 DEF Filled, Stock
<1>11. \A i \in DOMAIN book'.rows : ~Due(book.rows[i], epoch)'
  <2> SUFFICES ASSUME NEW i \in D
               PROVE  ~ /\ y.rows[i].status = "Active" /\ epoch > y.rows[i].maturity
                        /\ y.rows[i].outstanding > DustMinor'
    BY <1>2, <1>4 DEF Due
  <2> DEFINE c == b.rows[i]
             o == c.outstanding
             ro == y.rows[i].outstanding
  <2>1. ~(c.status = "Active" /\ epoch > c.maturity /\ o > DustMinor)
    BY <1>1 DEF Due
  <2>2. o \in Nat /\ ro \in Nat
    <3>1. c \in RowSet
      BY <1>1, FileTypes DEF BookSet
    <3> QED  BY <1>4, <3>1 DEF RowSet
  <2>3. DustMinor \in Nat /\ DustMinor = (Dust * unit.num) \div unit.den
    BY DEF Ready, DustMinor
  <2>4. ro <= Floored(o, pi) /\ y.rows[i].status = c.status /\ y.rows[i].maturity = c.maturity
    BY <1>4
  <2>5. DustMinor' = (Dust * (unit.num * pi[1])) \div (unit.den * pi[2])
    BY <1>2 DEF DustMinor
  <2>6. o <= DustMinor => ro <= DustMinor'
    <3> SUFFICES ASSUME o <= DustMinor
                 PROVE  ro <= DustMinor'
      OBVIOUS
    <3> DEFINE n == unit.num
               d == unit.den
               q == (Dust * (n * pi[1])) \div (d * pi[2])
    <3>1. n \in Nat /\ d \in Nat \ {0} /\ o <= (Dust * n) \div d
      BY <2>3
    <3>2. Floored(o, pi) <= q
      <4> HIDE DEF n, d, o
      <4> QED  BY <2>2, <3>1, DustFloored
    <3>3. Floored(o, pi) \in Nat
      <4> HIDE DEF o
      <4> QED  BY <2>2, FloorType
    <3>4. q \in Nat
      <4> DEFINE p1 == pi[1]
                 p2 == pi[2]
                 num == Dust * (n * p1)
                 den == d * p2
      <4>1. p1 \in Nat /\ p2 \in Nat \ {0}
        BY DEF Scale
      <4> HIDE DEF n, d, p1, p2
      <4>2. n * p1 \in Nat
        BY <3>1, <4>1, ProductIsNatural
      <4>3. num \in Nat /\ den \in Nat \ {0}
        <5>1. num \in Nat
          BY <4>2, LedgerAssumption, ProductIsNatural
        <5>2. den \in Nat \ {0}
          BY <3>1, <4>1, ProductIsNatural
        <5> QED  BY <5>1, <5>2
      <4> HIDE DEF num, den
      <4>4. num \div den \in Nat
        BY <4>3, QuotientIsNatural
      <4> QED  BY <4>4 DEF num, den, p1, p2
    <3>5. DustMinor' = q
      BY <2>5
    <3> HIDE DEF q, n, d, o, ro
    <3> QED  BY <2>2, <2>4, <3>2, <3>3, <3>4, <3>5
  <2>7. DustMinor' \in Int
    <3> DEFINE p1 == pi[1]
               p2 == pi[2]
    <3>1. p1 \in Nat /\ p2 \in Nat \ {0} /\ Dust \in Nat
      BY LedgerAssumption DEF Scale
    <3> HIDE DEF p1, p2
    <3>2. Dust * (unit.num * p1) \in Nat /\ unit.den * p2 \in Nat \ {0}
      BY <3>1, ProductIsNatural
    <3>3. (Dust * (unit.num * p1)) \div (unit.den * p2) \in Nat
      BY <3>2, QuotientIsNatural
    <3> QED  BY <2>5, <3>3 DEF p1, p2
  <2>8. CASE o <= DustMinor
    <3>1. ro <= DustMinor'
      BY <2>6, <2>8
    <3> HIDE DEF ro, o
    <3>2. ~(ro > DustMinor')
      BY <2>2, <2>7, <3>1
    <3> QED  BY <3>2 DEF ro
  <2>9. CASE ~(o <= DustMinor)
    <3>1. o > DustMinor
      BY <2>2, <2>3, <2>9
    <3> QED  BY <2>1, <2>4, <3>1
  <2> QED  BY <2>8, <2>9
<1>12. (book \in Books)'
  BY <1>2, <1>3
<1> QED  BY <1>7, <1>8, <1>9, <1>10, <1>11, <1>12 DEF Good, Sound

=============================================================================
