------------------------------- MODULE GateProofs -------------------------------
(***************************************************************************)
(* What the gate keeps for every instance: the replay record, the return   *)
(* of the bonds, the count of denials and the indifference of every bill   *)
(* to what a node's cache holds.                                           *)
(***************************************************************************)
EXTENDS Gate, Sums

-----------------------------------------------------------------------------
(* Sums, and the finite sets they are taken over *)

LEMMA SumIs ==
    ASSUME NEW f
    PROVE  Sum(f) = SumFunctionOnSet(f, DOMAIN f)
BY DEF Sum, FoldFunction, SumFunctionOnSet

LEMMA SumIsInNat ==
    ASSUME NEW S, IsFiniteSet(S), NEW f \in [S -> Nat]
    PROVE  Sum(f) \in Nat
BY SumIs, SumIsNatural

LEMMA FiniteTuples ==
    ASSUME NEW n \in Nat
    PROVE  IsFiniteSet([1..n -> Members])
<1> DEFINE P == {k \in Nat : IsFiniteSet([1..k -> Members])}
<1>1. 0 \in P
  <2> DEFINE e == [i \in 1..0 |-> 0]
  <2>1. 1..0 = {}
    OBVIOUS
  <2>2. [1..0 -> Members] = {e}
    BY <2>1
  <2> QED  BY <2>2, FS_Singleton
<1>2. ASSUME NEW k \in Nat, k \in P
      PROVE  k + 1 \in P
  <2> DEFINE pairs == [1..k -> Members] \X Members
             longer == [p \in pairs |-> [i \in 1..(k + 1) |-> IF i = k + 1 THEN p[2] ELSE p[1][i]]]
  <2>1. IsFiniteSet(pairs)
    BY <1>2, FS_Product, MembersAssumption
  <2>2. \A i \in 1..(k + 1) : i # k + 1 => i \in 1..k
    OBVIOUS
  <2>3. longer \in [pairs -> [1..(k + 1) -> Members]]
    <3> SUFFICES ASSUME NEW p \in pairs
                 PROVE  longer[p] \in [1..(k + 1) -> Members]
      OBVIOUS
    <3>1. p[1] \in [1..k -> Members] /\ p[2] \in Members
      OBVIOUS
    <3> QED  BY <2>2, <3>1
  <2>4. ASSUME NEW f \in [1..(k + 1) -> Members]
        PROVE  \E p \in pairs : longer[p] = f
    <3> DEFINE p == <<[i \in 1..k |-> f[i]], f[k + 1]>>
    <3>1. k + 1 \in 1..(k + 1) /\ \A i \in 1..k : i \in 1..(k + 1)
      OBVIOUS
    <3>2. p \in pairs
      BY <3>1
    <3>3. longer[p] = [i \in 1..(k + 1) |-> IF i = k + 1 THEN p[2] ELSE p[1][i]]
      BY <3>2
    <3>4. longer[p] = f
      BY <2>2, <3>1, <3>3
    <3> QED  BY <3>2, <3>4
  <2>5. longer \in Surjection(pairs, [1..(k + 1) -> Members])
    <3> HIDE DEF pairs, longer
    <3> QED  BY <2>3, <2>4 DEF Surjection
  <2>6. IsFiniteSet([1..(k + 1) -> Members])
    <3> HIDE DEF pairs, longer
    <3> QED  BY <2>1, <2>5, FS_Surjection
  <2> QED  BY <2>6
<1>3. Nat \subseteq P
  <2> HIDE DEF P
  <2> QED  BY <1>1, <1>2, NumberInduction
<1> QED  BY <1>3

\* What a seat may be held on: the routes to its sponsor, and the sponsor's own
\* supply.
Routes == Paths \cup {<<m>> : m \in Members}

LEMMA FiniteRoutes == IsFiniteSet(Routes)
<1> DEFINE N == Cardinality(Members)
           Lengths == {[1..n -> Members] : n \in 1..N}
<1>1. N \in Nat /\ IsFiniteSet(1..N)
  BY MembersAssumption, FS_CardinalityType, FS_Interval
<1>2. IsFiniteSet(Lengths)
  <2> DEFINE tuples == [n \in 1..N |-> [1..n -> Members]]
  <2>1. tuples \in Surjection(1..N, Lengths)
    BY DEF Surjection
  <2> HIDE DEF tuples, Lengths
  <2> QED  BY <1>1, <2>1, FS_Surjection
<1>3. \A T \in Lengths : IsFiniteSet(T)
  BY <1>1, FiniteTuples
<1>4. IsFiniteSet(UNION Lengths)
  <2> HIDE DEF Lengths
  <2> QED  BY <1>2, <1>3, FS_UNION
<1>5. Paths \subseteq UNION Lengths
  BY <1>1 DEF Paths
<1>6. {<<m>> : m \in Members} \subseteq UNION Lengths
  <2> SUFFICES ASSUME NEW m \in Members
               PROVE  <<m>> \in UNION Lengths
    OBVIOUS
  <2>1. N # 0
    BY MembersAssumption, FS_EmptySet
  <2>2. 1 \in 1..N /\ <<m>> \in [1..1 -> Members]
    BY <1>1, <2>1
  <2> QED  BY <2>2
<1>7. Routes \subseteq UNION Lengths
  BY <1>5, <1>6 DEF Routes
<1> QED  BY <1>4, <1>7, FS_Subset

LEMMA FiniteArcs == IsFiniteSet(Arcs)
BY MembersAssumption, FS_Product, FS_Subset DEF Arcs

Holds == UNION {[D -> Nat] : D \in SUBSET Routes}

LEMMA HoldDomain ==
    ASSUME NEW h \in Holds
    PROVE  h \in [DOMAIN h -> Nat] /\ DOMAIN h \subseteq Routes /\ IsFiniteSet(DOMAIN h)
<1>1. PICK D \in SUBSET Routes : h \in [D -> Nat]
  BY DEF Holds
<1> QED  BY <1>1, FiniteRoutes, FS_Subset

LEMMA HoldTakesNatural ==
    ASSUME NEW h \in Holds, NEW a, NEW u
    PROVE  HeldOn(h, a) \in Nat /\ Drawn(h, u) \in Nat
<1>1. ASSUME NEW D \in SUBSET DOMAIN h
      PROVE  Sum(Restrict(h, D)) \in Nat
  <2>1. Restrict(h, D) \in [D -> Nat] /\ IsFiniteSet(D)
    BY HoldDomain, FS_Subset DEF Restrict
  <2> QED  BY <2>1, SumIsInNat
<1> QED  BY <1>1 DEF HeldOn, Drawn, From

LEMMA NoHoldTakesNothing ==
    /\ NoHold \in Holds
    /\ \A a : HeldOn(NoHold, a) = 0 /\ Drawn(NoHold, a) = 0
<1>1. NoHold \in [{} -> Nat] /\ DOMAIN NoHold = {}
  BY DEF NoHold
<1>2. NoHold \in Holds
  BY <1>1 DEF Holds
<1>3. ASSUME NEW D, D \subseteq {}
      PROVE  Sum(Restrict(NoHold, D)) = 0
  <2>1. DOMAIN Restrict(NoHold, D) = {}
    BY <1>3 DEF Restrict
  <2> QED  BY <2>1, SumIs, SumOfNothing
<1>4. ASSUME NEW a
      PROVE  HeldOn(NoHold, a) = 0 /\ Drawn(NoHold, a) = 0
  BY <1>1, <1>3 DEF HeldOn, Drawn, From
<1> QED  BY <1>2, <1>4

LEMMA FlowsAreHolds ==
    ASSUME NEW R \in SUBSET Routes, NEW weight, NEW supply, NEW x \in Nat
    PROVE  Flows(R, weight, supply, x) \subseteq Holds
<1> SUFFICES ASSUME NEW h \in Flows(R, weight, supply, x)
             PROVE  h \in Holds
  OBVIOUS
<1> DEFINE open == {p \in R : /\ supply[p[1]] > 0
                              /\ \A a \in Arcs : Crosses(p, a) => weight[a] > 0}
<1>1. PICK f \in [open -> 0..x] : h = Positive(f)
  BY DEF Flows
<1>2. PICK D \in SUBSET open : h = [r \in D |-> f[r]]
  BY <1>1 DEF Positive, Restrict
<1>3. \A r \in D : f[r] \in Nat
  BY <1>1, <1>2
<1>4. h \in [D -> Nat] /\ D \in SUBSET Routes
  BY <1>2, <1>3
<1> QED  BY <1>4 DEF Holds

LEMMA SeatHoldsAreHolds ==
    ASSUME NEW g, NEW m \in Members
    PROVE  SeatHolds(g, m) \subseteq Holds
<1> DEFINE R == {p \in Paths : Last(p) = m} \cup {<<m>>}
<1>1. R \in SUBSET Routes
  BY DEF Routes
<1>2. Unit \in Nat
  BY GateAssumption
<1> HIDE DEF R
<1>3. Flows(R, SeatFree(g), SeatSupply(g), Unit) \subseteq Holds
  BY <1>1, <1>2, FlowsAreHolds
<1> QED  BY <1>3 DEF SeatHolds, R

-----------------------------------------------------------------------------
(* The seats of a run *)

Graph == [edges : [Arcs -> Nat], supply : [Members -> Nat],
          reserved : [Arcs -> Nat], committed : [Members -> Nat]]

LEMMA SeatTakenType ==
    ASSUME NEW g \in Graph, NEW h \in Holds
    PROVE  /\ SeatTaken(g, h) \in Graph
           /\ SeatTaken(g, h).edges = g.edges /\ SeatTaken(g, h).supply = g.supply
           /\ \A a \in Arcs : SeatTaken(g, h).reserved[a] = g.reserved[a] + HeldOn(h, a)
           /\ \A u \in Members : SeatTaken(g, h).committed[u] = g.committed[u] + Drawn(h, u)
<1> DEFINE r == [a \in Arcs |-> g.reserved[a] + HeldOn(h, a)]
           c == [u \in Members |-> g.committed[u] + Drawn(h, u)]
<1>1. r \in [Arcs -> Nat]
  <2>1. \A a \in Arcs : g.reserved[a] \in Nat /\ HeldOn(h, a) \in Nat
    BY HoldTakesNatural DEF Graph
  <2> QED  BY <2>1
<1>2. c \in [Members -> Nat]
  <2>1. \A u \in Members : g.committed[u] \in Nat /\ Drawn(h, u) \in Nat
    BY HoldTakesNatural DEF Graph
  <2> QED  BY <2>1
<1>3. SeatTaken(g, h) = [g EXCEPT !.reserved = r, !.committed = c]
  BY DEF SeatTaken
<1>4. /\ \A a \in Arcs : r[a] = g.reserved[a] + HeldOn(h, a)
      /\ \A u \in Members : c[u] = g.committed[u] + Drawn(h, u)
  OBVIOUS
<1> HIDE DEF r, c
<1>5. /\ SeatTaken(g, h) \in Graph
      /\ SeatTaken(g, h).edges = g.edges /\ SeatTaken(g, h).supply = g.supply
      /\ SeatTaken(g, h).reserved = r /\ SeatTaken(g, h).committed = c
  BY <1>1, <1>2, <1>3 DEF Graph
<1> QED  BY <1>4, <1>5

\* The seats of a run are taken one after the other.
OneByOne(t, g, q, n) ==
    /\ t[0] = g
    /\ \A k \in 1..n : t[k] = SeatTaken(t[k - 1], q[k])

LEMMA SeatsTakenOneByOne ==
    ASSUME NEW n \in Nat, NEW q \in [1..n -> Holds], NEW g \in Graph
    PROVE  \E t \in [0..n -> Graph] : OneByOne(t, g, q, n) /\ SeatsTaken(g, q) = t[n]
<1> DEFINE G == [k \in 1..n |-> [v \in Graph |-> SeatTaken(v, q[k])]]
           Eq(f) == f = [s \in SUBSET (1..n) |-> IF s = {} THEN g
                                               ELSE SeatTaken(f[s \ {Max(s)}], q[Max(s)])]
           it == CHOOSE f : Eq(f)
<1>1. G \in [1..n -> [Graph -> Graph]]
  BY SeatTakenType
<1>2. PICK f \in [SUBSET (1..n) -> Graph] : Folds(f, g, G, n)
  <2> HIDE DEF G
  <2> QED  BY <1>1, FoldExists
<1>4. ASSUME NEW s \in SUBSET (1..n)
      PROVE  f[s] = IF s = {} THEN g ELSE SeatTaken(f[s \ {Max(s)}], q[Max(s)])
  <2>1. s # {} => Max(s) \in 1..n /\ s \ {Max(s)} \in SUBSET (1..n)
    BY TopIsIn DEF Picks, Tops
  <2> QED  BY <1>2, <2>1 DEF Folds
<1>5. Eq(f)
  BY <1>2, <1>4
<1>6. Eq(it)
  <2> HIDE DEF Eq
  <2> QED  BY <1>5
<1>7. SeatsTaken(g, q) = it[1..n]
  BY DEF SeatsTaken, FoldLeft, MapThenFoldSet
<1> HIDE DEF it
<1> DEFINE t == [k \in 0..n |-> it[1..k]]
<1>8. t[0] = g
  BY <1>6
<1>9. ASSUME NEW k \in 1..n
      PROVE  t[k] = SeatTaken(t[k - 1], q[k])
  <2>1. 1..k \in SUBSET (1..n) /\ 1..k # {} /\ k \in 0..n /\ k - 1 \in 0..n
    BY <1>9
  <2>2. it[1..k] = SeatTaken(it[(1..k) \ {Max(1..k)}], q[Max(1..k)])
    BY <1>6, <2>1
  <2> QED  BY <1>9, <2>1, <2>2, TopIsIn
<1>10. t \in [0..n -> Graph]
  <2> DEFINE P == {k \in Nat : k <= n => t[k] \in Graph}
  <2>1. 0 \in P
    BY <1>8
  <2>2. ASSUME NEW k \in Nat, k \in P
        PROVE  k + 1 \in P
    <3>1. SUFFICES ASSUME k + 1 <= n
                   PROVE  t[k + 1] \in Graph
      OBVIOUS
    <3>2. k + 1 \in 1..n /\ (k + 1) - 1 = k /\ t[k] \in Graph
      BY <2>2, <3>1
    <3>3. t[k + 1] = SeatTaken(t[k], q[k + 1]) /\ q[k + 1] \in Holds
      BY <1>9, <3>2
    <3> HIDE DEF t
    <3> QED  BY <3>2, <3>3, SeatTakenType
  <2>3. Nat \subseteq P
    <3> HIDE DEF P
    <3> QED  BY <2>1, <2>2, NumberInduction
  <2>4. \A k \in 0..n : t[k] \in Graph
    <3> HIDE DEF t
    <3> QED  BY <2>3
  <2> QED  BY <2>4
<1>11. OneByOne(t, g, q, n)
  BY <1>8, <1>9 DEF OneByOne
<1>12. SeatsTaken(g, q) = t[n]
  BY <1>7
<1> QED  BY <1>10, <1>11, <1>12

LEMMA SeatRunsAreHolds ==
    ASSUME NEW m \in Members, NEW n \in Nat
    PROVE  SeatRuns(m, n) \subseteq [1..n -> Holds]
<1> DEFINE V == SUBSET Seq(Holds)
           longer(R) == {Append(r, h) : r \in R, h \in UNION {SeatHolds(SeatsTaken(graph, q), m) : q \in R}}
           follows(r) == Last(r) \in SeatHolds(SeatsTaken(graph, Front(r)), m)
           step(R) == {r \in longer(R) : follows(r)}
           G == [k \in 1..n |-> [R \in V |-> step(R)]]
           Eq(f) == f = [s \in SUBSET (1..n) |-> IF s = {} THEN {<<>>} ELSE step(f[s \ {Max(s)}])]
           it == CHOOSE f : Eq(f)
<1>1. ASSUME NEW R \in V, NEW r \in step(R)
      PROVE  \E q \in R : r \in Seq(Holds) /\ Len(r) = Len(q) + 1
  <2>1. PICK q \in R, h \in UNION {SeatHolds(SeatsTaken(graph, p), m) : p \in R} : r = Append(q, h)
    <3> HIDE DEF follows
    <3> QED  BY <1>1
  <2>2. h \in Holds
    BY SeatHoldsAreHolds
  <2>3. q \in Seq(Holds)
    OBVIOUS
  <2> QED  BY <2>1, <2>2, <2>3
<1> HIDE DEF step
<1>2. \A R \in V : step(R) \in V
  BY <1>1
<1>3. G \in [1..n -> [V -> V]] /\ {<<>>} \in V
  BY <1>2
<1>4. PICK f \in [SUBSET (1..n) -> V] : Folds(f, {<<>>}, G, n)
  <2> HIDE DEF V, G
  <2> QED  BY <1>3, FoldExists
<1>6. ASSUME NEW s \in SUBSET (1..n)
      PROVE  f[s] = IF s = {} THEN {<<>>} ELSE step(f[s \ {Max(s)}])
  <2>1. s # {} => Max(s) \in 1..n /\ s \ {Max(s)} \in SUBSET (1..n)
    BY TopIsIn DEF Picks, Tops
  <2> HIDE DEF V
  <2> QED  BY <1>4, <2>1 DEF Folds
<1>7. Eq(f)
  <2> HIDE DEF V
  <2> QED  BY <1>4, <1>6
<1>8. Eq(it)
  <2> HIDE DEF Eq
  <2> QED  BY <1>7
<1>9. SeatRuns(m, n) = it[1..n]
  BY DEF SeatRuns, FoldLeft, MapThenFoldSet, step
<1> HIDE DEF it
<1> DEFINE P == {k \in Nat : k <= n => it[1..k] \subseteq {q \in Seq(Holds) : Len(q) = k}}
<1>10. 0 \in P
  <2>1. it[1..0] = {<<>>}
    BY <1>8
  <2>2. <<>> \in Seq(Holds) /\ Len(<<>>) = 0
    OBVIOUS
  <2>3. it[1..0] \subseteq {q \in Seq(Holds) : Len(q) = 0}
    BY <2>1, <2>2
  <2> QED  BY <2>3
<1>11. ASSUME NEW k \in Nat, k \in P
       PROVE  k + 1 \in P
  <2>1. SUFFICES ASSUME k + 1 <= n
                 PROVE  it[1..(k + 1)] \subseteq {q \in Seq(Holds) : Len(q) = k + 1}
    OBVIOUS
  <2>2. k + 1 \in 1..n /\ (k + 1) - 1 = k /\ it[1..k] \subseteq {q \in Seq(Holds) : Len(q) = k}
    BY <1>11, <2>1
  <2>3. 1..(k + 1) \in SUBSET (1..n) /\ 1..(k + 1) # {}
    BY <2>2
  <2>4. it[1..(k + 1)] = step(it[(1..(k + 1)) \ {Max(1..(k + 1))}])
    BY <1>8, <2>3
  <2>5. it[1..(k + 1)] = step(it[1..k])
    BY <2>2, <2>4, TopIsIn
  <2>6. it[1..k] \in V
    BY <2>2
  <2> QED  BY <1>1, <2>2, <2>5, <2>6
<1>12. Nat \subseteq P
  <2> HIDE DEF P
  <2> QED  BY <1>10, <1>11, NumberInduction
<1>13. it[1..n] \subseteq {q \in Seq(Holds) : Len(q) = n}
  BY <1>12
<1> QED  BY <1>9, <1>13

-----------------------------------------------------------------------------
(* Rows *)

Statuses == {"None", "Active", "Suspended", "Exited", "Retired"}
Amounts == Nat \ {0}
Books == UNION {[D -> Amounts] : D \in {D \in SUBSET Nat : IsFiniteSet(D)}}
Seats == [sponsor : Members \cup {0}, held : Holds]

Row == [status : Statuses, debt : Nat, dflt : Nat, used : Nat, bonds : Books,
        denied : BOOLEAN, saturated : Nat, slot : BOOLEAN, seat : Seats]

Accounts == [Members -> Row]

\* What k boundaries do to the rows, k at least one.
Reset(a, k) ==
    [m \in Members |-> [a[m] EXCEPT !.saturated = IF k = 1 /\ a[m].denied THEN @ + 1 ELSE 0,
                                    !.denied = FALSE, !.used = 0]]

LEMMA CrossedType ==
    ASSUME NEW a \in Accounts
    PROVE  Crossed(a) \in Accounts
<1>1. ASSUME NEW r \in Row, NEW x \in Nat
      PROVE  [r EXCEPT !.saturated = x, !.denied = FALSE, !.used = 0] \in Row
  BY DEF Row
<1>2. ASSUME NEW m \in Members
      PROVE  a[m] \in Row /\ (IF a[m].denied THEN a[m].saturated + 1 ELSE 0) \in Nat
  BY DEF Accounts, Row
<1> QED  BY <1>1, <1>2 DEF Accounts, Crossed

\* What one boundary set, the next one sets again.
LEMMA ResetTwice ==
    ASSUME NEW a, NEW x, NEW y
    PROVE  [[a EXCEPT !.saturated = x, !.denied = FALSE, !.used = 0]
               EXCEPT !.saturated = y, !.denied = FALSE, !.used = 0]
             = [a EXCEPT !.saturated = y, !.denied = FALSE, !.used = 0]
OBVIOUS

LEMMA CrossedIsReset ==
    ASSUME NEW a \in Accounts, NEW k \in Nat \ {0}
    PROVE  /\ Crossed(a) = Reset(a, 1)
           /\ Crossed(Reset(a, k)) = Reset(a, k + 1)
<1>1. Crossed(a) = Reset(a, 1)
  BY DEF Crossed, Reset
<1>2. ASSUME NEW m \in Members
      PROVE  Crossed(Reset(a, k))[m] = Reset(a, k + 1)[m]
  <2> DEFINE x == IF k = 1 /\ a[m].denied THEN a[m].saturated + 1 ELSE 0
             r == [a[m] EXCEPT !.saturated = x, !.denied = FALSE, !.used = 0]
             s == [r EXCEPT !.saturated = IF r.denied THEN @ + 1 ELSE 0, !.denied = FALSE, !.used = 0]
             u == [a[m] EXCEPT !.saturated = IF k + 1 = 1 /\ a[m].denied THEN @ + 1 ELSE 0,
                               !.denied = FALSE, !.used = 0]
  <2>1. a[m] \in Row
    BY DEF Accounts
  <2>2. Reset(a, k)[m] = r /\ Reset(a, k + 1)[m] = u /\ Crossed(Reset(a, k))[m] = s
    BY DEF Crossed, Reset
  <2>3. r.denied = FALSE /\ k + 1 # 1
    BY <2>1 DEF Row
  <2>4. s = [r EXCEPT !.saturated = 0, !.denied = FALSE, !.used = 0]
    BY <2>3
  <2>5. u = [a[m] EXCEPT !.saturated = 0, !.denied = FALSE, !.used = 0]
    BY <2>3
  <2> HIDE DEF x
  <2>6. s = u
    BY <2>4, <2>5, ResetTwice
  <2> QED  BY <2>2, <2>6
<1> QED  BY <1>1, <1>2 DEF Crossed, Reset

LEMMA TimesCrossed ==
    ASSUME NEW a \in Accounts, NEW n \in Nat \ {0}
    PROVE  Times(Crossed, a, n) = Reset(a, n)
<1> DEFINE G == [k \in 1..n |-> [v \in Accounts |-> Crossed(v)]]
           Eq(f) == f = [s \in SUBSET (1..n) |-> IF s = {} THEN a ELSE Crossed(f[s \ {Max(s)}])]
           it == CHOOSE f : Eq(f)
<1>1. G \in [1..n -> [Accounts -> Accounts]]
  BY CrossedType
<1>2. PICK f \in [SUBSET (1..n) -> Accounts] : Folds(f, a, G, n)
  <2> HIDE DEF G
  <2> QED  BY <1>1, FoldExists
<1>3. ASSUME NEW s \in SUBSET (1..n)
      PROVE  f[s] = IF s = {} THEN a ELSE Crossed(f[s \ {Max(s)}])
  <2>1. s # {} => Max(s) \in 1..n /\ s \ {Max(s)} \in SUBSET (1..n)
    BY TopIsIn DEF Picks, Tops
  <2> QED  BY <1>2, <2>1 DEF Folds
<1>4. Eq(it)
  <2>1. Eq(f)
    BY <1>2, <1>3
  <2> HIDE DEF Eq
  <2> QED  BY <2>1
<1>5. Times(Crossed, a, n) = it[1..n]
  BY DEF Times, FoldLeft, MapThenFoldSet
<1> HIDE DEF it
<1> DEFINE P == {k \in Nat : k # 0 /\ k <= n => it[1..k] = Reset(a, k)}
<1>6. ASSUME NEW k \in Nat, k \in P
      PROVE  k + 1 \in P
  <2>1. SUFFICES ASSUME k + 1 <= n
                 PROVE  it[1..(k + 1)] = Reset(a, k + 1)
    OBVIOUS
  <2>2. k + 1 \in 1..n /\ (k + 1) - 1 = k /\ 1..(k + 1) \in SUBSET (1..n) /\ 1..(k + 1) # {}
    <3>1. k + 1 \in 1..n /\ (k + 1) - 1 = k /\ k + 1 \in 1..(k + 1)
      BY <2>1
    <3>2. \A i \in 1..(k + 1) : i \in 1..n
      BY <2>1
    <3> QED  BY <3>1, <3>2
  <2>3. it[1..(k + 1)] = Crossed(it[1..k])
    <3>1. it[1..(k + 1)] = Crossed(it[(1..(k + 1)) \ {Max(1..(k + 1))}])
      BY <1>4, <2>2
    <3> QED  BY <2>2, <3>1, TopIsIn
  <2>4. CASE k = 0
    <3>1. it[1..k] = a
      BY <1>4, <2>4
    <3> QED  BY <2>3, <2>4, <3>1, CrossedIsReset
  <2>5. CASE k # 0
    <3>1. it[1..k] = Reset(a, k)
      BY <1>6, <2>1, <2>5
    <3> QED  BY <2>3, <2>5, <3>1, CrossedIsReset
  <2> QED  BY <2>4, <2>5
<1>7. Nat \subseteq P
  <2>1. 0 \in P
    OBVIOUS
  <2> HIDE DEF P
  <2> QED  BY <1>6, <2>1, NumberInduction
<1>8. it[1..n] = Reset(a, n)
  BY <1>7
<1> QED  BY <1>5, <1>8

LEMMA FadedType ==
    ASSUME NEW g \in Graph
    PROVE  Faded(g) \in Graph /\ Faded(g) = [g EXCEPT !.edges = Faded(g).edges]
<1>1. ASSUME NEW w \in [Arcs -> Nat]
      PROVE  Decayed(w, [a \in Arcs |-> 0], DecayNum, DecayDen) \in [Arcs -> Nat]
  <2>1. ASSUME NEW a \in Arcs
        PROVE  (w[a] * DecayNum) \div DecayDen \in Nat
    <3>1. w[a] \in Nat /\ DecayNum \in Nat /\ DecayDen \in Nat \ {0}
      BY GateAssumption
    <3>2. w[a] * DecayNum \in Nat
      BY <3>1
    <3>3. \A x \in Nat, y \in Nat \ {0} : x \div y \in Nat
      OBVIOUS
    <3> QED  BY <3>1, <3>2, <3>3
  <2> QED  BY <2>1 DEF Decayed, More
<1> QED  BY <1>1 DEF Faded, Graph

LEMMA TimesFaded ==
    ASSUME NEW g \in Graph, NEW n \in Nat \ {0}
    PROVE  /\ Times(Faded, g, n) \in Graph
           /\ Times(Faded, g, n) = [g EXCEPT !.edges = Times(Faded, g, n).edges]
<1> DEFINE V == {v \in Graph : v = [g EXCEPT !.edges = v.edges]}
           G == [k \in 1..n |-> [v \in V |-> Faded(v)]]
           Eq(f) == f = [s \in SUBSET (1..n) |-> IF s = {} THEN g ELSE Faded(f[s \ {Max(s)}])]
           it == CHOOSE f : Eq(f)
<1>1. ASSUME NEW v \in V
      PROVE  Faded(v) \in V
  <2>1. Faded(v) \in Graph /\ Faded(v) = [v EXCEPT !.edges = Faded(v).edges]
    BY FadedType
  <2>2. v = [g EXCEPT !.edges = v.edges]
    OBVIOUS
  <2>3. ASSUME NEW e
        PROVE  [v EXCEPT !.edges = e] = [g EXCEPT !.edges = e]
    BY <2>2 DEF Graph
  <2> QED  BY <2>1, <2>3
<1>2. G \in [1..n -> [V -> V]] /\ g \in V
  <2>1. g = [g EXCEPT !.edges = g.edges]
    BY DEF Graph
  <2> HIDE DEF V
  <2>2. g \in V
    BY <2>1 DEF V
  <2> QED  BY <1>1, <2>2
<1>3. PICK f \in [SUBSET (1..n) -> V] : Folds(f, g, G, n)
  <2> HIDE DEF G, V
  <2> QED  BY <1>2, FoldExists
<1>4. ASSUME NEW s \in SUBSET (1..n)
      PROVE  f[s] = IF s = {} THEN g ELSE Faded(f[s \ {Max(s)}])
  <2>1. s # {} => Max(s) \in 1..n /\ s \ {Max(s)} \in SUBSET (1..n)
    BY TopIsIn DEF Picks, Tops
  <2> HIDE DEF V
  <2> QED  BY <1>3, <2>1 DEF Folds
<1>5. Eq(it)
  <2>1. Eq(f)
    <3> HIDE DEF V
    <3> QED  BY <1>3, <1>4
  <2> HIDE DEF Eq
  <2> QED  BY <2>1
<1>6. Times(Faded, g, n) = it[1..n]
  BY DEF Times, FoldLeft, MapThenFoldSet
<1> HIDE DEF it, V
<1> DEFINE P == {s \in SUBSET (1..n) : it[s] \in V}
<1>7. 1..n \in P
  <2> DEFINE Q == {k \in Nat : k <= n => 1..k \in P}
  <2>1. 0 \in Q
    BY <1>2, <1>5
  <2>2. ASSUME NEW k \in Nat, k \in Q
        PROVE  k + 1 \in Q
    <3>1. SUFFICES ASSUME k + 1 <= n
                   PROVE  1..(k + 1) \in P
      OBVIOUS
    <3>2. k + 1 \in 1..n /\ (k + 1) - 1 = k /\ k + 1 \in 1..(k + 1) /\ it[1..k] \in V
      BY <2>2, <3>1
    <3>3. \A i \in 1..(k + 1) : i \in 1..n
      BY <3>1
    <3>4. it[1..(k + 1)] = Faded(it[(1..(k + 1)) \ {Max(1..(k + 1))}])
      BY <1>5, <3>2, <3>3
    <3>5. it[1..(k + 1)] = Faded(it[1..k])
      BY <3>2, <3>4, TopIsIn
    <3>6. it[1..(k + 1)] \in V /\ 1..(k + 1) \in SUBSET (1..n)
      BY <1>1, <3>2, <3>3, <3>5
    <3> QED  BY <3>6
  <2>3. Nat \subseteq Q
    <3> HIDE DEF Q
    <3> QED  BY <2>1, <2>2, NumberInduction
  <2> QED  BY <2>3
<1> QED  BY <1>6, <1>7 DEF V

\* A retired row gives its seat back, the rows of one sweep one after the other.
Vacant(s, T) == [m \in Members |-> IF m \in T THEN NoHold ELSE s[m]]

OnArc(s, a) == SumFunctionOnSet([m \in Members |-> HeldOn(s[m], a)], Members)
OfSupply(s, u) == SumFunctionOnSet([m \in Members |-> Drawn(s[m], u)], Members)

\* The holds of the seats and what the graph says is held.
Agrees(g, s) ==
    /\ \A a \in Arcs : g.reserved[a] = OnArc(s, a)
    /\ \A u \in Members : g.committed[u] = OfSupply(s, u)

LEMMA OneSeatChanges ==
    ASSUME NEW s \in [Members -> Holds], NEW t \in [Members -> Holds], NEW m \in Members,
           AgreeOff(s, t, Members, m), NEW a, NEW u
    PROVE  /\ OnArc(t, a) + HeldOn(s[m], a) = OnArc(s, a) + HeldOn(t[m], a)
           /\ OfSupply(t, u) + Drawn(s[m], u) = OfSupply(s, u) + Drawn(t[m], u)
           /\ {OnArc(t, a), OnArc(s, a), OfSupply(t, u), OfSupply(s, u)} \subseteq Nat
<1> DEFINE f == [x \in Members |-> HeldOn(s[x], a)]
           h == [x \in Members |-> HeldOn(t[x], a)]
           p == [x \in Members |-> Drawn(s[x], u)]
           q == [x \in Members |-> Drawn(t[x], u)]
<1>1. Weighs(f, Members) /\ Weighs(h, Members) /\ Weighs(p, Members) /\ Weighs(q, Members)
  BY HoldTakesNatural DEF Weighs
<1>2. AgreeOff(f, h, Members, m) /\ AgreeOff(p, q, Members, m)
  BY DEF AgreeOff
<1>3. f[m] = HeldOn(s[m], a) /\ h[m] = HeldOn(t[m], a) /\ p[m] = Drawn(s[m], u) /\ q[m] = Drawn(t[m], u)
  OBVIOUS
<1>4. /\ OnArc(s, a) = SumFunctionOnSet(f, Members) /\ OnArc(t, a) = SumFunctionOnSet(h, Members)
      /\ OfSupply(s, u) = SumFunctionOnSet(p, Members) /\ OfSupply(t, u) = SumFunctionOnSet(q, Members)
  BY DEF OnArc, OfSupply
<1> HIDE DEF f, h, p, q
<1>5. SumFunctionOnSet(h, Members) + f[m] = SumFunctionOnSet(f, Members) + h[m]
  BY <1>1, <1>2, MembersAssumption, SumUpdate
<1>6. SumFunctionOnSet(q, Members) + p[m] = SumFunctionOnSet(p, Members) + q[m]
  BY <1>1, <1>2, MembersAssumption, SumUpdate
<1>7. /\ SumFunctionOnSet(f, Members) \in Nat /\ SumFunctionOnSet(h, Members) \in Nat
      /\ SumFunctionOnSet(p, Members) \in Nat /\ SumFunctionOnSet(q, Members) \in Nat
  BY <1>1, MembersAssumption, SumIsNatural DEF Weighs
<1> QED  BY <1>3, <1>4, <1>5, <1>6, <1>7

LEMMA SeatGivenType ==
    ASSUME NEW g \in Graph, NEW h \in Holds
    PROVE  /\ SeatGiven(g, h) \in Graph
           /\ SeatGiven(g, h).edges = g.edges /\ SeatGiven(g, h).supply = g.supply
           /\ \A a \in Arcs : SeatGiven(g, h).reserved[a] = Minus(g.reserved[a], HeldOn(h, a))
           /\ \A u \in Members : SeatGiven(g, h).committed[u] = Minus(g.committed[u], Drawn(h, u))
<1> DEFINE r == [a \in Arcs |-> Minus(g.reserved[a], HeldOn(h, a))]
           c == [u \in Members |-> Minus(g.committed[u], Drawn(h, u))]
<1>1. r \in [Arcs -> Nat]
  <2>1. \A a \in Arcs : g.reserved[a] \in Nat /\ HeldOn(h, a) \in Nat
    BY HoldTakesNatural DEF Graph
  <2> QED  BY <2>1 DEF Minus
<1>2. c \in [Members -> Nat]
  <2>1. \A u \in Members : g.committed[u] \in Nat /\ Drawn(h, u) \in Nat
    BY HoldTakesNatural DEF Graph
  <2> QED  BY <2>1 DEF Minus
<1>3. SeatGiven(g, h) = [g EXCEPT !.reserved = r, !.committed = c]
  BY DEF SeatGiven
<1>4. /\ \A a \in Arcs : r[a] = Minus(g.reserved[a], HeldOn(h, a))
      /\ \A u \in Members : c[u] = Minus(g.committed[u], Drawn(h, u))
  OBVIOUS
<1> HIDE DEF r, c
<1>5. /\ SeatGiven(g, h) \in Graph
      /\ SeatGiven(g, h).edges = g.edges /\ SeatGiven(g, h).supply = g.supply
      /\ SeatGiven(g, h).reserved = r /\ SeatGiven(g, h).committed = c
  BY <1>1, <1>2, <1>3 DEF Graph
<1> QED  BY <1>4, <1>5

\* One seat given back leaves the graph agreeing with the seats that remain.
LEMMA OneVacated ==
    ASSUME NEW g \in Graph, NEW s \in [Members -> Holds], NEW T \in SUBSET Members,
           NEW m \in Members \ T, Agrees(g, Vacant(s, T))
    PROVE  Agrees(SeatGiven(g, s[m]), Vacant(s, T \cup {m}))
<1> DEFINE p == Vacant(s, T)
           q == Vacant(s, T \cup {m})
<1>1. p \in [Members -> Holds] /\ q \in [Members -> Holds]
  BY NoHoldTakesNothing DEF Vacant
<1>2. p[m] = s[m] /\ q[m] = NoHold /\ AgreeOff(p, q, Members, m)
  BY DEF Vacant, AgreeOff
<1> HIDE DEF p, q
<1>3. ASSUME NEW a, NEW u
      PROVE  /\ OnArc(q, a) + HeldOn(s[m], a) = OnArc(p, a)
             /\ OfSupply(q, u) + Drawn(s[m], u) = OfSupply(p, u)
             /\ {OnArc(q, a), OnArc(p, a), OfSupply(q, u), OfSupply(p, u)} \subseteq Nat
             /\ HeldOn(s[m], a) \in Nat /\ Drawn(s[m], u) \in Nat
  <2>1. /\ OnArc(q, a) + HeldOn(p[m], a) = OnArc(p, a) + HeldOn(q[m], a)
        /\ OfSupply(q, u) + Drawn(p[m], u) = OfSupply(p, u) + Drawn(q[m], u)
        /\ {OnArc(q, a), OnArc(p, a), OfSupply(q, u), OfSupply(p, u)} \subseteq Nat
    BY <1>1, <1>2, OneSeatChanges
  <2>2. HeldOn(q[m], a) = 0 /\ Drawn(q[m], u) = 0
    BY <1>2, NoHoldTakesNothing
  <2>3. HeldOn(s[m], a) \in Nat /\ Drawn(s[m], u) \in Nat
    BY HoldTakesNatural
  <2> QED  BY <1>2, <2>1, <2>2, <2>3
<1>4. ASSUME NEW a \in Arcs
      PROVE  SeatGiven(g, s[m]).reserved[a] = OnArc(q, a)
  <2>1. g.reserved[a] = OnArc(p, a)
    BY DEF Agrees, p
  <2>2. SeatGiven(g, s[m]).reserved[a] = Minus(OnArc(p, a), HeldOn(s[m], a))
    BY <2>1, SeatGivenType
  <2> QED  BY <1>3, <2>2 DEF Minus
<1>5. ASSUME NEW u \in Members
      PROVE  SeatGiven(g, s[m]).committed[u] = OfSupply(q, u)
  <2>1. g.committed[u] = OfSupply(p, u)
    BY DEF Agrees, p
  <2>2. SeatGiven(g, s[m]).committed[u] = Minus(OfSupply(p, u), Drawn(s[m], u))
    BY <2>1, SeatGivenType
  <2> QED  BY <1>3, <2>2 DEF Minus
<1> QED  BY <1>4, <1>5 DEF Agrees, q

\* One seat taken for a member that held none.
LEMMA OneSeated ==
    ASSUME NEW g \in Graph, NEW s \in [Members -> Holds], NEW m \in Members, NEW h \in Holds,
           s[m] = NoHold, Agrees(g, s)
    PROVE  Agrees(SeatTaken(g, h), [s EXCEPT ![m] = h])
<1> DEFINE q == [s EXCEPT ![m] = h]
<1>1. q \in [Members -> Holds] /\ q[m] = h /\ AgreeOff(s, q, Members, m)
  BY DEF AgreeOff
<1> HIDE DEF q
<1>2. ASSUME NEW a, NEW u
      PROVE  /\ OnArc(q, a) = OnArc(s, a) + HeldOn(h, a)
             /\ OfSupply(q, u) = OfSupply(s, u) + Drawn(h, u)
  <2>1. /\ OnArc(q, a) + HeldOn(s[m], a) = OnArc(s, a) + HeldOn(q[m], a)
        /\ OfSupply(q, u) + Drawn(s[m], u) = OfSupply(s, u) + Drawn(q[m], u)
        /\ {OnArc(q, a), OnArc(s, a), OfSupply(q, u), OfSupply(s, u)} \subseteq Nat
    BY <1>1, OneSeatChanges
  <2>2. HeldOn(s[m], a) = 0 /\ Drawn(s[m], u) = 0
    BY NoHoldTakesNothing
  <2> QED  BY <1>1, <2>1, <2>2
<1>3. ASSUME NEW a \in Arcs
      PROVE  SeatTaken(g, h).reserved[a] = OnArc(q, a)
  <2>1. SeatTaken(g, h).reserved[a] = g.reserved[a] + HeldOn(h, a)
    BY SeatTakenType
  <2> QED  BY <1>2, <2>1 DEF Agrees
<1>4. ASSUME NEW u \in Members
      PROVE  SeatTaken(g, h).committed[u] = OfSupply(q, u)
  <2>1. SeatTaken(g, h).committed[u] = g.committed[u] + Drawn(h, u)
    BY SeatTakenType
  <2> QED  BY <1>2, <2>1 DEF Agrees
<1> QED  BY <1>3, <1>4 DEF Agrees, q

\* An enumeration lists every element of a finite set once.
LEMMA Listed ==
    ASSUME NEW R, IsFiniteSet(R)
    PROVE  /\ Cardinality(R) \in Nat
           /\ SetToSeq(R) \in [1..Cardinality(R) -> R]
           /\ \A j, k \in 1..Cardinality(R) : SetToSeq(R)[j] = SetToSeq(R)[k] => j = k
           /\ \A m \in R : \E k \in 1..Cardinality(R) : SetToSeq(R)[k] = m
<1> DEFINE N == Cardinality(R)
<1>1. N \in Nat /\ ExistsBijection(1..N, R)
  BY FS_CardinalityType
<1>2. \E q \in [1..N -> R] : IsInjective(q)
  BY <1>1 DEF ExistsBijection, Bijection, Injection
<1>3. SetToSeq(R) \in [1..N -> R] /\ IsInjective(SetToSeq(R))
  BY <1>2 DEF SetToSeq
<1>4. SetToSeq(R) \in Injection(1..N, R)
  BY <1>3 DEF Injection
<1>5. Cardinality(1..N) = N /\ IsFiniteSet(1..N)
  BY <1>1, FS_Interval
<1>6. SetToSeq(R) \in Surjection(1..N, R)
  BY <1>4, <1>5, FS_Injection
<1> QED  BY <1>1, <1>3, <1>6 DEF IsInjective, Surjection

SeatsOf(a) == [m \in Members |-> a[m].seat.held]

LEMMA SeatsOfType ==
    ASSUME NEW a \in Accounts
    PROVE  SeatsOf(a) \in [Members -> Holds]
BY DEF SeatsOf, Accounts, Row, Seats

LEMMA VacatedAgrees ==
    ASSUME NEW g \in Graph, NEW a \in Accounts, NEW R \in SUBSET Members
    PROVE  /\ Vacated(g, a, R) \in Graph
           /\ Vacated(g, a, R).edges = g.edges /\ Vacated(g, a, R).supply = g.supply
           /\ Agrees(g, SeatsOf(a)) => Agrees(Vacated(g, a, R), Vacant(SeatsOf(a), R))
<1> DEFINE q == SetToSeq(R)
           n == Cardinality(R)
           V == {v \in Graph : v.edges = g.edges /\ v.supply = g.supply}
           G == [k \in 1..n |-> [v \in V |-> SeatGiven(v, a[q[k]].seat.held)]]
           Eq(f) == f = [s \in SUBSET (1..n) |-> IF s = {} THEN g
                                               ELSE SeatGiven(f[s \ {Max(s)}], a[q[Max(s)]].seat.held)]
           it == CHOOSE f : Eq(f)
<1>1. n \in Nat /\ q \in [1..n -> R] /\ DOMAIN q = 1..n
  BY MembersAssumption, FS_Subset, Listed
<1>2. \A j, k \in 1..n : q[j] = q[k] => j = k
  BY MembersAssumption, FS_Subset, Listed
<1>3. \A m \in R : \E k \in 1..n : q[k] = m
  BY MembersAssumption, FS_Subset, Listed
<1>4. Vacated(g, a, R) = (CHOOSE f : f = [s \in SUBSET DOMAIN q |-> IF s = {} THEN g
                            ELSE SeatGiven(f[s \ {Max(s)}], a[q[Max(s)]].seat.held)])[DOMAIN q]
  BY DEF Vacated, FoldLeft, MapThenFoldSet
<1> HIDE DEF q, n
<1>5. ASSUME NEW v \in V, NEW k \in 1..n
      PROVE  /\ q[k] \in Members /\ a[q[k]].seat.held = SeatsOf(a)[q[k]]
             /\ SeatsOf(a)[q[k]] \in Holds
             /\ SeatGiven(v, a[q[k]].seat.held) \in V
  <2>1. q[k] \in Members /\ a[q[k]].seat.held = SeatsOf(a)[q[k]] /\ SeatsOf(a)[q[k]] \in Holds
    BY <1>1, SeatsOfType DEF SeatsOf
  <2> QED  BY <2>1, SeatGivenType
<1>6. G \in [1..n -> [V -> V]] /\ g \in V
  BY <1>5
<1>7. PICK f \in [SUBSET (1..n) -> V] : Folds(f, g, G, n)
  <2> HIDE DEF G, V
  <2> QED  BY <1>1, <1>6, FoldExists
<1>8. ASSUME NEW s \in SUBSET (1..n)
      PROVE  f[s] = IF s = {} THEN g ELSE SeatGiven(f[s \ {Max(s)}], a[q[Max(s)]].seat.held)
  <2>1. s # {} => Max(s) \in 1..n /\ s \ {Max(s)} \in SUBSET (1..n)
    BY <1>1, TopIsIn DEF Picks, Tops
  <2> HIDE DEF V
  <2> QED  BY <1>7, <2>1 DEF Folds
<1>9. Eq(it)
  <2>1. Eq(f)
    <3> HIDE DEF V
    <3> QED  BY <1>7, <1>8
  <2> HIDE DEF Eq
  <2> QED  BY <2>1
<1>10. Vacated(g, a, R) = it[1..n]
  BY <1>1, <1>4
<1> HIDE DEF it
<1> DEFINE gone(k) == {q[j] : j \in 1..k}
           P == {k \in Nat : k <= n =>
                    /\ it[1..k] \in V
                    /\ Agrees(g, SeatsOf(a)) => Agrees(it[1..k], Vacant(SeatsOf(a), gone(k)))}
<1>11. 0 \in P
  <2>1. it[1..0] = g /\ gone(0) = {}
    BY <1>9
  <2>2. Vacant(SeatsOf(a), {}) = SeatsOf(a)
    BY DEF Vacant, SeatsOf
  <2> QED  BY <1>6, <2>1, <2>2
<1>12. ASSUME NEW k \in Nat, k \in P
       PROVE  k + 1 \in P
  <2>1. SUFFICES ASSUME k + 1 <= n
                 PROVE  /\ it[1..(k + 1)] \in V
                        /\ Agrees(g, SeatsOf(a)) =>
                              Agrees(it[1..(k + 1)], Vacant(SeatsOf(a), gone(k + 1)))
    OBVIOUS
  <2> DEFINE m == q[k + 1]
  <2>2. /\ k + 1 \in 1..n /\ (k + 1) - 1 = k /\ k + 1 \in 1..(k + 1) /\ it[1..k] \in V
        /\ Agrees(g, SeatsOf(a)) => Agrees(it[1..k], Vacant(SeatsOf(a), gone(k)))
    BY <1>1, <1>12, <2>1
  <2>3. \A i \in 1..(k + 1) : i \in 1..n /\ (i = k + 1 \/ i \in 1..k)
    BY <1>1, <2>1
  <2>4. it[1..(k + 1)] = SeatGiven(it[1..k], SeatsOf(a)[m])
    <3>1. it[1..(k + 1)] = SeatGiven(it[(1..(k + 1)) \ {Max(1..(k + 1))}], a[q[Max(1..(k + 1))]].seat.held)
      BY <1>9, <2>2, <2>3
    <3>2. it[1..(k + 1)] = SeatGiven(it[1..k], a[m].seat.held)
      BY <1>1, <2>2, <3>1, TopIsIn
    <3> QED  BY <1>5, <2>2, <3>2
  <2>5. it[1..(k + 1)] \in V
    BY <1>5, <2>2, <2>4
  <2>6. m \in Members /\ m \notin gone(k) /\ gone(k) \in SUBSET Members
    <3>1. \A j \in 1..k : j \in 1..n /\ j # k + 1
      BY <2>2, <1>1
    <3> QED  BY <1>1, <1>2, <2>2, <3>1
  <2>7. gone(k + 1) = gone(k) \cup {m}
    <3>1. \A i \in 1..k : i \in 1..(k + 1)
      OBVIOUS
    <3> QED  BY <2>2, <2>3, <3>1
  <2>8. ASSUME Agrees(g, SeatsOf(a))
        PROVE  Agrees(it[1..(k + 1)], Vacant(SeatsOf(a), gone(k + 1)))
    <3>1. it[1..k] \in Graph /\ Agrees(it[1..k], Vacant(SeatsOf(a), gone(k)))
      BY <2>2, <2>8
    <3> HIDE DEF gone, m
    <3> QED  BY <2>4, <2>6, <2>7, <3>1, SeatsOfType, OneVacated
  <2> QED  BY <2>5, <2>8
<1>13. Nat \subseteq P
  <2> HIDE DEF P
  <2> QED  BY <1>11, <1>12, NumberInduction
<1>14. /\ it[1..n] \in V
       /\ Agrees(g, SeatsOf(a)) => Agrees(it[1..n], Vacant(SeatsOf(a), gone(n)))
  <2> HIDE DEF V, gone
  <2> QED  BY <1>1, <1>13
<1>15. gone(n) = R
  BY <1>1, <1>3
<1> QED  BY <1>10, <1>14, <1>15

-----------------------------------------------------------------------------
(* Bills *)

LEMMA OneEnvelopeAnId ==
    ASSUME NEW tx \in Envelopes, NEW ux \in Envelopes, tx.id = ux.id
    PROVE  tx = ux
BY GateAssumption

LEMMA EnvelopeTypes ==
    ASSUME NEW tx \in Envelopes
    PROVE  /\ tx.id \in Ids /\ tx.id \in Nat /\ tx.notAfter \in Nat /\ tx.level \in Nat
           /\ tx.of \in Members /\ tx.to \in Members /\ tx.kind \in Kinds
           /\ tx.copies \in SUBSET SUBSET Members
BY GateAssumption DEF Ids

Charged(d) == d.what \in {"Slot", "Allowance", "Bond", "Seat"}

\* A bill is free, cannot be paid, or names a member that signed.
IsBill(d, a, S) ==
    \/ d = Free
    \/ d = Unpayable
    \/ Charged(d) /\ d.payer \in Payers(a, S) /\ d.amount \in Nat /\ (Bonded(d) => d.amount > 0)

LEMMA FirstOrIsIn ==
    ASSUME NEW S \in SUBSET Members, S # {}, NEW T \in SUBSET S
    PROVE  FirstOr(T, S) \in S
<1>1. S \subseteq Nat /\ T \subseteq Nat
  BY MembersAssumption
<1>2. Min(S) \in S /\ (T # {} => Min(T) \in T)
  BY <1>1, MinIsIn
<1> QED  BY <1>2 DEF FirstOr

LEMMA MultipleType ==
    ASSUME NEW tx \in Envelopes
    PROVE  /\ Multiple(tx) \in Nat
           /\ tx.kind = "Accept" => Multiple(tx) = 1
           /\ tx.kind \in {"Settle", "Exit", "Forfeit"} => Multiple(tx) = 0
<1>1. tx.kind \in Kinds
  BY GateAssumption
<1> QED  BY <1>1 DEF Multiple, Kinds

LEMMA DueIsABill ==
    ASSUME NEW k, NEW tx \in Envelopes, NEW S \in SUBSET Members
    PROVE  /\ IsBill(Due(k, tx, S), acct, S)
           /\ Due(k, tx, S) = Free <=> Multiple(tx) = 0
           /\ Due(k, tx, S) # Unpayable /\ Multiple(tx) # 0 /\ Fresh(acct, tx) # {} =>
                Due(k, tx, S).what = "Seat"
           /\ Due(k, tx, S).what = "Seat" => Fresh(acct, tx) # {}
           /\ Bonded(Due(k, tx, S)) => Due(k, tx, S).amount > 0
           /\ Due(k, tx, S).what = "Slot" => acct[Due(k, tx, S).payer].slot
<1> DEFINE ps == Payers(acct, S)
           bond == Multiple(tx) * Unit
           n == Cardinality(Fresh(acct, tx))
           free == {m \in ps : FreeRemaining(acct, k, m) > 0}
           able == {m \in ps : Covers(acct, k, m, bond)}
           seats == {m \in able : IsActive(acct, m) /\ CanSeat(m, n)}
           d == Due(k, tx, S)
<1>1. /\ Multiple(tx) \in Nat /\ Unit \in Nat /\ bond \in Nat
      /\ Multiple(tx) > 0 => bond > 0
  <2>1. \A x, y \in Nat : x * y \in Nat /\ (x > 0 /\ y > 0 => x * y > 0)
    OBVIOUS
  <2> QED  BY <2>1, MultipleType, GateAssumption
<1>2. ps \in SUBSET Members /\ free \in SUBSET ps /\ able \in SUBSET ps /\ seats \in SUBSET ps
  BY DEF Payers
<1>3. IsFiniteSet(Fresh(acct, tx)) /\ n \in Nat /\ (n = 0 <=> Fresh(acct, tx) = {})
  <2>1. Fresh(acct, tx) \in SUBSET Members
    BY EnvelopeTypes DEF Fresh
  <2> QED  BY <2>1, MembersAssumption, FS_Subset, FS_CardinalityType, FS_EmptySet
<1>4. /\ Multiple(tx) = 0 => d = Free
      /\ Multiple(tx) > 0 /\ ps = {} => d = Unpayable
      /\ Multiple(tx) > 0 /\ ps # {} /\ n > 0 => d = Bill("Seat", FirstOr(seats, ps), bond)
      /\ Multiple(tx) > 0 /\ ps # {} /\ n = 0 =>
            d = IF OwnSlot(acct, k, tx, S) THEN Bill("Slot", tx.of, 0)
                ELSE IF free # {} THEN Bill("Allowance", Min(free), 0)
                ELSE Bill("Bond", FirstOr(able, ps), bond)
  <2> HIDE DEF bond, ps, n, free
  <2> QED  BY <1>1, <1>3 DEF Due, ps, bond, n, free
<1> HIDE DEF ps, bond, n, free, able, seats, d
<1>5. free # {} => Min(free) \in ps
  BY <1>2, MembersAssumption, MinIsIn
<1>6. ps # {} => FirstOr(able, ps) \in ps /\ FirstOr(seats, ps) \in ps
  BY <1>2, FirstOrIsIn
<1>7. OwnSlot(acct, k, tx, S) => tx.of \in ps /\ acct[tx.of].slot
  BY DEF OwnSlot, ps
<1>8. CASE Multiple(tx) = 0
  BY <1>3, <1>4, <1>8 DEF IsBill, Bonded, d, Free, Bill
<1>9. CASE Multiple(tx) > 0 /\ ps = {}
  BY <1>3, <1>4, <1>9 DEF IsBill, Bonded, d, Free, Unpayable, Bill
<1>10. CASE Multiple(tx) > 0 /\ ps # {} /\ n > 0
  BY <1>1, <1>3, <1>4, <1>6, <1>10 DEF IsBill, Bonded, d, Free, Unpayable, Bill, Charged, ps
<1>11. CASE Multiple(tx) > 0 /\ ps # {} /\ n = 0
  <2>1. CASE OwnSlot(acct, k, tx, S)
    BY <1>1, <1>3, <1>4, <1>7, <1>11, <2>1 DEF IsBill, Bonded, d, Free, Unpayable, Bill, Charged, ps
  <2>2. CASE ~OwnSlot(acct, k, tx, S) /\ free # {}
    BY <1>1, <1>3, <1>4, <1>5, <1>11, <2>2 DEF IsBill, Bonded, d, Free, Unpayable, Bill, Charged, ps
  <2>3. CASE ~OwnSlot(acct, k, tx, S) /\ free = {}
    BY <1>1, <1>3, <1>4, <1>6, <1>11, <2>3 DEF IsBill, Bonded, d, Free, Unpayable, Bill, Charged, ps
  <2> QED  BY <2>1, <2>2, <2>3
<1> QED  BY <1>1, <1>3, <1>8, <1>9, <1>10, <1>11

LEMMA RefusalIsABill ==
    ASSUME NEW a, NEW tx \in Envelopes, NEW S \in SUBSET Members
    PROVE  /\ IsBill(RefusalBill(a, tx, S), a, S)
           /\ RefusalBill(a, tx, S).what \in {"Free", "Slot", "Allowance"}
           /\ RefusalBill(a, tx, S).what = "Free" => RefusalBill(a, tx, S) = Free
           /\ RefusalBill(a, tx, S).what = "Slot" => a[RefusalBill(a, tx, S).payer].slot
<1> DEFINE free == {m \in Payers(a, S) : FreeRemaining(a, Cold, m) > 0}
<1>1. free # {} => Min(free) \in Payers(a, S)
  <2>1. free \subseteq Nat
    BY MembersAssumption DEF Payers
  <2>2. free \subseteq Payers(a, S)
    OBVIOUS
  <2> HIDE DEF free
  <2> QED  BY <2>1, <2>2, MinIsIn
<1>2. OwnSlot(a, Cold, tx, S) => tx.of \in Payers(a, S) /\ a[tx.of].slot
  BY DEF OwnSlot
<1>3. \/ RefusalBill(a, tx, S) = Free
      \/ OwnSlot(a, Cold, tx, S) /\ RefusalBill(a, tx, S) = Bill("Slot", tx.of, 0)
      \/ free # {} /\ RefusalBill(a, tx, S) = Bill("Allowance", Min(free), 0)
  <2> HIDE DEF free
  <2> QED  BY DEF RefusalBill, free
<1> QED  BY <1>1, <1>2, <1>3 DEF IsBill, Bonded, Free, Bill, Charged

-----------------------------------------------------------------------------
(* What every row keeps *)

Span(e) == e + 1..e + More(ReleaseEpochs, 1)

\* A row of the epoch e whose member was refused for headroom in the epochs D:
\* its bonds return in time, what it counts are denials, and no seat outlives it.
Sound(r, e, D) ==
    /\ r \in Row
    /\ DOMAIN r.bonds \subseteq Span(e)
    /\ r.status \in {"None", "Retired"} => r.seat = NoSeat
    /\ r.denied => e \in D
    /\ \A k \in 1..r.saturated : k <= e /\ e - k \in D

AllSound(a, e, D) == a \in Accounts /\ \A m \in Members : Sound(a[m], e, D[m])

LEMMA OneRowChanges ==
    ASSUME NEW a, NEW e, NEW D, AllSound(a, e, D), NEW m \in Members, NEW r, Sound(r, e, D[m])
    PROVE  AllSound([a EXCEPT ![m] = r], e, D)
BY DEF AllSound, Sound, Accounts

LEMMA BookTypes ==
    ASSUME NEW b \in Books
    PROVE  /\ b \in [DOMAIN b -> Amounts] /\ b \in [DOMAIN b -> Nat]
           /\ IsFiniteSet(DOMAIN b) /\ DOMAIN b \subseteq Nat
           /\ \A k : HeldAt(b, k) \in Nat
<1>1. PICK D \in SUBSET Nat : IsFiniteSet(D) /\ b \in [D -> Amounts]
  BY DEF Books
<1>2. b \in [D -> Nat]
  BY <1>1 DEF Amounts
<1>3. \A k : HeldAt(b, k) \in Nat
  BY <1>2 DEF HeldAt
<1> QED  BY <1>1, <1>2, <1>3

LEMMA BookAdded ==
    ASSUME NEW b \in Books, NEW at \in Nat, NEW x \in Amounts
    PROVE  Added(b, at, x) \in Books /\ DOMAIN Added(b, at, x) = DOMAIN b \cup {at}
<1> DEFINE D == DOMAIN b \cup {at}
<1>1. /\ b \in [DOMAIN b -> Amounts] /\ IsFiniteSet(DOMAIN b) /\ DOMAIN b \subseteq Nat
      /\ \A k : HeldAt(b, k) \in Nat
  BY BookTypes
<1>2. IsFiniteSet(D) /\ D \in SUBSET Nat
  BY <1>1, FS_AddElement
<1>3. ASSUME NEW k \in D
      PROVE  HeldAt(b, k) + (IF k = at THEN x ELSE 0) \in Amounts
  <2>1. k # at => HeldAt(b, k) \in Amounts
    BY <1>1 DEF HeldAt
  <2> QED  BY <1>1, <2>1 DEF Amounts
<1>4. Added(b, at, x) \in [D -> Amounts]
  BY <1>3 DEF Added
<1> QED  BY <1>2, <1>4 DEF Books

LEMMA BookParts ==
    ASSUME NEW b \in Books, NEW T \in SUBSET DOMAIN b
    PROVE  Restrict(b, T) \in Books /\ DOMAIN Restrict(b, T) = T
<1>1. b \in [DOMAIN b -> Amounts] /\ IsFiniteSet(T) /\ T \subseteq Nat
  BY BookTypes, FS_Subset
<1>2. Restrict(b, T) \in [T -> Amounts]
  BY <1>1 DEF Restrict
<1> QED  BY <1>1, <1>2 DEF Books

\* Only what is left of an entry stays in the book.
LEMMA BookRemoved ==
    ASSUME NEW b \in Books, NEW at, NEW x \in Nat
    PROVE  Removed(b, at, x) \in Books /\ DOMAIN Removed(b, at, x) \subseteq DOMAIN b
<1> DEFINE c == [b EXCEPT ![at] = Minus(@, x)]
           T == {k \in DOMAIN c : c[k] > 0}
<1>1. b \in [DOMAIN b -> Nat] /\ IsFiniteSet(DOMAIN b) /\ DOMAIN b \subseteq Nat
  BY BookTypes
<1>2. \A y \in Nat : Minus(y, x) \in Nat
  BY DEF Minus
<1>3. c \in [DOMAIN b -> Nat]
  BY <1>1, <1>2
<1> HIDE DEF c
<1>4. Restrict(c, T) \in [T -> Amounts] /\ T \subseteq DOMAIN b
  BY <1>3 DEF Restrict, Amounts
<1>5. IsFiniteSet(T)
  BY <1>1, <1>4, FS_Subset
<1>6. Removed(b, at, x) = Restrict(c, T)
  BY DEF Removed, Positive, c
<1> QED  BY <1>1, <1>4, <1>5, <1>6 DEF Books

\* What is added can be removed.
LEMMA AddedRemoved ==
    ASSUME NEW b \in Books, NEW at \in Nat, NEW x \in Amounts
    PROVE  Removed(Added(b, at, x), at, x) = b
<1> DEFINE f == Added(b, at, x)
           c == [f EXCEPT ![at] = Minus(@, x)]
           T == {k \in DOMAIN c : c[k] > 0}
<1>1. b \in [DOMAIN b -> Amounts] /\ \A k : HeldAt(b, k) \in Nat
  BY BookTypes
<1>2. DOMAIN f = DOMAIN b \cup {at} /\ f = [k \in DOMAIN b \cup {at} |-> f[k]]
  BY DEF Added
<1>3. ASSUME NEW k \in DOMAIN b \cup {at}
      PROVE  f[k] = HeldAt(b, k) + (IF k = at THEN x ELSE 0)
  BY DEF Added
<1> HIDE DEF f
<1>4. DOMAIN c = DOMAIN b \cup {at}
  BY <1>2
<1>5. ASSUME NEW k \in DOMAIN b \cup {at}
      PROVE  c[k] = HeldAt(b, k)
  <2>1. \A y \in Nat : Minus(y + x, x) = y /\ y + 0 = y
    BY DEF Minus, Amounts
  <2>2. c[k] = IF k = at THEN Minus(f[k], x) ELSE f[k]
    BY <1>2
  <2> HIDE DEF c
  <2> QED  BY <1>1, <1>3, <2>1, <2>2
<1> HIDE DEF c
<1>6. T = DOMAIN b
  <2>1. \A k \in DOMAIN b : HeldAt(b, k) > 0 /\ HeldAt(b, k) = b[k]
    BY <1>1 DEF HeldAt, Amounts
  <2>2. \A k : k \notin DOMAIN b => HeldAt(b, k) = 0
    BY DEF HeldAt
  <2> QED  BY <1>4, <1>5, <2>1, <2>2
<1>7. Restrict(c, DOMAIN b) = b
  <2>1. \A k \in DOMAIN b : c[k] = b[k]
    BY <1>5 DEF HeldAt
  <2> QED  BY <1>1, <2>1 DEF Restrict
<1>8. Removed(f, at, x) = Restrict(c, T)
  BY DEF Removed, Positive, c
<1> QED  BY <1>6, <1>7, <1>8 DEF f

\* A book sums to more by what is added.
LEMMA SumAdded ==
    ASSUME NEW b \in Books, NEW at \in Nat, NEW x \in Amounts
    PROVE  Sum(b) \in Nat /\ Sum(Added(b, at, x)) = Sum(b) + x
<1> DEFINE h == Added(b, at, x)
           D == DOMAIN b \cup {at}
           f == [k \in D |-> HeldAt(b, k)]
<1>1. /\ b \in [DOMAIN b -> Nat] /\ IsFiniteSet(DOMAIN b) /\ DOMAIN b \subseteq Nat
      /\ \A k : HeldAt(b, k) \in Nat
  BY BookTypes
<1>2. IsFiniteSet(D) /\ at \in D /\ DOMAIN b \in SUBSET D
  BY <1>1, FS_AddElement
<1>3. DOMAIN h = D /\ \A k \in D : h[k] = HeldAt(b, k) + (IF k = at THEN x ELSE 0)
  BY DEF Added
<1> HIDE DEF h
<1>4. Weighs(f, D) /\ Weighs(h, D) /\ AgreeOff(f, h, D, at) /\ h[at] = f[at] + x /\ f[at] \in Nat
  BY <1>1, <1>2, <1>3 DEF Weighs, AgreeOff, Amounts
<1>5. /\ \A k \in D : f[k] \in Nat
      /\ \A k \in D \ DOMAIN b : f[k] = 0
      /\ \A k \in DOMAIN b : f[k] \in Nat /\ f[k] = b[k]
  BY <1>1 DEF HeldAt
<1> HIDE DEF f, D
<1>6. SumFunctionOnSet(h, D) + f[at] = SumFunctionOnSet(f, D) + h[at]
  BY <1>2, <1>4, SumUpdate
<1>7. SumFunctionOnSet(f, D) = SumFunctionOnSet(f, DOMAIN b)
  BY <1>2, <1>5, SumOnSupport
<1>8. SumFunctionOnSet(f, DOMAIN b) = SumFunctionOnSet(b, DOMAIN b)
  BY <1>1, <1>5, SumCongruent
<1>9. Sum(h) = SumFunctionOnSet(h, D) /\ Sum(b) = SumFunctionOnSet(b, DOMAIN b)
  BY <1>3, SumIs
<1>10. Sum(b) \in Nat /\ SumFunctionOnSet(h, D) \in Nat
  BY <1>1, <1>2, <1>4, <1>9, SumIsNatural, SumIsInNat DEF Weighs
<1> QED  BY <1>4, <1>6, <1>7, <1>8, <1>9, <1>10 DEF h, Amounts

LEMMA EmptyBook == <<>> \in Books /\ DOMAIN <<>> = {}
<1>1. <<>> \in [{} -> Amounts] /\ IsFiniteSet({})
  BY FS_EmptySet
<1> QED  BY <1>1 DEF Books

\* What a charge or a refund may touch of a row.
Standing(r) == <<r.status, r.debt, r.dflt, r.denied, r.saturated, r.seat>>

LEMMA PaidRow ==
    ASSUME NEW r, NEW e, NEW D, Sound(r, e, D),
           NEW u \in Nat, NEW f \in BOOLEAN, NEW b \in Books, DOMAIN b \subseteq Span(e)
    PROVE  /\ Sound([r EXCEPT !.used = u], e, D) /\ Standing([r EXCEPT !.used = u]) = Standing(r)
           /\ Sound([r EXCEPT !.slot = f], e, D) /\ Standing([r EXCEPT !.slot = f]) = Standing(r)
           /\ Sound([r EXCEPT !.bonds = b], e, D) /\ Standing([r EXCEPT !.bonds = b]) = Standing(r)
<1> DEFINE x == [r EXCEPT !.used = u]
           y == [r EXCEPT !.slot = f]
           z == [r EXCEPT !.bonds = b]
<1>1. r \in Row
  BY DEF Sound
<1>2. x \in Row /\ y \in Row /\ z \in Row
  BY <1>1 DEF Row
<1>3. Standing(x) = Standing(r) /\ Standing(y) = Standing(r) /\ Standing(z) = Standing(r)
  BY <1>1 DEF Row, Standing
<1>4. x.bonds = r.bonds /\ y.bonds = r.bonds /\ z.bonds = b
  BY <1>1 DEF Row
<1> HIDE DEF x, y, z
<1>5. Sound(x, e, D)
  BY <1>2, <1>3, <1>4 DEF Sound, Standing
<1>6. Sound(y, e, D)
  BY <1>2, <1>3, <1>4 DEF Sound, Standing
<1>7. Sound(z, e, D)
  BY <1>2, <1>3, <1>4 DEF Sound, Standing
<1> QED  BY <1>3, <1>5, <1>6, <1>7 DEF x, y, z

LEMMA ReleaseAtIsInSpan ==
    ASSUME epoch \in Nat
    PROVE  ReleaseAt \in Nat /\ ReleaseAt \in Span(epoch)
<1>1. ReleaseEpochs \in Nat
  BY GateAssumption
<1> QED  BY <1>1 DEF ReleaseAt, Span, More

LEMMA ChargeIsSound ==
    ASSUME epoch \in Nat, NEW a, AllSound(a, epoch, denials),
           NEW S \in SUBSET Members, NEW d, IsBill(d, a, S)
    PROVE  /\ AllSound(Charge(a, d), epoch, denials)
           /\ \A m \in Members : Standing(Charge(a, d)[m]) = Standing(a[m])
<1> DEFINE p == d.payer
           r == a[p]
<1>1. CASE d = Free \/ d = Unpayable
  <2>1. Charge(a, d) = a
    BY <1>1 DEF Charge, Free, Unpayable, Bill, Bonded
  <2> QED  BY <2>1
<1>2. CASE Charged(d) /\ p \in Members /\ d.amount \in Nat /\ (Bonded(d) => d.amount > 0)
  <2> DEFINE b == Added(r.bonds, ReleaseAt, d.amount)
  <2>1. Sound(r, epoch, denials[p]) /\ a \in Accounts /\ r \in Row
    BY <1>2 DEF AllSound, Sound
  <2>2. r.bonds \in Books /\ r.used + 1 \in Nat /\ DOMAIN r.bonds \subseteq Span(epoch)
    BY <2>1 DEF Sound, Row
  <2>3. Bonded(d) => b \in Books /\ DOMAIN b \subseteq Span(epoch)
    <3> HIDE DEF r
    <3>1. Bonded(d) => d.amount \in Amounts
      BY <1>2 DEF Amounts
    <3>2. Bonded(d) => b \in Books /\ DOMAIN b = DOMAIN r.bonds \cup {ReleaseAt}
      BY <2>2, <3>1, ReleaseAtIsInSpan, BookAdded
    <3> QED  BY <2>2, <3>2, ReleaseAtIsInSpan
  <2>4. \/ Charge(a, d) = [a EXCEPT ![p] = [r EXCEPT !.used = r.used + 1]]
        \/ Charge(a, d) = [a EXCEPT ![p] = [r EXCEPT !.slot = FALSE]]
        \/ Bonded(d) /\ Charge(a, d) = [a EXCEPT ![p] = [r EXCEPT !.bonds = b]]
    BY <1>2 DEF Charge, Charged, Bonded
  <2> HIDE DEF r, b, p
  <2>5. /\ Sound([r EXCEPT !.used = r.used + 1], epoch, denials[p])
        /\ Sound([r EXCEPT !.slot = FALSE], epoch, denials[p])
        /\ Bonded(d) => Sound([r EXCEPT !.bonds = b], epoch, denials[p])
        /\ Standing([r EXCEPT !.used = r.used + 1]) = Standing(r)
        /\ Standing([r EXCEPT !.slot = FALSE]) = Standing(r)
        /\ Bonded(d) => Standing([r EXCEPT !.bonds = b]) = Standing(r)
    <3>1. FALSE \in BOOLEAN
      OBVIOUS
    <3> QED  BY <2>1, <2>2, <2>3, <3>1, PaidRow
  <2>6. PICK s : Charge(a, d) = [a EXCEPT ![p] = s] /\ Sound(s, epoch, denials[p]) /\ Standing(s) = Standing(r)
    BY <2>4, <2>5, Zenon
  <2>7. \A m \in Members : Standing(Charge(a, d)[m]) = Standing(a[m])
    BY <2>1, <2>6 DEF Accounts, r
  <2>8. AllSound([a EXCEPT ![p] = s], epoch, denials)
    <3>1. p \in Members
      BY <1>2
    <3> QED  BY <2>6, <3>1, OneRowChanges
  <2> QED  BY <2>6, <2>7, <2>8
<1> QED  BY <1>1, <1>2 DEF IsBill, Payers

LEMMA RefundIsSound ==
    ASSUME epoch \in Nat, NEW a, AllSound(a, epoch, denials),
           NEW S \in SUBSET Members, NEW d, IsBill(d, acct, S)
    PROVE  /\ AllSound(Refund(a, d), epoch, denials)
           /\ \A m \in Members : Standing(Refund(a, d)[m]) = Standing(a[m])
<1> DEFINE p == d.payer
           r == a[p]
<1>1. CASE d = Free \/ d = Unpayable
  <2>1. Refund(a, d) = a
    BY <1>1 DEF Refund, Free, Unpayable, Bill, Bonded
  <2> QED  BY <2>1
<1>2. CASE Charged(d) /\ p \in Members /\ d.amount \in Nat /\ (Bonded(d) => d.amount > 0)
  <2> DEFINE b == Removed(r.bonds, ReleaseAt, d.amount)
  <2>1. Sound(r, epoch, denials[p]) /\ a \in Accounts /\ r \in Row
    BY <1>2 DEF AllSound, Sound
  <2>2. r.bonds \in Books /\ r.used \in Nat /\ DOMAIN r.bonds \subseteq Span(epoch)
    BY <2>1 DEF Sound, Row
  <2>3. b \in Books /\ DOMAIN b \subseteq Span(epoch)
    <3> HIDE DEF r
    <3>1. b \in Books /\ DOMAIN b \subseteq DOMAIN r.bonds
      BY <1>2, <2>2, BookRemoved
    <3> QED  BY <2>2, <3>1
  <2>4. \/ Refund(a, d) = [a EXCEPT ![p] = [r EXCEPT !.used = Minus(r.used, 1)]]
        \/ Refund(a, d) = [a EXCEPT ![p] = [r EXCEPT !.slot = TRUE]]
        \/ Refund(a, d) = [a EXCEPT ![p] = [r EXCEPT !.bonds = b]]
    BY <1>2 DEF Refund, Charged, Bonded
  <2> HIDE DEF r, b, p
  <2>5. /\ Sound([r EXCEPT !.used = Minus(r.used, 1)], epoch, denials[p])
        /\ Sound([r EXCEPT !.slot = TRUE], epoch, denials[p])
        /\ Sound([r EXCEPT !.bonds = b], epoch, denials[p])
        /\ Standing([r EXCEPT !.used = Minus(r.used, 1)]) = Standing(r)
        /\ Standing([r EXCEPT !.slot = TRUE]) = Standing(r)
        /\ Standing([r EXCEPT !.bonds = b]) = Standing(r)
    <3>1. TRUE \in BOOLEAN /\ Minus(r.used, 1) \in Nat
      BY <2>2 DEF Minus
    <3> QED  BY <2>1, <2>2, <2>3, <3>1, PaidRow
  <2>6. PICK s : Refund(a, d) = [a EXCEPT ![p] = s] /\ Sound(s, epoch, denials[p]) /\ Standing(s) = Standing(r)
    BY <2>4, <2>5, Zenon
  <2>7. \A m \in Members : Standing(Refund(a, d)[m]) = Standing(a[m])
    BY <2>1, <2>6 DEF Accounts, r
  <2>8. AllSound([a EXCEPT ![p] = s], epoch, denials)
    <3>1. p \in Members
      BY <1>2
    <3> QED  BY <2>6, <3>1, OneRowChanges
  <2> QED  BY <2>6, <2>7, <2>8
<1> QED  BY <1>1, <1>2 DEF IsBill, Payers

LEMMA NoRowType ==
    ASSUME NEW x \in Seats
    PROVE  /\ NoSeat \in Seats
           /\ NoRow \in Row
           /\ [NoRow EXCEPT !.status = "Active", !.slot = TRUE, !.seat = x] \in Row
           /\ [NoRow EXCEPT !.status = "Retired"] \in Row
           /\ [NoRow EXCEPT !.status = "Active"] \in Row
<1>1. NoSeat \in Seats
  BY NoHoldTakesNothing DEF NoSeat, Seats
<1>2. NoRow \in Row
  BY <1>1, EmptyBook DEF NoRow, Row, Statuses
<1>3. [NoRow EXCEPT !.status = "Retired"] \in Row /\ [NoRow EXCEPT !.status = "Active"] \in Row
  BY <1>2 DEF Row, Statuses
<1>4. [NoRow EXCEPT !.status = "Active", !.slot = TRUE, !.seat = x] \in Row
  BY <1>2 DEF Row, Statuses
<1> QED  BY <1>1, <1>2, <1>3, <1>4

LEMMA NewRowIsSound ==
    ASSUME NEW x \in Seats, NEW e, NEW D
    PROVE  /\ Sound(NoRow, e, D)
           /\ Sound([NoRow EXCEPT !.status = "Active", !.slot = TRUE, !.seat = x], e, D)
           /\ Sound([NoRow EXCEPT !.status = "Retired"], e, D)
           /\ Sound([NoRow EXCEPT !.status = "Active"], e, D)
<1>1. ASSUME NEW r \in Row, r.bonds = <<>>, r.denied = FALSE, r.saturated = 0,
             r.status \in {"None", "Retired"} => r.seat = NoSeat
      PROVE  Sound(r, e, D)
  BY <1>1, EmptyBook DEF Sound
<1> DEFINE a == [NoRow EXCEPT !.status = "Active", !.slot = TRUE, !.seat = x]
           b == [NoRow EXCEPT !.status = "Retired"]
           c == [NoRow EXCEPT !.status = "Active"]
<1>2. NoRow \in Row /\ a \in Row /\ b \in Row /\ c \in Row
  BY NoRowType
<1>3. NoRow.bonds = <<>> /\ NoRow.denied = FALSE /\ NoRow.saturated = 0 /\ NoRow.seat = NoSeat
  BY DEF NoRow
<1>4. /\ a.bonds = <<>> /\ a.denied = FALSE /\ a.saturated = 0 /\ a.status = "Active"
      /\ b.bonds = <<>> /\ b.denied = FALSE /\ b.saturated = 0 /\ b.seat = NoSeat
      /\ c.bonds = <<>> /\ c.denied = FALSE /\ c.saturated = 0 /\ c.seat = NoSeat
  BY <1>2, <1>3 DEF Row
<1> HIDE DEF a, b, c
<1>5. Sound(NoRow, e, D) /\ Sound(a, e, D) /\ Sound(b, e, D) /\ Sound(c, e, D)
  BY <1>1, <1>2, <1>3, <1>4
<1> QED  BY <1>5 DEF a, b, c

\* What the handlers may do to a row.
LEMMA HandledRow ==
    ASSUME NEW r, NEW e, NEW D, Sound(r, e, D), NEW x \in Nat
    PROVE  /\ Sound([r EXCEPT !.debt = x], e, D)
           /\ Sound([r EXCEPT !.dflt = x], e, D)
           /\ \A s \in {"Active", "Suspended", "Exited"} : Sound([r EXCEPT !.status = s], e, D)
           /\ Sound([r EXCEPT !.bonds = <<>>, !.saturated = 0, !.denied = FALSE], e, D)
           /\ Sound([r EXCEPT !.denied = TRUE], e, D \cup {e})
<1> DEFINE a == [r EXCEPT !.debt = x]
           b == [r EXCEPT !.dflt = x]
           c(s) == [r EXCEPT !.status = s]
           f == [r EXCEPT !.bonds = <<>>, !.saturated = 0, !.denied = FALSE]
           g == [r EXCEPT !.denied = TRUE]
<1>1. r \in Row
  BY DEF Sound
<1>2. a \in Row /\ b \in Row /\ f \in Row /\ g \in Row
  BY <1>1, EmptyBook DEF Row
<1>3. Sound(a, e, D)
  <2>1. a.bonds = r.bonds /\ a.status = r.status /\ a.seat = r.seat /\ a.denied = r.denied
        /\ a.saturated = r.saturated
    BY <1>1 DEF Row
  <2> HIDE DEF a
  <2> QED  BY <1>2, <2>1 DEF Sound
<1>4. Sound(b, e, D)
  <2>1. b.bonds = r.bonds /\ b.status = r.status /\ b.seat = r.seat /\ b.denied = r.denied
        /\ b.saturated = r.saturated
    BY <1>1 DEF Row
  <2> HIDE DEF b
  <2> QED  BY <1>2, <2>1 DEF Sound
<1>5. ASSUME NEW s \in {"Active", "Suspended", "Exited"}
      PROVE  Sound(c(s), e, D)
  <2>1. c(s) \in Row
    BY <1>1 DEF Row, Statuses
  <2>2. c(s).bonds = r.bonds /\ c(s).status = s /\ c(s).denied = r.denied
        /\ c(s).saturated = r.saturated
    BY <1>1 DEF Row
  <2> HIDE DEF c
  <2> QED  BY <2>1, <2>2 DEF Sound
<1>6. Sound(f, e, D)
  <2>1. f.bonds = <<>> /\ f.status = r.status /\ f.seat = r.seat /\ f.denied = FALSE /\ f.saturated = 0
    BY <1>1 DEF Row
  <2> HIDE DEF f
  <2> QED  BY <1>2, <2>1, EmptyBook DEF Sound
<1>7. Sound(g, e, D \cup {e})
  <2>1. g.bonds = r.bonds /\ g.status = r.status /\ g.seat = r.seat /\ g.saturated = r.saturated
    BY <1>1 DEF Row
  <2> HIDE DEF g
  <2> QED  BY <1>2, <2>1 DEF Sound
<1> QED  BY <1>3, <1>4, <1>5, <1>6, <1>7

\* A row across n epoch boundaries.
CrossedRow(r, n) ==
    [r EXCEPT !.saturated = IF n = 1 /\ r.denied THEN r.saturated + 1 ELSE 0, !.denied = FALSE, !.used = 0]

LEMMA BoundaryRow ==
    ASSUME NEW r, NEW e \in Nat, NEW D, Sound(r, e, D), NEW n \in Nat \ {0}, NEW x \in Nat, NEW b \in Books,
           b = Restrict(r.bonds, {k \in DOMAIN r.bonds : k > e + n})
    PROVE  /\ CrossedRow(r, n) \in Row
           /\ CrossedRow(r, n).bonds = r.bonds
           /\ CrossedRow(r, n).status = r.status /\ CrossedRow(r, n).seat = r.seat
           /\ Sound([CrossedRow(r, n) EXCEPT !.bonds = b], e + n, D)
           /\ Sound([[CrossedRow(r, n) EXCEPT !.dflt = x] EXCEPT !.bonds = b], e + n, D)
<1> DEFINE y == IF n = 1 /\ r.denied THEN r.saturated + 1 ELSE 0
           c == [r EXCEPT !.saturated = y, !.denied = FALSE, !.used = 0]
           f == [c EXCEPT !.bonds = b]
           g == [[c EXCEPT !.dflt = x] EXCEPT !.bonds = b]
<1>1. r \in Row /\ y \in Nat
  BY DEF Sound, Row
<1>2. \A k \in 1..y : k <= e + n /\ (e + n) - k \in D
  <2> SUFFICES ASSUME n = 1, r.denied, NEW k \in 1..(r.saturated + 1)
               PROVE  k <= e + 1 /\ (e + 1) - k \in D
    OBVIOUS
  <2>1. r.saturated \in Nat /\ e \in D
    BY <1>1 DEF Row, Sound
  <2>2. CASE k = 1
    BY <2>1, <2>2
  <2>3. CASE k # 1
    <3>1. k - 1 \in 1..r.saturated
      BY <2>1, <2>3
    <3>2. k - 1 <= e /\ e - (k - 1) \in D
      BY <3>1 DEF Sound
    <3>3. e - (k - 1) = (e + 1) - k
      BY <2>1
    <3> QED  BY <2>1, <3>2, <3>3
  <2> QED  BY <2>2, <2>3
<1> HIDE DEF y
<1>3. c \in Row /\ c.bonds = r.bonds /\ c.status = r.status /\ c.seat = r.seat
      /\ c.denied = FALSE /\ c.saturated = y
  BY <1>1 DEF Row
<1> HIDE DEF c
<1>4. /\ f \in Row /\ f.bonds = b /\ f.status = r.status /\ f.seat = r.seat
      /\ f.denied = FALSE /\ f.saturated = y
      /\ g \in Row /\ g.bonds = b /\ g.status = r.status /\ g.seat = r.seat
      /\ g.denied = FALSE /\ g.saturated = y
  BY <1>3 DEF Row
<1>5. DOMAIN b \subseteq Span(e + n)
  <2>1. DOMAIN b = {k \in DOMAIN r.bonds : k > e + n} /\ DOMAIN r.bonds \subseteq Span(e)
    BY DEF Restrict, Sound
  <2>2. More(ReleaseEpochs, 1) \in Nat
    BY GateAssumption DEF More
  <2> QED  BY <2>1, <2>2 DEF Span
<1> HIDE DEF f, g
<1>6. Sound(f, e + n, D)
  BY <1>2, <1>4, <1>5 DEF Sound
<1>7. Sound(g, e + n, D)
  BY <1>2, <1>4, <1>5 DEF Sound
<1> QED  BY <1>3, <1>6, <1>7 DEF f, g, c, y, CrossedRow

-----------------------------------------------------------------------------
(* Cuts *)

\* What a set of members takes from outside, through its arcs and its supply.
Across(w, p, T, S) ==
    Sum([u \in S \ T |-> p[u]]) + Sum([a \in (Members \ S) \X S |-> w[a]])

AcrossAll(w, p, T) == {Across(w, p, T, S) : S \in {S \in SUBSET Members : T \subseteq S}}

LEMMA AcrossIsNatural ==
    ASSUME NEW w \in [Arcs -> Nat], NEW p \in [Members -> Nat], NEW T, NEW S \in SUBSET Members
    PROVE  Across(w, p, T, S) \in Nat
<1>1. IsFiniteSet(S \ T) /\ IsFiniteSet((Members \ S) \X S) /\ (Members \ S) \X S \subseteq Arcs
  <2>1. IsFiniteSet(Members \ S) /\ IsFiniteSet(S)
    BY MembersAssumption, FS_Subset
  <2> QED  BY <2>1, FS_Subset, FS_Product DEF Arcs
<1>2. /\ [u \in S \ T |-> p[u]] \in [S \ T -> Nat]
      /\ [a \in (Members \ S) \X S |-> w[a]] \in [(Members \ S) \X S -> Nat]
  BY <1>1
<1>3. Sum([u \in S \ T |-> p[u]]) \in Nat /\ Sum([a \in (Members \ S) \X S |-> w[a]]) \in Nat
  BY <1>1, <1>2, SumIsInNat
<1> QED  BY <1>3 DEF Across

LEMMA CutIsLeast ==
    ASSUME NEW w \in [Arcs -> Nat], NEW p \in [Members -> Nat], NEW T \in SUBSET Members
    PROVE  /\ Cut(w, p, T) \in Nat
           /\ \A S \in SUBSET Members : T \subseteq S => Cut(w, p, T) <= Across(w, p, T, S)
           /\ \E S \in SUBSET Members : T \subseteq S /\ Cut(w, p, T) = Across(w, p, T, S)
<1>1. Cut(w, p, T) = Min(AcrossAll(w, p, T))
  BY DEF Cut, AcrossAll, Across
<1>2. AcrossAll(w, p, T) \subseteq Nat
  BY AcrossIsNatural DEF AcrossAll
<1>3. Across(w, p, T, Members) \in AcrossAll(w, p, T)
  BY DEF AcrossAll
<1>4. Cut(w, p, T) \in AcrossAll(w, p, T) /\ \A x \in AcrossAll(w, p, T) : Cut(w, p, T) <= x
  BY <1>1, <1>2, <1>3, MinIsIn
<1> QED  BY <1>2, <1>4 DEF AcrossAll

\* A cut grows with the weights it is taken over.
LEMMA CutGrows ==
    ASSUME NEW w \in [Arcs -> Nat], NEW v \in [Arcs -> Nat], NEW p \in [Members -> Nat],
           NEW T \in SUBSET Members, \A a \in Arcs : w[a] <= v[a]
    PROVE  Cut(w, p, T) <= Cut(v, p, T)
<1>1. PICK S \in SUBSET Members : T \subseteq S /\ Cut(v, p, T) = Across(v, p, T, S)
  BY CutIsLeast
<1>2. Across(w, p, T, S) <= Across(v, p, T, S)
  <2> DEFINE D == (Members \ S) \X S
             f == [a \in D |-> w[a]]
             h == [a \in D |-> v[a]]
  <2>1. IsFiniteSet(D) /\ D \subseteq Arcs
    <3>1. IsFiniteSet(Members \ S) /\ IsFiniteSet(S)
      BY MembersAssumption, FS_Subset
    <3> QED  BY <3>1, FS_Product DEF Arcs
  <2>2. \A a \in D : f[a] \in Nat /\ h[a] \in Nat /\ f[a] <= h[a]
    BY <2>1
  <2>3. Sum(f) = SumFunctionOnSet(f, D) /\ Sum(h) = SumFunctionOnSet(h, D)
    <3>1. DOMAIN f = D /\ DOMAIN h = D
      OBVIOUS
    <3> HIDE DEF f, h
    <3> QED  BY <3>1, SumIs
  <2> DEFINE own == Sum([u \in S \ T |-> p[u]])
  <2>4. Across(w, p, T, S) = own + Sum(f) /\ Across(v, p, T, S) = own + Sum(h)
    BY DEF Across
  <2>5. own \in Nat
    <3>1. IsFiniteSet(S \ T) /\ [u \in S \ T |-> p[u]] \in [S \ T -> Nat]
      BY MembersAssumption, FS_Subset
    <3> QED  BY <3>1, SumIsInNat
  <2> HIDE DEF D, f, h, own
  <2>6. SumFunctionOnSet(f, D) <= SumFunctionOnSet(h, D)
    BY <2>1, <2>2, SumMonotone
  <2>7. Sum(f) \in Nat /\ Sum(h) \in Nat
    BY <2>1, <2>2, <2>3, SumIsNatural
  <2> QED  BY <2>3, <2>4, <2>5, <2>6, <2>7
<1>3. Cut(w, p, T) <= Across(w, p, T, S)
  BY <1>1, CutIsLeast
<1>4. Cut(w, p, T) \in Nat /\ Across(w, p, T, S) \in Nat /\ Across(v, p, T, S) \in Nat
  BY CutIsLeast, AcrossIsNatural
<1> QED  BY <1>1, <1>2, <1>3, <1>4

LEMMA ReachIsNatural ==
    ASSUME NEW g \in Graph, NEW m \in Members
    PROVE  Reach(g, m) \in Nat
<1>1. g.edges \in [Arcs -> Nat] /\ g.supply \in [Members -> Nat] /\ {m} \in SUBSET Members
  BY DEF Graph
<1>2. Cut(g.edges, g.supply, {m}) \in Nat /\ g.supply[m] \in Nat
  BY <1>1, CutIsLeast
<1> QED  BY <1>2 DEF Reach

\* While the supplies stand, stakes that grow let everyone reach more.
LEMMA ReachGrows ==
    ASSUME NEW g \in Graph, NEW h \in Graph, NEW m \in Members, g.supply = h.supply,
           \A a \in Arcs : g.edges[a] <= h.edges[a]
    PROVE  Reach(g, m) <= Reach(h, m)
<1>1. /\ g.edges \in [Arcs -> Nat] /\ h.edges \in [Arcs -> Nat]
      /\ g.supply \in [Members -> Nat] /\ {m} \in SUBSET Members
  BY DEF Graph
<1>2. Cut(g.edges, g.supply, {m}) <= Cut(h.edges, g.supply, {m})
  BY <1>1, CutGrows
<1>3. Cut(g.edges, g.supply, {m}) \in Nat /\ Cut(h.edges, g.supply, {m}) \in Nat /\ g.supply[m] \in Nat
  BY <1>1, CutIsLeast
<1> QED  BY <1>2, <1>3 DEF Reach

LEMMA StakeType ==
    ASSUME NEW g \in Graph, NEW d \in Members, NEW c \in Members
    PROVE  /\ Stake(g, d, c) \in Graph
           /\ Stake(g, d, c).supply = g.supply
           /\ Stake(g, d, c).reserved = g.reserved /\ Stake(g, d, c).committed = g.committed
           /\ \A a \in Arcs : g.edges[a] <= Stake(g, d, c).edges[a]
<1> DEFINE x == IF g.supply[c] > 0 THEN g.supply[c] ELSE Cut(g.edges, g.supply, {c})
           e == [g.edges EXCEPT ![<<c, d>>] = More(@, Less(Trade, x))]
<1>1. g.edges \in [Arcs -> Nat] /\ g.supply \in [Members -> Nat] /\ {c} \in SUBSET Members
  BY DEF Graph
<1>2. x \in Nat /\ Trade \in Nat
  BY <1>1, CutIsLeast, GateAssumption
<1>3. Stake(g, d, c) = [g EXCEPT !.edges = e]
  BY DEF Stake, Graph
<1>4. \A y \in Nat : More(y, Less(Trade, x)) \in Nat /\ y <= More(y, Less(Trade, x))
  <2> HIDE DEF x
  <2> QED  BY <1>2 DEF More, Less
<1>5. e \in [Arcs -> Nat] /\ \A a \in Arcs : g.edges[a] <= e[a]
  <2> DEFINE z == More(g.edges[<<c, d>>], Less(Trade, x))
  <2>1. <<c, d>> \in Arcs => z \in Nat /\ g.edges[<<c, d>>] <= z
    <3> HIDE DEF x
    <3> QED  BY <1>1, <1>4
  <2>2. e = [g.edges EXCEPT ![<<c, d>>] = z]
    OBVIOUS
  <2> HIDE DEF x, z, e
  <2>3. e = [a \in Arcs |-> IF a = <<c, d>> THEN z ELSE g.edges[a]]
    BY <1>1, <2>2
  <2> QED  BY <1>1, <2>1, <2>3
<1> HIDE DEF e
<1>6. Stake(g, d, c) \in Graph /\ Stake(g, d, c).edges = e
  BY <1>3, <1>5 DEF Graph
<1> QED  BY <1>3, <1>5, <1>6 DEF Graph

-----------------------------------------------------------------------------
(* Seating a pair *)

NewRow(p, h) == [NoRow EXCEPT !.status = "Active", !.slot = TRUE,
                              !.seat = [sponsor |-> p, held |-> h]]

\* The hold of each fresh key among the run of a pair.
Turn(F, m) == IF m = Min(F) THEN 1 ELSE 2

\* A set of at most two keys, by its least.
LEMMA FreshIsSmall ==
    ASSUME NEW F \in SUBSET Members, NEW x \in Members, NEW y \in Members, F \subseteq {x, y}
    PROVE  /\ Cardinality(F) \in Nat /\ IsFiniteSet(F)
           /\ F = {} => Cardinality(F) = 0
           /\ \A m \in F : Turn(F, m) \in 1..Cardinality(F)
           /\ \/ F = {}
              \/ \E u \in F : F = {u} /\ Cardinality(F) = 1 /\ Turn(F, u) = 1
              \/ \E u, v \in F : /\ F = {u, v} /\ u # v /\ Cardinality(F) = 2
                                 /\ Turn(F, u) = 1 /\ Turn(F, v) = 2
<1>1. F \subseteq Nat
  BY MembersAssumption
<1>2. CASE F = {}
  BY <1>2, FS_EmptySet
<1>3. ASSUME NEW u \in F, F = {u}
      PROVE  Cardinality(F) = 1 /\ IsFiniteSet(F) /\ Turn(F, u) = 1
  <2>1. Min(F) \in F
    BY <1>1, <1>3, MinIsIn
  <2> QED  BY <1>3, <2>1, FS_Singleton DEF Turn
<1>4. ASSUME NEW u \in F, NEW v \in F, F = {u, v}, u # v
      PROVE  /\ Cardinality(F) = 2 /\ IsFiniteSet(F)
             /\ \/ Turn(F, u) = 1 /\ Turn(F, v) = 2
                \/ Turn(F, u) = 2 /\ Turn(F, v) = 1
  <2>1. IsFiniteSet({u}) /\ Cardinality({u}) = 1
    BY FS_Singleton
  <2>2. F = {u} \cup {v} /\ v \notin {u}
    BY <1>4
  <2>3. IsFiniteSet(F) /\ Cardinality(F) = 2
    BY <2>1, <2>2, FS_AddElement
  <2>4. Min(F) \in F
    BY <1>1, <1>4, MinIsIn
  <2>5. Min(F) = u \/ Min(F) = v
    BY <1>4, <2>4
  <2> QED  BY <1>4, <2>3, <2>5 DEF Turn
<1>5. F = {} \/ (\E u \in F : F = {u}) \/ (\E u, v \in F : F = {u, v} /\ u # v)
  OBVIOUS
<1>6. CASE \E u \in F : F = {u}
  <2>1. PICK u \in F : F = {u}
    BY <1>6
  <2>2. Cardinality(F) = 1 /\ IsFiniteSet(F) /\ Turn(F, u) = 1
    BY <1>3, <2>1
  <2>3. \A m \in F : Turn(F, m) = 1
    BY <2>1, <2>2
  <2> QED  BY <2>1, <2>2, <2>3
<1>7. CASE \E u, v \in F : F = {u, v} /\ u # v
  <2>1. PICK u \in F, v \in F : F = {u, v} /\ u # v
    BY <1>7
  <2>2. /\ Cardinality(F) = 2 /\ IsFiniteSet(F)
        /\ \/ Turn(F, u) = 1 /\ Turn(F, v) = 2
           \/ Turn(F, u) = 2 /\ Turn(F, v) = 1
    BY <1>4, <2>1
  <2>3. \A m \in F : Turn(F, m) \in {1, 2}
    BY DEF Turn
  <2>4. \A m \in F : Turn(F, m) \in 1..2
    BY <2>3
  <2> QED  BY <2>1, <2>2, <2>4
<1> QED  BY <1>2, <1>5, <1>6, <1>7

Bare(s, F) == \A m \in F : s[m] = NoHold
Joined(s, F, run) == [m \in Members |-> IF m \in F THEN run[Turn(F, m)] ELSE s[m]]

\* What the graph holds once the keys F are seated is what their rows say.
LEMMA PairSeatedAgrees ==
    ASSUME NEW F \in SUBSET Members, NEW x \in Members, NEW y \in Members, F \subseteq {x, y},
           NEW run \in [1..Cardinality(F) -> Holds], NEW g \in Graph,
           NEW s \in [Members -> Holds], Bare(s, F), Agrees(g, s)
    PROVE  /\ SeatsTaken(g, run) \in Graph
           /\ Agrees(SeatsTaken(g, run), Joined(s, F, run))
<1> DEFINE q == Joined(s, F, run)
           n == Cardinality(F)
<1>1. n \in Nat
  BY FreshIsSmall
<1>2. PICK t \in [0..n -> Graph] : OneByOne(t, g, run, n) /\ SeatsTaken(g, run) = t[n]
  BY <1>1, SeatsTakenOneByOne
<1>3. SeatsTaken(g, run) \in Graph
  BY <1>1, <1>2
<1>4. ASSUME F = {}
      PROVE  Agrees(t[n], q)
  <2>1. n = 0
    BY <1>4, FreshIsSmall
  <2>2. q = s
    BY <1>4 DEF Joined
  <2> HIDE DEF q
  <2> QED  BY <1>2, <2>1, <2>2 DEF OneByOne
<1>5. ASSUME NEW u \in F, F = {u}, n = 1, Turn(F, u) = 1
      PROVE  Agrees(t[n], q)
  <2>1. run[1] \in Holds /\ t[0] = g /\ t[1] = SeatTaken(g, run[1])
    <3>1. 1 \in 1..n /\ 1 - 1 = 0
      BY <1>5
    <3> QED  BY <1>2, <3>1 DEF OneByOne
  <2>2. q = [s EXCEPT ![u] = run[1]]
    BY <1>5 DEF Joined
  <2>3. Agrees(SeatTaken(g, run[1]), [s EXCEPT ![u] = run[1]])
    <3>1. s[u] = NoHold /\ u \in Members
      BY DEF Bare
    <3> QED  BY <2>1, <3>1, OneSeated
  <2> QED  BY <1>5, <2>1, <2>2, <2>3
<1>6. ASSUME NEW u \in F, NEW v \in F, F = {u, v}, u # v, n = 2, Turn(F, u) = 1, Turn(F, v) = 2
      PROVE  Agrees(t[n], q)
  <2>1. run[1] \in Holds /\ run[2] \in Holds /\ t[1] = SeatTaken(t[0], run[1]) /\ t[0] = g
    <3>1. 1 \in 1..n /\ 2 \in 1..n /\ 1 - 1 = 0
      BY <1>6
    <3>2. run[1] \in Holds /\ run[2] \in Holds
      BY <3>1
    <3> QED  BY <1>2, <3>1, <3>2 DEF OneByOne
  <2>2. t[2] = SeatTaken(t[1], run[2]) /\ t[1] \in Graph
    <3>1. 2 \in 1..n /\ 1 \in 0..n /\ 2 - 1 = 1
      BY <1>6
    <3> QED  BY <1>2, <3>1 DEF OneByOne
  <2> DEFINE p == [s EXCEPT ![u] = run[1]]
  <2>3. p \in [Members -> Holds] /\ p[v] = NoHold
    BY <1>6, <2>1 DEF Bare
  <2>4. Agrees(t[1], p)
    <3>1. s[u] = NoHold /\ u \in Members
      BY DEF Bare
    <3>2. Agrees(SeatTaken(g, run[1]), [s EXCEPT ![u] = run[1]])
      BY <2>1, <3>1, OneSeated
    <3>3. t[1] = SeatTaken(g, run[1])
      BY <2>1
    <3> QED  BY <3>2, <3>3, Zenon
  <2>5. q = [p EXCEPT ![v] = run[2]]
    BY <1>6 DEF Joined
  <2> HIDE DEF p, q
  <2>6. Agrees(SeatTaken(t[1], run[2]), [p EXCEPT ![v] = run[2]])
    BY <2>1, <2>2, <2>3, <2>4, OneSeated
  <2> QED  BY <1>6, <2>2, <2>5, <2>6
<1> HIDE DEF q
<1>7. Agrees(t[n], q)
  <2>1. \/ F = {}
        \/ \E u \in F : F = {u} /\ n = 1 /\ Turn(F, u) = 1
        \/ \E u, v \in F : F = {u, v} /\ u # v /\ n = 2 /\ Turn(F, u) = 1 /\ Turn(F, v) = 2
    BY FreshIsSmall
  <2> QED  BY <1>2, <1>4, <1>5, <1>6, <2>1
<1> QED  BY <1>2, <1>3, <1>7 DEF q

LEMMA NewRowType ==
    ASSUME NEW p \in Members, NEW h \in Holds, NEW x \in Nat, NEW e, NEW D
    PROVE  /\ Sound(NewRow(p, h), e, D) /\ NewRow(p, h).debt \in Nat
           /\ NewRow(p, h).status = "Active"
           /\ NewRow(p, h).seat = [sponsor |-> p, held |-> h]
<1>1. [sponsor |-> p, held |-> h] \in Seats
  BY DEF Seats
<1> DEFINE z == [sponsor |-> p, held |-> h]
           r == [NoRow EXCEPT !.status = "Active", !.slot = TRUE, !.seat = z]
<1>2. z \in Seats /\ NewRow(p, h) = r
  BY <1>1 DEF NewRow
<1> HIDE DEF z
<1>3. Sound(r, e, D) /\ r \in Row /\ NoRow \in Row
  BY <1>2, NewRowIsSound, NoRowType
<1>4. r.status = "Active" /\ r.seat = z /\ r.debt \in Nat
  BY <1>3 DEF Row
<1> QED  BY <1>2, <1>3, <1>4 DEF z

\* Every row with a seat has a sponsor that has a row.
Sponsored(a) == \A m \in Members : a[m].seat # NoSeat => a[m].seat.sponsor \in Rows(a)

LEMMA SameStanding ==
    ASSUME NEW a, NEW b, \A m \in Members : Standing(a[m]) = Standing(b[m])
    PROVE  /\ SeatsOf(a) = SeatsOf(b) /\ Rows(a) = Rows(b)
           /\ Sponsored(a) => Sponsored(b)
           /\ \A m \in Members : a[m].status = b[m].status
<1>1. \A m \in Members : a[m].status = b[m].status /\ a[m].seat = b[m].seat
  BY DEF Standing
<1> QED  BY <1>1 DEF SeatsOf, Rows, Sponsored

\* A row that keeps its seat and stays a row, or stays none.
Keeps(r, q) == /\ r.seat = q.seat
               /\ r.status \in {"None", "Retired"} <=> q.status \in {"None", "Retired"}

LEMMA RowKept ==
    ASSUME NEW a, NEW m \in Members, NEW r, Keeps(r, a[m]), DOMAIN a = Members
    PROVE  /\ SeatsOf([a EXCEPT ![m] = r]) = SeatsOf(a)
           /\ Rows([a EXCEPT ![m] = r]) = Rows(a)
           /\ Sponsored(a) => Sponsored([a EXCEPT ![m] = r])
<1> DEFINE b == [a EXCEPT ![m] = r]
<1>1. \A x \in Members : b[x].seat = a[x].seat
  BY DEF Keeps
<1>2. \A x \in Members : b[x].status \in {"None", "Retired"} <=> a[x].status \in {"None", "Retired"}
  BY DEF Keeps
<1> HIDE DEF b
<1>3. SeatsOf(b) = SeatsOf(a) /\ Rows(b) = Rows(a)
  BY <1>1, <1>2 DEF SeatsOf, Rows
<1>4. Sponsored(a) => Sponsored(b)
  BY <1>1, <1>3 DEF Sponsored
<1> QED  BY <1>3, <1>4 DEF b

LEMMA EncIsNatural ==
    ASSUME NEW r \in Row
    PROVE  Sum(r.bonds) \in Nat
<1>1. r.bonds \in Books
  BY DEF Row
<1>2. r.bonds \in [DOMAIN r.bonds -> Nat] /\ IsFiniteSet(DOMAIN r.bonds)
  BY <1>1, BookTypes
<1> QED  BY <1>2, SumIsInNat

\* The pair after seat_pair, and its debt.
LEMMA SeatedIsSound ==
    ASSUME NEW a, NEW e, NEW D, AllSound(a, e, D), NEW tx \in Envelopes, tx.kind = "Accept",
           NEW d, d.payer \in Rows(a), Sponsored(a), graph \in Graph, Agrees(graph, SeatsOf(a)),
           NEW run \in [1..Cardinality(Fresh(a, tx)) -> Holds],
           \A m \in {tx.of, tx.to} : a[m].status # "Retired"
    PROVE  /\ AllSound(Seated(a, tx, d, run), e, D)
           /\ SeatsTaken(graph, run) \in Graph
           /\ Agrees(SeatsTaken(graph, run), SeatsOf(Seated(a, tx, d, run)))
           /\ Sponsored(Seated(a, tx, d, run))
<1> DEFINE F == Fresh(a, tx)
           b == [m \in Members |-> IF m \in F THEN NewRow(d.payer, run[Turn(F, m)]) ELSE a[m]]
           q == Joined(SeatsOf(a), F, run)
           c == [b EXCEPT ![tx.of].debt = @ + Trade]
<1>1. /\ tx.of \in Members /\ tx.to \in Members /\ Trade \in Nat
      /\ F \subseteq {tx.of, tx.to} /\ F \in SUBSET Members /\ F \cap Rows(a) = {}
  BY GateAssumption DEF Fresh
<1>2. Seated(a, tx, d, run) = c
  BY DEF Seated, NewRow, Turn
<1>3. \A m \in F : Turn(F, m) \in 1..Cardinality(F)
  BY <1>1, FreshIsSmall
<1>4. d.payer \in Members /\ d.payer \notin F
  BY <1>1 DEF Rows
<1>5. \A m \in F : a[m].seat = NoSeat /\ a[m].status = "None"
  <2>1. \A m \in F : a[m].status \in {"None", "Retired"}
    BY <1>1 DEF Rows
  <2> QED  BY <1>1, <2>1 DEF AllSound, Sound
<1>6. \A m \in F : run[Turn(F, m)] \in Holds
  BY <1>3
<1> HIDE DEF F
<1>7. AllSound(b, e, D)
  <2>1. ASSUME NEW m \in Members
        PROVE  Sound(b[m], e, D[m])
    <3>1. CASE m \in F
      <4>1. b[m] = NewRow(d.payer, run[Turn(F, m)])
        BY <3>1
      <4> QED  BY <1>4, <1>6, <3>1, <4>1, NewRowType
    <3>2. CASE m \notin F
      BY <3>2 DEF AllSound
    <3> QED  BY <3>1, <3>2
  <2>2. b \in Accounts
    <3>1. \A m \in Members : b[m] \in Row
      BY <2>1 DEF Sound
    <3> HIDE DEF b
    <3>2. DOMAIN b = Members /\ b = [m \in Members |-> b[m]]
      BY DEF b
    <3> QED  BY <3>1, <3>2 DEF Accounts
  <2> HIDE DEF b
  <2> QED  BY <2>1, <2>2 DEF AllSound
<1>8. SeatsOf(b) = q
  <2>1. ASSUME NEW m \in Members
        PROVE  b[m].seat.held = q[m]
    <3>1. CASE m \in F
      <4>1. b[m] = NewRow(d.payer, run[Turn(F, m)]) /\ q[m] = run[Turn(F, m)]
        BY <3>1 DEF Joined
      <4>2. b[m].seat = [sponsor |-> d.payer, held |-> run[Turn(F, m)]]
        BY <1>4, <1>6, <3>1, <4>1, NewRowType
      <4> QED  BY <4>1, <4>2
    <3>2. CASE m \notin F
      BY <3>2 DEF SeatsOf, Joined
    <3> QED  BY <3>1, <3>2
  <2> HIDE DEF b
  <2>2. q = [m \in Members |-> q[m]]
    BY DEF Joined
  <2> HIDE DEF q
  <2> QED  BY <2>1, <2>2 DEF SeatsOf
<1>9. SeatsTaken(graph, run) \in Graph /\ Agrees(SeatsTaken(graph, run), q)
  <2>1. SeatsOf(a) \in [Members -> Holds]
    BY SeatsOfType DEF AllSound
  <2>2. Bare(SeatsOf(a), F)
    BY <1>1, <1>5 DEF SeatsOf, NoSeat, Bare
  <2>3. run \in [1..Cardinality(F) -> Holds]
    BY DEF F
  <2> QED  BY <1>1, <2>1, <2>2, <2>3, PairSeatedAgrees
<1>10. Rows(a) \subseteq Rows(b) /\ Sponsored(b)
  <2>1. \A m \in Rows(a) : m \in Members /\ m \notin F /\ b[m] = a[m]
    BY <1>1 DEF Rows
  <2>2. Rows(a) \subseteq Rows(b)
    BY <2>1 DEF Rows
  <2>3. ASSUME NEW m \in Members, b[m].seat # NoSeat
        PROVE  b[m].seat.sponsor \in Rows(b)
    <3>1. CASE m \in F
      <4>1. b[m] = NewRow(d.payer, run[Turn(F, m)])
        BY <3>1
      <4>2. b[m].seat = [sponsor |-> d.payer, held |-> run[Turn(F, m)]]
        BY <1>4, <1>6, <3>1, <4>1, NewRowType
      <4>3. b[m].seat.sponsor = d.payer
        BY <4>2
      <4> QED  BY <2>2, <4>3
    <3>2. CASE m \notin F
      <4>1. b[m] = a[m]
        BY <3>2
      <4>2. a[m].seat.sponsor \in Rows(a)
        BY <2>3, <4>1 DEF Sponsored
      <4> QED  BY <2>2, <4>1, <4>2
    <3> QED  BY <3>1, <3>2
  <2> HIDE DEF b
  <2> QED  BY <2>2, <2>3 DEF Sponsored
<1> HIDE DEF b, q
<1>11. AllSound(c, e, D) /\ SeatsOf(c) = SeatsOf(b) /\ Sponsored(c)
  <2> DEFINE r == [b[tx.of] EXCEPT !.debt = @ + Trade]
  <2>1. Sound(b[tx.of], e, D[tx.of]) /\ b[tx.of] \in Row /\ DOMAIN b = Members
    BY <1>1, <1>7 DEF AllSound, Sound, Accounts
  <2>2. b[tx.of].debt + Trade \in Nat
    BY <1>1, <2>1 DEF Row
  <2>3. Sound(r, e, D[tx.of])
    BY <2>1, <2>2, HandledRow
  <2>4. Keeps(r, b[tx.of])
    BY <2>1 DEF Row, Keeps
  <2>5. c = [b EXCEPT ![tx.of] = r]
    OBVIOUS
  <2> HIDE DEF r, c
  <2> QED  BY <1>1, <1>7, <1>10, <2>1, <2>3, <2>4, <2>5, OneRowChanges, RowKept
<1> QED  BY <1>2, <1>8, <1>9, <1>11

-----------------------------------------------------------------------------
(* What the rows and the graph keep *)

SaneAs(e, a, g, f, D) ==
    /\ e \in Nat
    /\ D \in [Members -> SUBSET Nat]
    /\ AllSound(a, e, D)
    /\ g \in Graph
    /\ f \in [Members -> Nat]
    /\ Agrees(g, SeatsOf(a))
    /\ Sponsored(a)

Healthy == SaneAs(epoch, acct, graph, forfeited, denials)

\* One row changed, the seats and the standing of its member kept.
LEMMA OneRowSane ==
    ASSUME NEW e, NEW a, NEW g, NEW f, NEW D, SaneAs(e, a, g, f, D),
           NEW m \in Members, NEW r, Sound(r, e, D[m]), Keeps(r, a[m])
    PROVE  SaneAs(e, [a EXCEPT ![m] = r], g, f, D)
<1>1. DOMAIN a = Members
  BY DEF SaneAs, AllSound, Accounts
<1>2. AllSound([a EXCEPT ![m] = r], e, D)
  BY OneRowChanges DEF SaneAs
<1> QED  BY <1>1, <1>2, RowKept DEF SaneAs

LEMMA SettleIsSane ==
    ASSUME NEW a, SaneAs(epoch, a, graph, forfeited, denials), NEW tx \in Envelopes,
           tx.kind = "Settle", CanTake(a, tx)
    PROVE  SaneAs(epoch, [a EXCEPT ![tx.of].debt = @ - Trade], Stake(graph, tx.of, tx.to),
                  forfeited, denials)
<1> DEFINE m == tx.of
           q == a[m]
           r == [q EXCEPT !.debt = @ - Trade]
           b == [a EXCEPT ![m] = r]
<1>1. m \in Members /\ tx.to \in Members /\ Trade \in Nat
  BY GateAssumption
<1>2. Sound(q, epoch, denials[m]) /\ q \in Row
  BY <1>1 DEF SaneAs, AllSound, Sound
<1>3. q.debt \in Nat /\ q.dflt \in Nat
  BY <1>2 DEF Row
<1>4. q.debt >= q.dflt + Trade
  BY DEF CanTake
<1>5. q.debt - Trade \in Nat
  BY <1>1, <1>3, <1>4
<1>6. Sound(r, epoch, denials[m]) /\ Keeps(r, q)
  BY <1>2, <1>5, HandledRow DEF Row, Keeps
<1> HIDE DEF r
<1>7. SaneAs(epoch, b, graph, forfeited, denials)
  BY <1>1, <1>6, OneRowSane
<1>8. /\ Stake(graph, m, tx.to) \in Graph
      /\ Stake(graph, m, tx.to).reserved = graph.reserved
      /\ Stake(graph, m, tx.to).committed = graph.committed
  BY <1>1, StakeType DEF SaneAs
<1>9. [a EXCEPT ![tx.of].debt = @ - Trade] = b
  BY DEF r
<1> HIDE DEF b
<1>10. SaneAs(epoch, b, Stake(graph, m, tx.to), forfeited, denials)
  BY <1>7, <1>8 DEF SaneAs, Agrees
<1> QED  BY <1>9, <1>10

LEMMA LowerIsSane ==
    ASSUME NEW a, SaneAs(epoch, a, graph, forfeited, denials), NEW m \in Members, NEW x \in Nat
    PROVE  SaneAs(epoch, a, [graph EXCEPT !.supply[m] = x], forfeited, denials)
<1> DEFINE p == [graph.supply EXCEPT ![m] = x]
           g == [graph EXCEPT !.supply = p]
<1>1. graph \in Graph /\ p \in [Members -> Nat]
  BY DEF SaneAs, Graph
<1>2. [graph EXCEPT !.supply[m] = x] = g
  OBVIOUS
<1> HIDE DEF p
<1>3. g \in Graph /\ g.reserved = graph.reserved /\ g.committed = graph.committed
  BY <1>1 DEF Graph
<1> HIDE DEF g
<1> QED  BY <1>2, <1>3 DEF SaneAs, Agrees

LEMMA ExitIsSane ==
    ASSUME NEW a, SaneAs(epoch, a, graph, forfeited, denials), NEW m \in Members,
           NEW s \in {"Active", "Suspended", "Exited"}, a[m].status \in {"Active", "Suspended"}
    PROVE  SaneAs(epoch, [a EXCEPT ![m].status = s], graph, forfeited, denials)
<1> DEFINE q == a[m]
           r == [q EXCEPT !.status = s]
<1>1. Sound(q, epoch, denials[m]) /\ q \in Row
  BY DEF SaneAs, AllSound, Sound
<1>2. Sound(r, epoch, denials[m])
  BY <1>1, HandledRow
<1>3. Keeps(r, q)
  BY <1>1 DEF Row, Keeps
<1>4. [a EXCEPT ![m].status = s] = [a EXCEPT ![m] = r]
  OBVIOUS
<1> HIDE DEF r
<1> QED  BY <1>2, <1>3, <1>4, OneRowSane

LEMMA OtherForfeits ==
    ASSUME NEW e, NEW a, NEW g, NEW f, NEW D, SaneAs(e, a, g, f, D), NEW h \in [Members -> Nat]
    PROVE  SaneAs(e, a, g, h, D)
BY DEF SaneAs

LEMMA ClearedIsSane ==
    ASSUME NEW a, SaneAs(epoch, a, graph, forfeited, denials), NEW m \in Members,
           NEW r, r = [a[m] EXCEPT !.bonds = <<>>, !.saturated = 0, !.denied = FALSE]
    PROVE  SaneAs(epoch, [a EXCEPT ![m] = r], graph, forfeited, denials)
<1>1. Sound(a[m], epoch, denials[m]) /\ a[m] \in Row
  BY DEF SaneAs, AllSound, Sound
<1>2. Sound(r, epoch, denials[m])
  BY <1>1, HandledRow
<1>3. Keeps(r, a[m])
  BY <1>1 DEF Row, Keeps
<1> QED  BY <1>2, <1>3, OneRowSane

LEMMA ReserveType ==
    ASSUME NEW a, forfeited \in [Members -> Nat], a \in Accounts, NEW M
    PROVE  Reserve(a, M) \in [Members -> Nat]
<1>1. ASSUME NEW m \in Members
      PROVE  forfeited[m] + (IF m \in M THEN Enc(a, m) ELSE 0) \in Nat
  <2>1. Enc(a, m) \in Nat /\ forfeited[m] \in Nat
    BY EncIsNatural DEF Enc, Accounts
  <2> QED  BY <2>1
<1> QED  BY <1>1 DEF Reserve

LEMMA ForfeitIsSane ==
    ASSUME NEW a, SaneAs(epoch, a, graph, forfeited, denials), NEW m \in Members
    PROVE  SaneAs(epoch, Forfeiting(a, {m}), graph, Reserve(a, {m}), denials)
<1> DEFINE r == [a[m] EXCEPT !.bonds = <<>>, !.saturated = 0, !.denied = FALSE]
           b == [a EXCEPT ![m] = r]
<1>1. a \in Accounts /\ DOMAIN a = Members
  BY DEF SaneAs, AllSound, Accounts
<1>2. Forfeiting(a, {m}) = b
  <2> HIDE DEF r
  <2>1. \A x \in Members : b[x] = IF x \in {m} THEN r ELSE a[x]
    BY <1>1
  <2> QED  BY <1>1, <2>1 DEF Forfeiting, r
<1>3. SaneAs(epoch, b, graph, forfeited, denials)
  BY ClearedIsSane
<1>4. Reserve(a, {m}) \in [Members -> Nat]
  BY <1>1, ReserveType DEF SaneAs
<1> HIDE DEF b
<1> QED  BY <1>2, <1>3, <1>4, OtherForfeits

LEMMA EffectIsSane ==
    ASSUME NEW a, SaneAs(epoch, a, graph, forfeited, denials), NEW tx \in Envelopes, NEW d,
           tx.kind = "Accept" => d.payer \in Rows(a) /\ \A m \in {tx.of, tx.to} : a[m].status # "Retired",
           CanTake(a, tx), Effect(a, tx, d)
    PROVE  SaneAs(epoch, acct', graph', forfeited', denials)
<1>1. CASE tx.kind = "Accept"
  <2> DEFINE n == Cardinality(Fresh(a, tx))
  <2>1. PICK run \in SeatRuns(d.payer, n) :
           acct' = Seated(a, tx, d, run) /\ graph' = SeatsTaken(graph, run) /\ forfeited' = forfeited
    BY <1>1 DEF Effect
  <2>2. n \in Nat /\ d.payer \in Members
    <3>1. Fresh(a, tx) \in SUBSET Members /\ Fresh(a, tx) \subseteq {tx.of, tx.to}
      BY <1>1, EnvelopeTypes DEF Fresh
    <3>2. n \in Nat
      BY <3>1, EnvelopeTypes, FreshIsSmall
    <3> QED  BY <1>1, <3>2 DEF Rows
  <2>3. run \in [1..n -> Holds]
    BY <2>1, <2>2, SeatRunsAreHolds
  <2>4. /\ AllSound(Seated(a, tx, d, run), epoch, denials)
        /\ SeatsTaken(graph, run) \in Graph
        /\ Agrees(SeatsTaken(graph, run), SeatsOf(Seated(a, tx, d, run)))
        /\ Sponsored(Seated(a, tx, d, run))
    BY <1>1, <2>3, SeatedIsSound DEF SaneAs
  <2> QED  BY <2>1, <2>4 DEF SaneAs
<1>2. CASE tx.kind = "Settle"
  <2>1. /\ acct' = [a EXCEPT ![tx.of].debt = @ - Trade]
        /\ graph' = Stake(graph, tx.of, tx.to) /\ forfeited' = forfeited
    BY <1>2 DEF Effect
  <2> QED  BY <1>2, <2>1, SettleIsSane
<1>3. CASE tx.kind = "Lower"
  <2>1. graph' = [graph EXCEPT !.supply[tx.of] = tx.level] /\ acct' = a /\ forfeited' = forfeited
    BY <1>3 DEF Effect
  <2> QED  BY <2>1, LowerIsSane, EnvelopeTypes
<1>4. CASE tx.kind = "Exit"
  <2>1. acct' = [a EXCEPT ![tx.of].status = "Exited"] /\ graph' = graph /\ forfeited' = forfeited
    BY <1>4 DEF Effect
  <2>2. a[tx.of].status \in {"Active", "Suspended"}
    BY <1>4 DEF CanTake
  <2> QED  BY <2>1, <2>2, ExitIsSane, EnvelopeTypes
<1>5. CASE tx.kind = "Forfeit"
  <2>1. acct' = Forfeiting(a, {tx.of}) /\ forfeited' = Reserve(a, {tx.of}) /\ graph' = graph
    BY <1>5 DEF Effect
  <2>2. SaneAs(epoch, Forfeiting(a, {tx.of}), graph, Reserve(a, {tx.of}), denials)
    BY EnvelopeTypes, ForfeitIsSane
  <2> QED  BY <2>1, <2>2
<1>6. CASE tx.kind \in {"Register", "Propose"}
  <2>1. acct' = a /\ graph' = graph /\ forfeited' = forfeited
    BY <1>6 DEF Effect
  <2> QED  BY <2>1
<1> QED  BY <1>1, <1>2, <1>3, <1>4, <1>5, <1>6 DEF Effect

LEMMA ChargedIsSane ==
    ASSUME NEW a, SaneAs(epoch, a, graph, forfeited, denials), NEW S \in SUBSET Members, NEW d, IsBill(d, a, S)
    PROVE  SaneAs(epoch, Charge(a, d), graph, forfeited, denials)
<1> DEFINE b == Charge(a, d)
<1>1. AllSound(b, epoch, denials) /\ \A m \in Members : Standing(a[m]) = Standing(b[m])
  BY ChargeIsSound DEF SaneAs
<1> HIDE DEF b
<1>2. SaneAs(epoch, b, graph, forfeited, denials)
  BY <1>1, SameStanding DEF SaneAs
<1> QED  BY <1>2 DEF b

LEMMA RefundedIsSane ==
    ASSUME NEW a, SaneAs(epoch, a, graph, forfeited, denials), NEW S \in SUBSET Members, NEW d, IsBill(d, acct, S)
    PROVE  SaneAs(epoch, Refund(a, d), graph, forfeited, denials)
<1> DEFINE b == Refund(a, d)
<1>1. AllSound(b, epoch, denials) /\ \A m \in Members : Standing(a[m]) = Standing(b[m])
  BY RefundIsSound DEF SaneAs
<1> HIDE DEF b
<1>2. SaneAs(epoch, b, graph, forfeited, denials)
  BY <1>1, SameStanding DEF SaneAs
<1> QED  BY <1>2 DEF b

\* A denial is on the row and in the history by the same step.
LEMMA DenialIsSane ==
    ASSUME SaneAs(epoch, acct, graph, forfeited, denials), NEW m \in Members
    PROVE  SaneAs(epoch, [acct EXCEPT ![m].denied = TRUE], graph, forfeited,
                  [denials EXCEPT ![m] = @ \cup {epoch}])
<1> DEFINE r == [acct[m] EXCEPT !.denied = TRUE]
           b == [acct EXCEPT ![m] = r]
           D == [denials EXCEPT ![m] = @ \cup {epoch}]
<1>1. Sound(acct[m], epoch, denials[m]) /\ acct[m] \in Row /\ DOMAIN acct = Members /\ epoch \in Nat
  BY DEF SaneAs, AllSound, Sound, Accounts
<1>2. Sound(r, epoch, denials[m] \cup {epoch})
  BY <1>1, HandledRow
<1>3. Keeps(r, acct[m]) /\ r \in Row
  BY <1>1 DEF Row, Keeps
<1>4. D \in [Members -> SUBSET Nat] /\ D[m] = denials[m] \cup {epoch}
      /\ \A x \in Members : x # m => D[x] = denials[x]
  BY <1>1 DEF SaneAs
<1>5. [acct EXCEPT ![m].denied = TRUE] = b
  OBVIOUS
<1> HIDE DEF r, D
<1>6. b \in Accounts /\ b[m] = r /\ \A x \in Members : x # m => b[x] = acct[x]
  BY <1>3 DEF SaneAs, AllSound, Accounts
<1>7. SeatsOf(b) = SeatsOf(acct) /\ Sponsored(b)
  BY <1>1, <1>3, RowKept DEF SaneAs
<1> HIDE DEF b
<1>8. \A x \in Members : Sound(b[x], epoch, D[x])
  BY <1>2, <1>4, <1>6 DEF SaneAs, AllSound
<1>9. SaneAs(epoch, b, graph, forfeited, D)
  BY <1>4, <1>6, <1>7, <1>8 DEF SaneAs, AllSound
<1> QED  BY <1>5, <1>9 DEF D

LEMMA ApplyIsSane ==
    ASSUME Healthy, NEW tx \in Envelopes, NEW S \in tx.copies, Apply(tx, S)
    PROVE  Healthy'
<1> SUFFICES ASSUME SaneAs(epoch, acct, graph, forfeited, denials)
             PROVE  SaneAs(epoch, acct', graph', forfeited', denials')
  BY DEF Healthy, Apply
<1> DEFINE d == Due(Known, tx, S)
<1>1. S \in SUBSET Members /\ tx.of \in Members /\ tx.to \in Members
  BY EnvelopeTypes
<1>2. IsBill(d, acct, S) /\ (d = Free <=> Multiple(tx) = 0)
  BY <1>1, DueIsABill
<1>3. Named(acct, tx)
  BY DEF Apply
<1>4. CASE Refused(tx, S, d)
  <2>1. CASE Short(d) /\ IsActive(acct, d.payer)
    <3>1. d.payer \in Members
      <4> HIDE DEF d
      <4>1. d.what \in {"Bond", "Seat"}
        BY <2>1 DEF Short, Bonded
      <4> QED  BY <1>1, <1>2, <4>1 DEF IsBill, Free, Unpayable, Bill, Payers
    <3>2. /\ acct' = [acct EXCEPT ![d.payer].denied = TRUE]
          /\ denials' = [denials EXCEPT ![d.payer] = @ \cup {epoch}]
          /\ graph' = graph /\ forfeited' = forfeited
      BY <1>4, <2>1 DEF Refused
    <3> QED  BY <3>1, <3>2, DenialIsSane
  <2>2. CASE ~(Short(d) /\ IsActive(acct, d.payer))
    <3>1. acct' = acct /\ denials' = denials /\ graph' = graph /\ forfeited' = forfeited
      BY <1>4, <2>2 DEF Refused
    <3> QED  BY <3>1
  <2> QED  BY <2>1, <2>2
<1> DEFINE a == Charge(acct, d)
<1>5. SaneAs(epoch, a, graph, forfeited, denials)
  BY <1>1, <1>2, ChargedIsSane
<1>6. CASE Unauthorised(tx, S, d)
  <2>1. acct' = Refund(a, d) /\ denials' = denials /\ graph' = graph /\ forfeited' = forfeited
    BY <1>6 DEF Unauthorised
  <2> HIDE DEF a, d
  <2> QED  BY <1>1, <1>2, <1>5, <2>1, RefundedIsSane
<1>7. CASE Rejected(tx, S, d)
  <2> DEFINE bill == RefusalBill(a, tx, S)
  <2>1. /\ acct' = IF d = Free THEN Charge(a, bill) ELSE a
        /\ denials' = denials /\ graph' = graph /\ forfeited' = forfeited
    BY <1>7 DEF Rejected
  <2>2. IsBill(bill, a, S)
    BY <1>1, RefusalIsABill
  <2> HIDE DEF bill, a
  <2>3. SaneAs(epoch, Charge(a, bill), graph, forfeited, denials)
    BY <1>1, <1>5, <2>2, ChargedIsSane
  <2> QED  BY <1>5, <2>1, <2>3
<1>8. CASE Taken(tx, S, d) /\ ~Refuses(d, tx)
  <2>1. /\ CanTake(a, tx) /\ Effect(a, tx, d) /\ denials' = denials
    BY <1>8 DEF Taken
  <2>2. \A m \in Members : Standing(a[m]) = Standing(acct[m])
    BY <1>1, <1>2, ChargeIsSound DEF SaneAs
  <2>3. Rows(a) = Rows(acct) /\ \A m \in Members : a[m].status = acct[m].status
    BY <2>2, SameStanding
  <2>4. tx.kind = "Accept" => d.payer \in Rows(acct)
    <3>1. tx.kind = "Accept" => d # Free /\ d # Unpayable
      BY <1>2, <1>8, MultipleType DEF Refuses
    <3> QED  BY <1>2, <3>1 DEF IsBill, Payers
  <2>5. tx.kind = "Accept" => \A m \in {tx.of, tx.to} : a[m].status # "Retired"
    BY <1>1, <1>3, <2>3 DEF Named
  <2> HIDE DEF a, d
  <2> QED  BY <1>5, <2>1, <2>3, <2>4, <2>5, EffectIsSane
<1> QED  BY <1>4, <1>6, <1>7, <1>8 DEF Apply

\* A row after the boundary, the default of an overdue one raised.
Passed(r, n, m, late) ==
    IF m \in late THEN [CrossedRow(r, n) EXCEPT !.dflt = CrossedRow(r, n).debt] ELSE CrossedRow(r, n)

\* What stays of a row once its bonds of the epoch e are released.
Freed(r, e) == [r EXCEPT !.bonds = Restrict(@, {k \in DOMAIN @ : k > e})]

LEMMA PassedRow ==
    ASSUME NEW r, NEW e \in Nat, NEW D, Sound(r, e, D), NEW n \in Nat \ {0}, NEW m, NEW late
    PROVE  /\ CrossedRow(r, n) \in Row /\ CrossedRow(r, n).seat = r.seat
           /\ Passed(r, n, m, late) \in Row /\ Passed(r, n, m, late).bonds = r.bonds
           /\ Passed(r, n, m, late).saturated = CrossedRow(r, n).saturated
           /\ Sound(Freed(Passed(r, n, m, late), e + n), e + n, D)
           /\ Passed(r, n, m, late).status = r.status /\ Passed(r, n, m, late).seat = r.seat
           /\ Freed(Passed(r, n, m, late), e + n).status = r.status
           /\ Freed(Passed(r, n, m, late), e + n).seat = r.seat
<1> DEFINE T == {k \in DOMAIN r.bonds : k > e + n}
           b == Restrict(r.bonds, T)
           c == CrossedRow(r, n)
           p == Passed(r, n, m, late)
           f == [p EXCEPT !.bonds = b]
<1>1. r \in Row /\ r.bonds \in Books /\ r.debt \in Nat
  BY DEF Sound, Row
<1>2. b \in Books
  BY <1>1, BookParts
<1>3. \A x \in Nat : /\ c \in Row /\ c.bonds = r.bonds /\ c.status = r.status /\ c.seat = r.seat
                     /\ Sound([c EXCEPT !.bonds = b], e + n, D)
                     /\ Sound([[c EXCEPT !.dflt = x] EXCEPT !.bonds = b], e + n, D)
  BY <1>2, BoundaryRow
<1>4. c \in Row /\ c.bonds = r.bonds /\ c.status = r.status /\ c.seat = r.seat
  BY <1>3
<1> HIDE DEF c, b
<1>5. p = IF m \in late THEN [c EXCEPT !.dflt = c.debt] ELSE c
  BY DEF Passed, c
<1> HIDE DEF p
<1>6. p \in Row /\ p.bonds = r.bonds /\ p.status = r.status /\ p.seat = r.seat /\ p.saturated = c.saturated
  BY <1>4, <1>5 DEF Row
<1>7. Sound(f, e + n, D)
  <2>1. c.debt \in Nat
    BY <1>4 DEF Row
  <2> QED  BY <1>3, <1>5, <2>1
<1>8. f.status = r.status /\ f.seat = r.seat
  BY <1>2, <1>6 DEF Row
<1>9. Freed(p, e + n) = f
  BY <1>6 DEF Freed, b
<1> HIDE DEF f
<1>10. Sound(Freed(p, e + n), e + n, D) /\ Freed(p, e + n).status = r.status /\ Freed(p, e + n).seat = r.seat
  BY <1>7, <1>8, <1>9
<1> QED  BY <1>4, <1>6, <1>10 DEF p, c

\* A row whose bonds the crank forfeits.
Cleared(r) == [r EXCEPT !.bonds = <<>>, !.saturated = 0, !.denied = FALSE]

LEMMA ClearedRow ==
    ASSUME NEW r \in Row, NEW e, NEW D, Sound(Freed(r, e), e, D)
    PROVE  /\ Sound(Freed(Cleared(r), e), e, D)
           /\ Cleared(r).status = r.status /\ Cleared(r).seat = r.seat /\ Cleared(r).bonds = <<>>
           /\ Freed(Cleared(r), e).status = r.status /\ Freed(Cleared(r), e).seat = r.seat
           /\ DOMAIN Freed(Cleared(r), e).bonds = {}
<1> DEFINE q == Cleared(r)
           c == Cleared(Freed(r, e))
           b == Restrict(q.bonds, {k \in DOMAIN q.bonds : k > e})
<1>1. q \in Row /\ q.bonds = <<>> /\ q.status = r.status /\ q.seat = r.seat
  BY EmptyBook DEF Cleared, Row
<1>2. b \in Books /\ DOMAIN b = {}
  BY <1>1, EmptyBook, BookParts
<1>3. Sound(c, e, D)
  <2>1. 0 \in Nat
    OBVIOUS
  <2> QED  BY <2>1, HandledRow DEF Cleared
<1>4. Sound([c EXCEPT !.bonds = b], e, D)
  <2>1. 0 \in Nat /\ FALSE \in BOOLEAN /\ DOMAIN b \subseteq Span(e)
    BY <1>2
  <2> HIDE DEF c, b
  <2> QED  BY <1>2, <1>3, <2>1, PaidRow
<1>5. Freed(q, e) = [q EXCEPT !.bonds = b]
  BY <1>1 DEF Freed, Row
<1>6. [c EXCEPT !.bonds = b] = [q EXCEPT !.bonds = b]
  <2> HIDE DEF b
  <2> QED  BY DEF Cleared, Freed, Row
<1> HIDE DEF c, q, b
<1>7. /\ [q EXCEPT !.bonds = b].status = r.status /\ [q EXCEPT !.bonds = b].seat = r.seat
      /\ [q EXCEPT !.bonds = b].bonds = b
  BY <1>1 DEF Row
<1> QED  BY <1>1, <1>2, <1>4, <1>5, <1>6, <1>7 DEF q

\* A row after the boundary and its cranks, M the members they forfeit.
Crossing(r, n, m, late, M) == IF m \in M THEN Cleared(Passed(r, n, m, late)) ELSE Passed(r, n, m, late)

LEMMA CrossingRow ==
    ASSUME NEW r, NEW e \in Nat, NEW D, Sound(r, e, D), NEW n \in Nat \ {0}, NEW m, NEW late, NEW M
    PROVE  /\ Sound(Freed(Crossing(r, n, m, late, M), e + n), e + n, D)
           /\ Crossing(r, n, m, late, M).status = r.status /\ Crossing(r, n, m, late, M).seat = r.seat
           /\ Freed(Crossing(r, n, m, late, M), e + n).status = r.status
           /\ Freed(Crossing(r, n, m, late, M), e + n).seat = r.seat
<1> DEFINE p == Passed(r, n, m, late)
<1>1. /\ p \in Row /\ p.status = r.status /\ p.seat = r.seat
      /\ Sound(Freed(p, e + n), e + n, D)
      /\ Freed(p, e + n).status = r.status /\ Freed(p, e + n).seat = r.seat
  BY PassedRow
<1> HIDE DEF p
<1>2. CASE m \in M
  <2>1. Crossing(r, n, m, late, M) = Cleared(p)
    BY <1>2 DEF Crossing, p
  <2> QED  BY <1>1, <2>1, ClearedRow
<1>3. CASE m \notin M
  <2>1. Crossing(r, n, m, late, M) = p
    BY <1>3 DEF Crossing, p
  <2> QED  BY <1>1, <2>1
<1> QED  BY <1>2, <1>3

LEMMA RetiredRow ==
    ASSUME NEW e \in Nat, NEW D
    PROVE  LET r == Freed([NoRow EXCEPT !.status = "Retired"], e)
           IN Sound(r, e, D) /\ r.status = "Retired" /\ r.seat = NoSeat
<1> DEFINE q == [NoRow EXCEPT !.status = "Retired"]
           b == Restrict(q.bonds, {k \in DOMAIN q.bonds : k > e})
<1>1. NoSeat \in Seats
  BY NoHoldTakesNothing DEF NoSeat, Seats
<1>2. NoRow \in Row /\ q \in Row /\ Sound(q, e, D)
  BY <1>1, NoRowType, NewRowIsSound
<1>3. q.status = "Retired" /\ q.seat = NoSeat /\ q.bonds = <<>>
  <2>1. NoRow.seat = NoSeat /\ NoRow.bonds = <<>>
    BY DEF NoRow
  <2> QED  BY <1>2, <2>1 DEF Row
<1> HIDE DEF q
<1>4. q.bonds \in Books
  BY <1>2 DEF Row
<1>5. b \in Books /\ DOMAIN b = {}
  BY <1>3, <1>4, EmptyBook, BookParts
<1>6. DOMAIN b \subseteq Span(e)
  BY <1>5
<1>7. Freed(q, e) = [q EXCEPT !.bonds = b]
  BY <1>2 DEF Freed, Row
<1> HIDE DEF b
<1>8. Sound([q EXCEPT !.bonds = b], e, D) /\ Standing([q EXCEPT !.bonds = b]) = Standing(q)
  <2>1. 0 \in Nat /\ FALSE \in BOOLEAN
    OBVIOUS
  <2> QED  BY <1>2, <1>5, <1>6, <2>1, PaidRow
<1>9. Freed(q, e).status = "Retired" /\ Freed(q, e).seat = NoSeat
  <2>1. q \in Row /\ b \in Books
    BY <1>2, <1>5
  <2> QED  BY <1>3, <1>7, <2>1 DEF Row
<1> QED  BY <1>7, <1>8, <1>9 DEF q

LEMMA BoundaryIsSane ==
    ASSUME Healthy, NEW n \in 1..MaxAdvance, BeginBlock(n)
    PROVE  Healthy'
<1> SUFFICES ASSUME SaneAs(epoch, acct, graph, forfeited, denials)
             PROVE  SaneAs(epoch', acct', graph', forfeited', denials')
  BY DEF Healthy
<1> DEFINE e == epoch + n
           a == Reset(acct, n)
           g == Times(Faded, graph, n)
<1>1. n \in Nat \ {0} /\ epoch \in Nat /\ e \in Nat
  BY GateAssumption DEF SaneAs
<1>2. acct \in Accounts /\ graph \in Graph /\ \A m \in Members : Sound(acct[m], epoch, denials[m])
  BY DEF SaneAs, AllSound
<1>3. Times(Crossed, acct, n) = a
  BY <1>1, <1>2, TimesCrossed
<1>4. \A m \in Members : a[m] = CrossedRow(acct[m], n)
  BY DEF Reset, CrossedRow
<1> DEFINE M == Sanctioned(a)
<1>5. PICK late \in SUBSET {m \in Rows(a) : a[m].debt > a[m].dflt} :
        \E R \in SUBSET Empty(Forfeiting(Overdue(a, late), M), Reserve(a, M)) :
           /\ acct' = Released(Retired(Forfeiting(Overdue(a, late), M), R), e)
           /\ graph' = Vacated(g, a, R)
  BY <1>3 DEF BeginBlock
<1>6. PICK R \in SUBSET Empty(Forfeiting(Overdue(a, late), M), Reserve(a, M)) :
        acct' = Released(Retired(Forfeiting(Overdue(a, late), M), R), e) /\ graph' = Vacated(g, a, R)
  BY <1>5
<1>7. epoch' = e /\ forfeited' = Reserve(a, M) /\ denials' = denials
  BY <1>3 DEF BeginBlock
<1> HIDE DEF M
<1> DEFINE o == Forfeiting(Overdue(a, late), M)
           b == Released(Retired(o, R), e)
<1>8. ASSUME NEW m \in Members
      PROVE  o[m] = Crossing(acct[m], n, m, late, M)
  <2>1. Overdue(a, late)[m] = Passed(acct[m], n, m, late)
    BY <1>4 DEF Overdue, Passed
  <2> QED  BY <2>1 DEF Forfeiting, Crossing, Cleared
<1>9. ASSUME NEW m \in Members
      PROVE  o[m].status = acct[m].status /\ o[m].seat = acct[m].seat
  <2>1. /\ Crossing(acct[m], n, m, late, M).status = acct[m].status
        /\ Crossing(acct[m], n, m, late, M).seat = acct[m].seat
    BY <1>1, <1>2, CrossingRow
  <2> QED  BY <1>8, <2>1
<1>10. Rows(o) = Rows(acct)
  BY <1>9 DEF Rows
<1>11. R \subseteq Members /\ \A m \in R, x \in Rows(acct) : acct[x].seat.sponsor # m
  <2>1. R \subseteq Empty(o, Reserve(a, M))
    BY <1>6
  <2>2. R \subseteq Members
    BY <2>1 DEF Empty, Rows
  <2>3. ASSUME NEW m \in R, NEW x \in Rows(acct)
        PROVE  acct[x].seat.sponsor # m
    <3>1. \A y \in Rows(o) : o[y].seat.sponsor # m
      BY <2>1 DEF Empty
    <3>2. x \in Members /\ x \in Rows(o)
      BY <1>10 DEF Rows
    <3> QED  BY <1>9, <3>1, <3>2
  <2> QED  BY <2>2, <2>3
<1>12. ASSUME NEW m \in Members
       PROVE  b[m] = IF m \in R THEN Freed([NoRow EXCEPT !.status = "Retired"], e)
                     ELSE Freed(Crossing(acct[m], n, m, late, M), e)
  <2>1. Retired(o, R)[m] = IF m \in R THEN [NoRow EXCEPT !.status = "Retired"] ELSE o[m]
    BY DEF Retired
  <2>2. b[m] = Freed(Retired(o, R)[m], e)
    BY DEF Released, Freed
  <2> HIDE DEF b, o
  <2> QED  BY <1>8, <2>1, <2>2
<1>13. ASSUME NEW m \in Members
       PROVE  /\ Sound(b[m], e, denials[m])
              /\ b[m].status = IF m \in R THEN "Retired" ELSE acct[m].status
              /\ b[m].seat = IF m \in R THEN NoSeat ELSE acct[m].seat
  <2> HIDE DEF b
  <2>1. CASE m \in R
    <3> DEFINE r == Freed([NoRow EXCEPT !.status = "Retired"], e)
    <3>1. Sound(r, e, denials[m]) /\ r.status = "Retired" /\ r.seat = NoSeat
      BY <1>1, RetiredRow
    <3>2. b[m] = r
      BY <1>12, <2>1
    <3> QED  BY <2>1, <3>1, <3>2
  <2>2. CASE m \notin R
    <3> DEFINE r == Freed(Crossing(acct[m], n, m, late, M), e)
    <3>1. Sound(acct[m], epoch, denials[m])
      BY <1>2
    <3>2. Sound(r, e, denials[m]) /\ r.status = acct[m].status /\ r.seat = acct[m].seat
      BY <1>1, <3>1, CrossingRow
    <3>3. b[m] = r
      BY <1>12, <2>2
    <3> HIDE DEF r
    <3> QED  BY <2>2, <3>2, <3>3
  <2> QED  BY <2>1, <2>2
<1>14. AllSound(b, e, denials)
  <2>1. DOMAIN b = Members /\ b = [m \in Members |-> b[m]]
    BY DEF Released
  <2> HIDE DEF b
  <2>2. \A m \in Members : b[m] \in Row
    BY <1>13 DEF Sound
  <2>3. b \in Accounts
    BY <2>1, <2>2 DEF Accounts
  <2> QED  BY <1>13, <2>3 DEF AllSound
<1> HIDE DEF b
<1>15. Sponsored(b)
  <2> SUFFICES ASSUME NEW m \in Members, b[m].seat # NoSeat
               PROVE  b[m].seat.sponsor \in Rows(b)
    BY DEF Sponsored
  <2>1. m \notin R /\ b[m].seat = acct[m].seat /\ acct[m].seat # NoSeat
    BY <1>13
  <2>2. acct[m].seat.sponsor \in Rows(acct)
    BY <2>1 DEF SaneAs, Sponsored
  <2>3. m \in Rows(acct)
    BY <1>2, <2>1 DEF Sound, Rows
  <2>4. acct[m].seat.sponsor \notin R
    BY <1>11, <2>3
  <2>5. b[acct[m].seat.sponsor].status = acct[acct[m].seat.sponsor].status
    BY <1>13, <2>2, <2>4 DEF Rows
  <2> QED  BY <2>1, <2>2, <2>5 DEF Rows
<1>16. SeatsOf(b) = Vacant(SeatsOf(acct), R)
  <2>1. ASSUME NEW m \in Members
        PROVE  b[m].seat.held = IF m \in R THEN NoHold ELSE acct[m].seat.held
    BY <1>13 DEF NoSeat
  <2> QED  BY <2>1 DEF SeatsOf, Vacant
<1>17. SeatsOf(a) = SeatsOf(acct) /\ a \in Accounts
  <2>1. ASSUME NEW m \in Members
        PROVE  a[m] \in Row /\ a[m].seat = acct[m].seat
    <3>1. CrossedRow(acct[m], n) \in Row /\ CrossedRow(acct[m], n).seat = acct[m].seat
      BY <1>1, <1>2, PassedRow
    <3> QED  BY <1>4, <3>1
  <2>2. a = [m \in Members |-> a[m]]
    BY DEF Reset
  <2> HIDE DEF a
  <2> QED  BY <2>1, <2>2 DEF SeatsOf, Accounts
<1>18. g \in Graph /\ Agrees(g, SeatsOf(a))
  <2>1. g \in Graph /\ g = [graph EXCEPT !.edges = g.edges]
    BY <1>1, <1>2, TimesFaded
  <2> HIDE DEF g, a
  <2>2. g.reserved = graph.reserved /\ g.committed = graph.committed
    BY <1>2, <2>1 DEF Graph
  <2> QED  BY <1>17, <2>1, <2>2 DEF SaneAs, Agrees
<1> HIDE DEF a, g
<1>19. Vacated(g, a, R) \in Graph /\ Agrees(Vacated(g, a, R), Vacant(SeatsOf(a), R))
  BY <1>11, <1>17, <1>18, VacatedAgrees
<1>20. Reserve(a, M) \in [Members -> Nat]
  BY <1>17, ReserveType DEF SaneAs
<1> HIDE DEF o, e
<1>21. acct' = b /\ graph' = Vacated(g, a, R)
  BY <1>6 DEF b, o, e
<1> QED  BY <1>1, <1>7, <1>14, <1>15, <1>16, <1>17, <1>19, <1>20, <1>21 DEF SaneAs

-----------------------------------------------------------------------------
(* The replay record *)

\* An envelope that took effect, or was refused against a charge, stays in the
\* record for as long as its window is open.
Spent(i) == took[i] > 0 \/ i \in burnt

Record ==
    /\ epoch \in Nat
    /\ took \in [Ids -> {0, 1}]
    /\ \A tx \in Envelopes : Spent(tx.id) /\ epoch <= tx.notAfter => tx.id \in applied
    /\ burnt \subseteq Ids
    /\ \A i \in burnt : took[i] = 0

\* An envelope that fits has neither taken effect nor been burnt.
LEMMA FitsIsFresh ==
    ASSUME Record, NEW tx \in Envelopes, Fits(tx)
    PROVE  took[tx.id] = 0 /\ tx.id \notin burnt
<1>1. epoch <= tx.notAfter /\ tx.id \notin applied
  <2>1. Lifetime \in Nat
    BY GateAssumption
  <2> QED  BY <2>1 DEF Fits, InWindow, Record
<1> QED  BY <1>1, EnvelopeTypes DEF Record, Spent

LEMMA InitRecord ==
    ASSUME Init
    PROVE  Record
BY DEF Init, Record, Spent, Ids

LEMMA ApplyKeepsRecord ==
    ASSUME Record, NEW tx \in Envelopes, NEW S \in tx.copies, Apply(tx, S)
    PROVE  Record'
<1> DEFINE d == Due(Known, tx, S)
<1>1. epoch' = epoch /\ Fits(tx)
  BY DEF Apply
<1>2. took[tx.id] = 0 /\ tx.id \notin burnt /\ tx.id \in Ids
  BY <1>1, FitsIsFresh, EnvelopeTypes
<1>3. CASE UNCHANGED <<applied, took, burnt>>
  BY <1>1, <1>3 DEF Record, Spent
<1>4. CASE Rejected(tx, S, d)
  <2> DEFINE bill == IF d = Free THEN RefusalBill(Charge(acct, d), tx, S) ELSE d
  <2>1. applied' = applied \cup Kept(tx, bill) /\ burnt' = burnt \cup Kept(tx, bill) /\ took' = took
    BY <1>4 DEF Rejected
  <2>2. Kept(tx, bill) \subseteq {tx.id}
    BY DEF Kept
  <2> HIDE DEF bill
  <2> QED  BY <1>1, <1>2, <2>1, <2>2 DEF Record, Spent
<1>5. CASE Taken(tx, S, d)
  <2>1. applied' = applied \cup {tx.id} /\ took' = [took EXCEPT ![tx.id] = @ + 1] /\ burnt' = burnt
    BY <1>5 DEF Taken
  <2>2. took' \in [Ids -> {0, 1}] /\ took'[tx.id] = 1 /\ \A i \in Ids : i # tx.id => took'[i] = took[i]
    BY <1>2, <2>1 DEF Record
  <2>3. \A ux \in Envelopes : ux.id \in Ids
    BY DEF Ids
  <2>5. \A i \in burnt : i # tx.id
    BY <1>2
  <2>6. \A i \in burnt : took'[i] = 0
    BY <1>2, <2>1, <2>2, <2>5 DEF Record
  <2> QED  BY <1>1, <1>2, <2>1, <2>2, <2>3, <2>6 DEF Record, Spent
<1> QED  BY <1>3, <1>4, <1>5 DEF Apply, Refused, Unauthorised

LEMMA BeginBlockKeepsRecord ==
    ASSUME Record, NEW n \in 1..MaxAdvance, BeginBlock(n)
    PROVE  Record'
<1>1. MaxAdvance \in Nat
  BY GateAssumption
<1>2. /\ epoch' = epoch + n /\ epoch' \in Nat /\ epoch' > epoch
      /\ applied' = Pruned(epoch') /\ took' = took /\ burnt' = burnt
  BY <1>1 DEF BeginBlock, Record
<1>3. ASSUME NEW tx \in Envelopes, Spent(tx.id)', epoch' <= tx.notAfter
      PROVE  tx.id \in applied'
  <2>1. Spent(tx.id) /\ epoch <= tx.notAfter
    BY <1>2, <1>3, EnvelopeTypes DEF Spent, Record
  <2>2. tx.id \in applied
    BY <2>1 DEF Record
  <2> QED  BY <1>2, <1>3, <2>2 DEF Pruned
<1> QED  BY <1>2, <1>3 DEF Record

LEMMA RecordStep ==
    ASSUME Record, [Next]_vars
    PROVE  Record'
<1>1. CASE \E tx \in Envelopes : \E S \in tx.copies : Apply(tx, S)
  BY <1>1, ApplyKeepsRecord
<1>2. CASE \E n \in 1..MaxAdvance : BeginBlock(n)
  BY <1>2, BeginBlockKeepsRecord
<1>3. CASE UNCHANGED <<epoch, applied, took, burnt>>
  BY <1>3 DEF Record, Spent
<1> QED  BY <1>1, <1>2, <1>3 DEF Next, Screen, SetStatus, Restart, vars

\* An envelope takes effect at most once, and never after a charged refusal
\* (crates/state/src/apply.rs apply_with_cache and prune_expired_applied_ids),
\* in whatever order its copies and the epoch boundaries come.
THEOREM OnceAndNotLaterAlways == Spec => []OnceAndNotLater
<1>1. Record => OnceAndNotLater
  BY DEF Record, OnceAndNotLater
<1>2. Spec => []Record
  BY InitRecord, RecordStep, PTL DEF Spec
<1> QED  BY <1>1, <1>2, PTL

\* The epoch stays within its bound, and the record names envelopes.
Sane == /\ Healthy
        /\ epoch <= MaxEpoch
        /\ applied \subseteq Ids

LEMMA InitSane ==
    ASSUME Init
    PROVE  Sane
<1> DEFINE none == [m \in Members |-> NoHold]
<1>1. MaxEpoch \in Nat /\ Founders \subseteq Members
  BY GateAssumption
<1>2. NoSeat \in Seats /\ NoSeat.held = NoHold /\ NoRow.seat = NoSeat
  BY NoHoldTakesNothing DEF NoSeat, Seats, NoRow
<1>3. ASSUME NEW m \in Members
      PROVE  Sound(acct[m], 0, {}) /\ acct[m].seat = NoSeat
  <2>1. acct[m] = [NoRow EXCEPT !.status = "Active"] \/ acct[m] = NoRow
    BY DEF Init
  <2>2. NoRow \in Row
    BY <1>2, NoRowType
  <2>3. [NoRow EXCEPT !.status = "Active"].seat = NoRow.seat
    BY <2>2 DEF Row
  <2>4. Sound(NoRow, 0, {}) /\ Sound([NoRow EXCEPT !.status = "Active"], 0, {})
    BY <1>2, NewRowIsSound
  <2> QED  BY <1>2, <2>1, <2>3, <2>4
<1>4. acct \in Accounts
  <2>1. \A m \in Members : acct[m] \in Row
    BY <1>3 DEF Sound
  <2>2. acct = [m \in Members |-> acct[m]]
    BY DEF Init
  <2> QED  BY <2>1, <2>2 DEF Accounts
<1>5. AllSound(acct, epoch, denials)
  <2>1. epoch = 0 /\ \A m \in Members : denials[m] = {}
    BY DEF Init
  <2> QED  BY <1>3, <1>4, <2>1 DEF AllSound
<1>6. /\ graph \in Graph
      /\ \A a \in Arcs : graph.reserved[a] = 0
      /\ \A u \in Members : graph.committed[u] = 0
  BY GateAssumption DEF Init, Graph
<1>7. SeatsOf(acct) = none
  BY <1>2, <1>3 DEF SeatsOf
<1>8. Agrees(graph, none)
  <2>1. ASSUME NEW f, \A m \in Members : f[m] = 0
        PROVE  SumFunctionOnSet(f, Members) = 0
    BY <2>1, MembersAssumption, SumOfZeros
  <2>2. ASSUME NEW a
        PROVE  OnArc(none, a) = 0
    <3> DEFINE f == [m \in Members |-> HeldOn(none[m], a)]
    <3>1. \A m \in Members : f[m] = 0
      BY NoHoldTakesNothing
    <3> HIDE DEF f
    <3>2. SumFunctionOnSet(f, Members) = 0
      BY <2>1, <3>1
    <3> QED  BY <3>2 DEF OnArc, f
  <2>3. ASSUME NEW u
        PROVE  OfSupply(none, u) = 0
    <3> DEFINE f == [m \in Members |-> Drawn(none[m], u)]
    <3>1. \A m \in Members : f[m] = 0
      BY NoHoldTakesNothing
    <3> HIDE DEF f
    <3>2. SumFunctionOnSet(f, Members) = 0
      BY <2>1, <3>1
    <3> QED  BY <3>2 DEF OfSupply, f
  <2>4. \A a : OnArc(none, a) = 0 /\ OfSupply(none, a) = 0
    BY <2>2, <2>3
  <2> HIDE DEF none
  <2> QED  BY <1>6, <2>4 DEF Agrees
<1>9. Sponsored(acct)
  BY <1>3 DEF Sponsored
<1> QED  BY <1>1, <1>5, <1>6, <1>7, <1>8, <1>9 DEF Sane, Healthy, SaneAs, Init

LEMMA SaneStep ==
    ASSUME Sane, [Next]_vars
    PROVE  Sane'
<1>1. ASSUME NEW tx \in Envelopes, NEW S \in tx.copies, Apply(tx, S)
      PROVE  Sane'
  <2>1. Healthy'
    BY <1>1, ApplyIsSane DEF Sane
  <2>2. epoch' = epoch
    BY <1>1 DEF Apply
  <2>3. applied' = applied \/ \E x : x \subseteq {tx.id} /\ applied' = applied \cup x
    BY <1>1 DEF Apply, Refused, Unauthorised, Rejected, Taken, Kept
  <2>4. applied' \subseteq Ids
    BY <2>3, EnvelopeTypes DEF Sane
  <2> QED  BY <2>1, <2>2, <2>4 DEF Sane
<1>2. ASSUME NEW n \in 1..MaxAdvance, BeginBlock(n)
      PROVE  Sane'
  <2>1. Healthy'
    BY <1>2, BoundaryIsSane DEF Sane
  <2>2. epoch' <= MaxEpoch /\ applied' \subseteq applied
    BY <1>2 DEF BeginBlock, Pruned
  <2> QED  BY <2>1, <2>2 DEF Sane
<1>3. ASSUME NEW m \in MaySuspend, SetStatus(m)
      PROVE  Sane'
  <2> DEFINE s == IF acct[m].status = "Active" THEN "Suspended" ELSE "Active"
  <2>1. m \in Members /\ acct[m].status \in {"Active", "Suspended"} /\ s \in {"Active", "Suspended", "Exited"}
    BY <1>3, GateAssumption DEF SetStatus
  <2>2. /\ acct' = [acct EXCEPT ![m].status = s]
        /\ UNCHANGED <<epoch, graph, forfeited, applied, denials>>
    BY <1>3 DEF SetStatus
  <2> HIDE DEF s
  <2>3. SaneAs(epoch, [acct EXCEPT ![m].status = s], graph, forfeited, denials)
    BY <2>1, ExitIsSane DEF Sane, Healthy
  <2> QED  BY <2>2, <2>3 DEF Sane, Healthy
<1>4. CASE UNCHANGED <<epoch, acct, graph, forfeited, applied, denials>>
  BY <1>4 DEF Sane, Healthy
<1> QED  BY <1>1, <1>2, <1>3, <1>4 DEF Next, Screen, Restart, vars

LEMMA SaneAlways == Spec => []Sane
BY InitSane, SaneStep, PTL DEF Spec

\* A row without a seat adds nothing to what is held.
LEMMA SeatsHold ==
    ASSUME Healthy, NEW T, T = {m \in Rows(acct) : acct[m].seat # NoSeat}
    PROVE  /\ \A a \in Arcs : graph.reserved[a] = Sum([m \in T |-> HeldOn(acct[m].seat.held, a)])
           /\ \A u \in Members : graph.committed[u] = Sum([m \in T |-> Drawn(acct[m].seat.held, u)])
<1>1. /\ Agrees(graph, SeatsOf(acct)) /\ SeatsOf(acct) \in [Members -> Holds] /\ T \in SUBSET Members
      /\ IsFiniteSet(Members) /\ IsFiniteSet(T)
  BY SeatsOfType, MembersAssumption, FS_Subset DEF Healthy, SaneAs, AllSound, Rows
<1>2. ASSUME NEW m \in Members \ T
      PROVE  SeatsOf(acct)[m] = NoHold
  <2>1. acct[m].seat = NoSeat
    BY DEF Healthy, SaneAs, AllSound, Sound, Row, Statuses, Rows
  <2> QED  BY <2>1 DEF SeatsOf, NoSeat
<1>3. ASSUME NEW f, NEW h, DOMAIN h = T, \A m \in Members : f[m] \in Nat,
             \A m \in T : f[m] = h[m], \A m \in Members \ T : f[m] = 0
      PROVE  SumFunctionOnSet(f, Members) = Sum(h)
  <2>1. SumFunctionOnSet(f, Members) = SumFunctionOnSet(f, T)
    BY <1>1, <1>3, SumOnSupport
  <2>2. \A m \in T : f[m] \in Nat /\ f[m] = h[m]
    BY <1>1, <1>3
  <2>3. SumFunctionOnSet(f, T) = SumFunctionOnSet(h, T)
    BY <1>1, <2>2, SumCongruent
  <2> QED  BY <1>3, <2>1, <2>3, SumIs
<1>4. ASSUME NEW a \in Arcs
      PROVE  graph.reserved[a] = Sum([m \in T |-> HeldOn(acct[m].seat.held, a)])
  <2> DEFINE f == [m \in Members |-> HeldOn(SeatsOf(acct)[m], a)]
             h == [m \in T |-> HeldOn(acct[m].seat.held, a)]
  <2>1. graph.reserved[a] = SumFunctionOnSet(f, Members)
    BY <1>1 DEF Agrees, OnArc
  <2>2. \A m \in Members : f[m] \in Nat
    BY <1>1, HoldTakesNatural
  <2>3. \A m \in T : f[m] = h[m]
    BY <1>1 DEF SeatsOf
  <2>4. \A m \in Members \ T : f[m] = 0
    BY <1>2, NoHoldTakesNothing
  <2>5. DOMAIN h = T
    OBVIOUS
  <2> HIDE DEF f, h
  <2>6. SumFunctionOnSet(f, Members) = Sum(h)
    BY <1>3, <2>2, <2>3, <2>4, <2>5
  <2> QED  BY <2>1, <2>6 DEF h
<1>5. ASSUME NEW u \in Members
      PROVE  graph.committed[u] = Sum([m \in T |-> Drawn(acct[m].seat.held, u)])
  <2> DEFINE f == [m \in Members |-> Drawn(SeatsOf(acct)[m], u)]
             h == [m \in T |-> Drawn(acct[m].seat.held, u)]
  <2>1. graph.committed[u] = SumFunctionOnSet(f, Members)
    BY <1>1 DEF Agrees, OfSupply
  <2>2. \A m \in Members : f[m] \in Nat
    BY <1>1, HoldTakesNatural
  <2>3. \A m \in T : f[m] = h[m]
    BY <1>1 DEF SeatsOf
  <2>4. \A m \in Members \ T : f[m] = 0
    BY <1>2, NoHoldTakesNothing
  <2>5. DOMAIN h = T
    OBVIOUS
  <2> HIDE DEF f, h
  <2>6. SumFunctionOnSet(f, Members) = Sum(h)
    BY <1>3, <2>2, <2>3, <2>4, <2>5
  <2> QED  BY <2>1, <2>6 DEF h
<1> QED  BY <1>4, <1>5

LEMMA RowTypes ==
    ASSUME NEW r \in Row
    PROVE  /\ r.status \in {"None", "Active", "Suspended", "Exited", "Retired"}
           /\ {r.debt, r.dflt, r.used, r.saturated} \subseteq Nat
           /\ DOMAIN r.bonds \subseteq Nat /\ Range(r.bonds) \subseteq Nat \ {0}
           /\ r.denied \in BOOLEAN /\ r.slot \in BOOLEAN
           /\ r.seat.sponsor \in Members \cup {0}
<1>1. r.bonds \in Books
  BY DEF Row
<1>2. DOMAIN r.bonds \subseteq Nat /\ Range(r.bonds) \subseteq Nat \ {0}
  <2>1. r.bonds \in [DOMAIN r.bonds -> Amounts] /\ DOMAIN r.bonds \subseteq Nat
    BY <1>1, BookTypes
  <2> QED  BY <2>1 DEF Range, Amounts
<1>3. r.seat \in Seats
  BY DEF Row
<1>4. /\ r.status \in {"None", "Active", "Suspended", "Exited", "Retired"}
      /\ r.debt \in Nat /\ r.dflt \in Nat /\ r.used \in Nat /\ r.saturated \in Nat
      /\ r.denied \in BOOLEAN /\ r.slot \in BOOLEAN
  BY DEF Row, Statuses
<1>5. r.seat.sponsor \in Members \cup {0}
  BY <1>3 DEF Seats
<1> QED  BY <1>2, <1>4, <1>5

\* What the graph holds for the seats is what the seated rows hold, each for a
\* sponsor that has a row (crates/state/src/invariants.rs, invariant 7), through
\* every bill, refund, seating, retirement and boundary.
THEOREM GateAuditAlways == Spec => []GateAudit
<1>1. Sane /\ Record => TypeOK
  <2> SUFFICES ASSUME Sane, Record
               PROVE  TypeOK
    OBVIOUS
  <2>1. \A m \in Members : acct[m] \in Row
    BY DEF Sane, Healthy, SaneAs, AllSound, Sound
  <2>2. graph \in Graph /\ forfeited \in [Members -> Nat] /\ epoch \in 0..MaxEpoch /\ applied \subseteq Ids
    BY GateAssumption DEF Sane, Healthy, SaneAs
  <2>3. burnt \subseteq Ids /\ took \in [Ids -> Nat]
    BY DEF Record
  <2> QED  BY <2>1, <2>2, <2>3, RowTypes DEF TypeOK, Graph
<1>2. Sane => SeatHoldsAgree
  <2> SUFFICES ASSUME Sane
               PROVE  SeatHoldsAgree
    OBVIOUS
  <2> DEFINE T == {m \in Rows(acct) : acct[m].seat # NoSeat}
  <2>1. \A m \in T : acct[m].seat.sponsor \in Rows(acct)
    BY DEF Sane, Healthy, SaneAs, Sponsored, Rows
  <2>2. Healthy
    BY DEF Sane
  <2> HIDE DEF T
  <2>3. /\ \A a \in Arcs : graph.reserved[a] = Sum([m \in T |-> HeldOn(acct[m].seat.held, a)])
        /\ \A u \in Members : graph.committed[u] = Sum([m \in T |-> Drawn(acct[m].seat.held, u)])
    BY <2>2, SeatsHold DEF T
  <2> QED  BY <2>1, <2>3 DEF SeatHoldsAgree, T
<1>3. Spec => []Record
  BY InitRecord, RecordStep, PTL DEF Spec
<1> QED  BY <1>1, <1>2, <1>3, SaneAlways, PTL DEF GateAudit


-----------------------------------------------------------------------------
(* What the cache holds *)

LEMMA SeatsTakenKeeps ==
    ASSUME NEW n \in Nat, NEW q \in [1..n -> Holds], NEW g \in Graph
    PROVE  /\ SeatsTaken(g, q) \in Graph
           /\ SeatsTaken(g, q).edges = g.edges /\ SeatsTaken(g, q).supply = g.supply
<1>1. PICK t \in [0..n -> Graph] : OneByOne(t, g, q, n) /\ SeatsTaken(g, q) = t[n]
  BY SeatsTakenOneByOne
<1> DEFINE P == {k \in Nat : k <= n => t[k].edges = g.edges /\ t[k].supply = g.supply}
<1>2. 0 \in P
  BY <1>1 DEF OneByOne
<1>3. ASSUME NEW k \in Nat, k \in P
      PROVE  k + 1 \in P
  <2> SUFFICES ASSUME k + 1 <= n
               PROVE  t[k + 1].edges = g.edges /\ t[k + 1].supply = g.supply
    OBVIOUS
  <2>1. k + 1 \in 1..n /\ (k + 1) - 1 = k /\ k \in 0..n /\ k <= n
    OBVIOUS
  <2>2. t[k + 1] = SeatTaken(t[k], q[k + 1]) /\ t[k] \in Graph /\ q[k + 1] \in Holds
    BY <1>1, <2>1 DEF OneByOne
  <2>3. t[k].edges = g.edges /\ t[k].supply = g.supply
    BY <1>3, <2>1
  <2> QED  BY <2>2, <2>3, SeatTakenType
<1>4. n \in P
  <2> HIDE DEF P
  <2> QED  BY <1>2, <1>3, NumberInduction
<1> QED  BY <1>1, <1>4

\* Within an epoch no supply rises, and what a member reaches falls only with one.
Onward(g, h) ==
    /\ h \in Graph
    /\ \A u \in Members : h.supply[u] <= g.supply[u]
    /\ h.supply = g.supply => \A a \in Arcs : g.edges[a] <= h.edges[a]

LEMMA OnwardByItself ==
    ASSUME NEW g \in Graph
    PROVE  Onward(g, g)
BY DEF Onward, Graph

LEMMA ApplyGoesOnward ==
    ASSUME Healthy, NEW tx \in Envelopes, NEW S \in tx.copies, Apply(tx, S)
    PROVE  Onward(graph, graph')
<1> DEFINE d == Due(Known, tx, S)
           a == Charge(acct, d)
<1>1. graph \in Graph /\ Healthy' /\ S \in SUBSET Members
  BY ApplyIsSane, EnvelopeTypes DEF Healthy, SaneAs
<1>2. graph' \in Graph
  BY <1>1 DEF Healthy, SaneAs
<1>3. CASE UNCHANGED graph
  BY <1>1, <1>3, OnwardByItself
<1>4. CASE Taken(tx, S, d) /\ ~Refuses(d, tx)
  <2>1. CanTake(a, tx) /\ Effect(a, tx, d)
    BY <1>4 DEF Taken
  <2> HIDE DEF a
  <2>2. CASE tx.kind = "Accept"
    <3> DEFINE n == Cardinality(Fresh(a, tx))
    <3>1. PICK run \in SeatRuns(d.payer, n) : graph' = SeatsTaken(graph, run)
      BY <2>1, <2>2 DEF Effect
    <3>2. n \in Nat
      <4>1. Fresh(a, tx) \in SUBSET Members /\ Fresh(a, tx) \subseteq {tx.of, tx.to}
        BY <2>2, EnvelopeTypes DEF Fresh
      <4> QED  BY <4>1, EnvelopeTypes, FreshIsSmall
    <3>3. d.payer \in Members
      <4>1. IsBill(d, acct, S) /\ (d = Free <=> Multiple(tx) = 0)
        BY <1>1, DueIsABill
      <4>2. d # Free /\ d # Unpayable
        BY <1>4, <2>2, <4>1, MultipleType DEF Refuses
      <4> HIDE DEF d
      <4> QED  BY <1>1, <4>1, <4>2 DEF IsBill, Payers
    <3>4. run \in [1..n -> Holds]
      BY <3>1, <3>2, <3>3, SeatRunsAreHolds
    <3>5. graph'.edges = graph.edges /\ graph'.supply = graph.supply
      BY <1>1, <3>1, <3>2, <3>4, SeatsTakenKeeps
    <3> QED  BY <1>1, <1>2, <3>5 DEF Onward, Graph
  <2>3. CASE tx.kind = "Settle"
    <3>1. graph' = Stake(graph, tx.of, tx.to)
      BY <2>1, <2>3 DEF Effect
    <3>2. graph'.supply = graph.supply /\ \A x \in Arcs : graph.edges[x] <= graph'.edges[x]
      BY <1>1, <3>1, EnvelopeTypes, StakeType
    <3> QED  BY <1>1, <1>2, <3>2 DEF Onward, Graph
  <2>4. CASE tx.kind = "Lower"
    <3>1. graph' = [graph EXCEPT !.supply[tx.of] = tx.level] /\ tx.level <= graph.supply[tx.of]
      BY <2>1, <2>4 DEF Effect, CanTake
    <3>2. tx.of \in Members /\ tx.level \in Nat
      BY EnvelopeTypes
    <3>3. graph'.edges = graph.edges /\ graph'.supply = [graph.supply EXCEPT ![tx.of] = tx.level]
      BY <1>1, <3>1 DEF Graph
    <3> QED  BY <1>1, <1>2, <3>1, <3>2, <3>3 DEF Onward, Graph
  <2>5. CASE tx.kind \in {"Exit", "Forfeit", "Register", "Propose"}
    <3>1. UNCHANGED graph
      BY <2>1, <2>5 DEF Effect
    <3> QED  BY <1>3, <3>1
  <2> QED  BY <2>1, <2>2, <2>3, <2>4, <2>5 DEF Effect
<1> QED  BY <1>3, <1>4 DEF Apply, Refused, Unauthorised, Rejected

\* What the cache knows of this key is no more than what is there.
Bounded(k, r, g, e) ==
    /\ DOMAIN r \subseteq Members
    /\ k # <<>> => /\ k \in Nat \X [Members -> Nat]
                   /\ k[1] <= e
                   /\ k[1] = e => \A u \in Members : g.supply[u] <= k[2][u]
    /\ k = <<e, g.supply>> => \A m \in DOMAIN r : r[m] \in Nat /\ r[m] <= Reach(g, m)

MemoBounded == Bounded(memo.key, memo.reach, graph, epoch)

LEMMA KnownIsBounded ==
    ASSUME MemoBounded, Healthy
    PROVE  /\ DOMAIN Known \subseteq Members
           /\ \A m \in DOMAIN Known : Known[m] \in Nat /\ Known[m] <= Reach(graph, m)
           /\ \A m \in Members : Bound(Known, m) \in Nat /\ Bound(Known, m) <= Reach(graph, m)
<1>1. /\ DOMAIN Known \subseteq Members
      /\ \A m \in DOMAIN Known : Known[m] \in Nat /\ Known[m] <= Reach(graph, m)
  <2>1. CASE memo.key = Key
    BY <2>1 DEF Known, CacheKey, Key, MemoBounded, Bounded
  <2>2. CASE memo.key # Key
    BY <2>2 DEF Known, CacheKey
  <2> QED  BY <2>1, <2>2
<1>2. \A m \in Members : Reach(graph, m) \in Nat
  BY ReachIsNatural DEF Healthy, SaneAs
<1> QED  BY <1>1, <1>2 DEF Bound

LEMMA BoundedOnward ==
    ASSUME NEW k, NEW r, NEW g \in Graph, NEW e \in Nat, Bounded(k, r, g, e), NEW h, Onward(g, h)
    PROVE  Bounded(k, r, h, e)
<1>1. h \in Graph /\ g.supply \in [Members -> Nat] /\ h.supply \in [Members -> Nat]
  BY DEF Onward, Graph
<1>2. ASSUME k # <<>>, k[1] = e, NEW u \in Members
      PROVE  h.supply[u] <= k[2][u]
  <2>1. g.supply[u] <= k[2][u] /\ h.supply[u] <= g.supply[u]
    BY <1>2 DEF Bounded, Onward
  <2>2. k[2][u] \in Nat /\ g.supply[u] \in Nat /\ h.supply[u] \in Nat
    BY <1>1, <1>2 DEF Bounded
  <2> QED  BY <2>1, <2>2
<1>3. ASSUME k = <<e, h.supply>>, NEW m \in DOMAIN r
      PROVE  r[m] \in Nat /\ r[m] <= Reach(h, m)
  <2>1. k # <<>> /\ k[1] = e /\ k[2] = h.supply
    BY <1>3
  <2>2. \A u \in Members : g.supply[u] <= h.supply[u] /\ h.supply[u] <= g.supply[u]
    BY <2>1 DEF Bounded, Onward
  <2>3. \A u \in Members : g.supply[u] = h.supply[u]
    BY <1>1, <2>2
  <2>4. g.supply = h.supply
    BY <1>1, <2>3
  <2>5. r[m] \in Nat /\ r[m] <= Reach(g, m) /\ m \in Members
    BY <1>3, <2>4 DEF Bounded
  <2>6. Reach(g, m) <= Reach(h, m)
    BY <1>1, <2>4, <2>5, ReachGrows DEF Onward
  <2>7. Reach(g, m) \in Nat /\ Reach(h, m) \in Nat
    BY <1>1, <2>5, ReachIsNatural
  <2> QED  BY <2>5, <2>6, <2>7
<1> QED  BY <1>2, <1>3 DEF Bounded

LEMMA RememberBounded ==
    ASSUME Healthy, MemoBounded, NEW tx \in Envelopes, NEW S \in tx.copies, Remember(tx, S)
    PROVE  Bounded(memo'.key, memo'.reach, graph, epoch)
<1> DEFINE d == Due(Known, tx, S)
           read == {m \in LookedUp(d, S) : ~Answers(m)}
           r == [m \in read \cup DOMAIN Known |-> IF m \in read THEN Reach(graph, m) ELSE Known[m]]
<1>1. CASE Multiple(tx) = 0
  <2>1. memo' = memo
    BY <1>1 DEF Remember
  <2> QED  BY <2>1 DEF MemoBounded
<1>2. CASE Multiple(tx) # 0
  <2>1. memo' = [key |-> Key, reach |-> r]
    BY <1>2 DEF Remember, CacheKey
  <2>2. S \in SUBSET Members
    BY EnvelopeTypes
  <2>3. read \subseteq Members
    <3>1. IsBill(d, acct, S)
      BY <2>2, DueIsABill
    <3> HIDE DEF d
    <3>2. d.what = "Slot" => d.payer \in Members
      BY <2>2, <3>1 DEF IsBill, Free, Unpayable, Bill, Payers
    <3> QED  BY <2>2, <3>2 DEF LookedUp, Payers
  <2> HIDE DEF read
  <2>4. DOMAIN r \subseteq Members /\ \A m \in DOMAIN r : r[m] \in Nat /\ r[m] <= Reach(graph, m)
    <3>1. \A m \in Members : Reach(graph, m) \in Nat
      BY ReachIsNatural DEF Healthy, SaneAs
    <3> QED  BY <2>3, <3>1, KnownIsBounded
  <2>5. graph.supply \in [Members -> Nat] /\ epoch \in Nat
    BY DEF Healthy, SaneAs, Graph
  <2> HIDE DEF r
  <2>6. Bounded(Key, r, graph, epoch)
    BY <2>4, <2>5 DEF Bounded, Key
  <2> QED  BY <2>1, <2>6
<1> QED  BY <1>1, <1>2

LEMMA MemoStep ==
    ASSUME Sane, MemoBounded, [Next]_vars
    PROVE  MemoBounded'
<1>1. Healthy /\ graph \in Graph /\ epoch \in Nat
  BY DEF Sane, Healthy, SaneAs
<1>2. ASSUME NEW tx \in Envelopes, NEW S \in tx.copies, Apply(tx, S)
      PROVE  MemoBounded'
  <2>1. Remember(tx, S) /\ epoch' = epoch
    BY <1>2 DEF Apply
  <2>2. Bounded(memo'.key, memo'.reach, graph, epoch)
    BY <1>1, <2>1, RememberBounded
  <2>3. Onward(graph, graph')
    BY <1>1, <1>2, ApplyGoesOnward
  <2> QED  BY <1>1, <2>1, <2>2, <2>3, BoundedOnward DEF MemoBounded
<1>3. ASSUME NEW tx \in Envelopes, NEW S \in tx.copies, Screen(tx, S)
      PROVE  MemoBounded'
  <2>1. Remember(tx, S) /\ UNCHANGED <<epoch, graph>>
    BY <1>3 DEF Screen
  <2>2. Bounded(memo'.key, memo'.reach, graph, epoch)
    BY <1>1, <2>1, RememberBounded
  <2> QED  BY <2>1, <2>2 DEF MemoBounded
<1>4. ASSUME NEW n \in 1..MaxAdvance, BeginBlock(n)
      PROVE  MemoBounded'
  <2>1. epoch' > epoch /\ epoch' \in Nat /\ memo' = memo
    BY <1>1, <1>4, GateAssumption DEF BeginBlock
  <2>2. memo.key # <<>> => memo.key[1] < epoch'
    <3>1. memo.key # <<>> => memo.key[1] \in Nat /\ memo.key[1] <= epoch
      BY DEF MemoBounded, Bounded
    <3> QED  BY <1>1, <2>1, <3>1
  <2>3. memo.key # <<epoch', graph'.supply>>
    <3>1. <<epoch', graph'.supply>> # <<>> /\ <<epoch', graph'.supply>>[1] = epoch'
      OBVIOUS
    <3>2. memo.key # <<>> => memo.key[1] # epoch'
      <4>1. memo.key # <<>> => memo.key[1] \in Nat
        BY DEF MemoBounded, Bounded
      <4> QED  BY <2>1, <2>2, <4>1
    <3> QED  BY <3>1, <3>2
  <2>4. memo.key # <<>> => memo.key[1] \in Nat
    BY DEF MemoBounded, Bounded
  <2> QED  BY <1>1, <2>1, <2>2, <2>3, <2>4 DEF MemoBounded, Bounded
<1>5. CASE Restart
  <2>1. memo' = [key |-> <<>>, reach |-> Cold] /\ DOMAIN Cold = {} /\ <<>> # <<epoch', graph'.supply>>
    BY <1>5 DEF Restart, Cold
  <2> QED  BY <2>1 DEF MemoBounded, Bounded
<1>6. CASE UNCHANGED <<epoch, graph, memo>>
  BY <1>6 DEF MemoBounded
<1> QED  BY <1>2, <1>3, <1>4, <1>5, <1>6 DEF Next, SetStatus, vars


LEMMA HeadroomGrows ==
    ASSUME NEW a \in Accounts, NEW m \in Members, NEW x \in Nat, NEW y \in Nat, x <= y,
           forfeited \in [Members -> Nat]
    PROVE  /\ Headroom(a, m, x) \in Nat /\ Headroom(a, m, y) \in Nat
           /\ Headroom(a, m, x) <= Headroom(a, m, y)
<1>1. a[m] \in Row
  BY DEF Accounts
<1>2. a[m].debt \in Nat /\ Enc(a, m) \in Nat /\ forfeited[m] \in Nat
  BY <1>1, EncIsNatural DEF Row, Enc
<1>3. ASSUME NEW u \in Nat, NEW v \in Nat, NEW w \in Nat, u <= v
      PROVE  Minus(u, w) \in Nat /\ Minus(v, w) \in Nat /\ Minus(u, w) <= Minus(v, w)
  BY <1>3 DEF Minus
<1> DEFINE x1 == Minus(x, a[m].debt)
           y1 == Minus(y, a[m].debt)
           x2 == Minus(x1, Enc(a, m))
           y2 == Minus(y1, Enc(a, m))
<1>4. x1 \in Nat /\ y1 \in Nat /\ x1 <= y1
  BY <1>2, <1>3
<1> HIDE DEF x1, y1
<1>5. x2 \in Nat /\ y2 \in Nat /\ x2 <= y2
  BY <1>2, <1>3, <1>4
<1> HIDE DEF x2, y2
<1>6. Minus(x2, forfeited[m]) \in Nat /\ Minus(y2, forfeited[m]) \in Nat
      /\ Minus(x2, forfeited[m]) <= Minus(y2, forfeited[m])
  BY <1>2, <1>3, <1>5
<1> QED  BY <1>6 DEF Headroom, x1, y1, x2, y2

\* What a bound below the reach answers is what the reach answers.
LEMMA BoundsAnswerAlike ==
    ASSUME Sane, MemoBounded, NEW m \in Members
    PROVE  /\ \A b \in Nat : Covers(acct, Known, m, b) <=> Headroom(acct, m, Reach(graph, m)) >= b
           /\ \A b \in Nat : Covers(acct, Cold, m, b) <=> Headroom(acct, m, Reach(graph, m)) >= b
           /\ Established(acct, Known, m) <=> Established(acct, Cold, m)
<1> DEFINE x == Bound(Known, m)
           y == Reach(graph, m)
<1>1. x \in Nat /\ x <= y /\ y \in Nat /\ Bound(Cold, m) = y
  <2>1. x \in Nat /\ x <= y
    BY KnownIsBounded DEF Sane
  <2>2. y \in Nat
    BY ReachIsNatural DEF Sane, Healthy, SaneAs
  <2> QED  BY <2>1, <2>2 DEF Bound, Cold
<1>2. EstablishedFloor \in Nat
  BY GateAssumption
<1>3. acct \in Accounts /\ forfeited \in [Members -> Nat]
  BY DEF Sane, Healthy, SaneAs, AllSound
<1> HIDE DEF x, y
<1>4. /\ Headroom(acct, m, x) \in Nat /\ Headroom(acct, m, y) \in Nat
      /\ Headroom(acct, m, x) <= Headroom(acct, m, y)
  BY <1>1, <1>3, HeadroomGrows
<1>5. ASSUME NEW b \in Nat
      PROVE  /\ Covers(acct, Known, m, b) <=> Headroom(acct, m, y) >= b
             /\ Covers(acct, Cold, m, b) <=> Headroom(acct, m, y) >= b
  <2>1. Covers(acct, Known, m, b) <=> Headroom(acct, m, x) >= b \/ Headroom(acct, m, y) >= b
    BY DEF Covers, x, y
  <2>2. Covers(acct, Cold, m, b) <=> Headroom(acct, m, y) >= b
    BY <1>1 DEF Covers, y
  <2> QED  BY <1>4, <2>1, <2>2
<1>6. Established(acct, Known, m) <=> Established(acct, Cold, m)
  <2>1. Established(acct, Known, m) <=> IsActive(acct, m) /\ (x >= EstablishedFloor \/ y >= EstablishedFloor)
    BY DEF Established, x, y
  <2>2. Established(acct, Cold, m) <=> IsActive(acct, m) /\ y >= EstablishedFloor
    BY <1>1 DEF Established, y
  <2> QED  BY <1>1, <1>2, <2>1, <2>2
<1> QED  BY <1>5, <1>6 DEF y

LEMMA BillsAlike ==
    ASSUME Sane, MemoBounded, NEW tx \in Envelopes, NEW S \in tx.copies
    PROVE  Due(Known, tx, S) = Due(Cold, tx, S)
<1> DEFINE ps == Payers(acct, S)
           bond == Multiple(tx) * Unit
           n == Cardinality(Fresh(acct, tx))
           free(k) == {m \in ps : FreeRemaining(acct, k, m) > 0}
           able(k) == {m \in ps : Covers(acct, k, m, bond)}
<1>1. ps \subseteq Members /\ tx.of \in Members /\ bond \in Nat
  <2>1. Multiple(tx) \in Nat /\ Unit \in Nat
    BY MultipleType, GateAssumption
  <2>2. \A x, y \in Nat : x * y \in Nat
    OBVIOUS
  <2>3. bond \in Nat
    BY <2>1, <2>2
  <2> QED  BY <2>3, EnvelopeTypes DEF Payers
<1> HIDE DEF bond
<1>2. ASSUME NEW m \in Members
      PROVE  FreeRemaining(acct, Known, m) = FreeRemaining(acct, Cold, m)
  <2>1. Established(acct, Known, m) <=> Established(acct, Cold, m)
    BY BoundsAnswerAlike
  <2> QED  BY <2>1 DEF FreeRemaining
<1>3. free(Known) = free(Cold)
  BY <1>1, <1>2
<1>4. able(Known) = able(Cold)
  <2>1. \A m \in Members : Covers(acct, Known, m, bond) <=> Covers(acct, Cold, m, bond)
    BY <1>1, BoundsAnswerAlike
  <2> QED  BY <1>1, <2>1
<1>5. OwnSlot(acct, Known, tx, S) <=> OwnSlot(acct, Cold, tx, S)
  BY <1>1, <1>2 DEF OwnSlot
<1> DEFINE bill(f, b, o) ==
      CASE Multiple(tx) = 0 -> Free
        [] Multiple(tx) > 0 /\ ps = {} -> Unpayable
        [] Multiple(tx) > 0 /\ ps # {} /\ n > 0 ->
              Bill("Seat", FirstOr({m \in b : IsActive(acct, m) /\ CanSeat(m, n)}, ps), bond)
        [] Multiple(tx) > 0 /\ ps # {} /\ n = 0 ->
              IF o THEN Bill("Slot", tx.of, 0)
              ELSE IF f # {} THEN Bill("Allowance", Min(f), 0)
              ELSE Bill("Bond", FirstOr(b, ps), bond)
<1>6. /\ Due(Known, tx, S) = bill(free(Known), able(Known), OwnSlot(acct, Known, tx, S))
      /\ Due(Cold, tx, S) = bill(free(Cold), able(Cold), OwnSlot(acct, Cold, tx, S))
  BY DEF Due, bond
<1> DEFINE o == OwnSlot(acct, Known, tx, S)
           q == OwnSlot(acct, Cold, tx, S)
<1>7. o = q
  BY <1>5 DEF OwnSlot
<1> HIDE DEF free, able, bill, o, q
<1> QED  BY <1>3, <1>4, <1>6, <1>7 DEF o, q

\* The screen lets through what the gate bills.
LEMMA ScreenIsGate ==
    ASSUME Sane, MemoBounded, NEW tx \in Envelopes, NEW S \in tx.copies
    PROVE  Admits(Known, tx, S) <=> ~Refuses(Due(Cold, tx, S), tx)
<1> DEFINE d == Due(Known, tx, S)
<1>1. d = Due(Cold, tx, S)
  BY BillsAlike
<1>2. S \in SUBSET Members
  BY EnvelopeTypes
<1>3. IsBill(d, acct, S)
  BY <1>2, DueIsABill
<1>4. Bonded(d) => d.amount > 0
  BY <1>2, DueIsABill
<1> DEFINE lets == /\ d # Unpayable
                   /\ Bonded(d) => Covers(acct, Known, d.payer, d.amount)
                   /\ d.what = "Seat" => /\ IsActive(acct, d.payer)
                                         /\ CanSeat(d.payer, Cardinality(Fresh(acct, tx)))
<1>5. (Admits(Known, tx, S) <=> lets) /\ Due(Cold, tx, S) = d
  BY <1>1 DEF Admits
<1> HIDE DEF d
<1>6. CASE Bonded(d)
  <2> DEFINE p == d.payer
             h == Headroom(acct, p, Reach(graph, p))
  <2>1. p \in Members /\ d.amount \in Nat
    BY <1>2, <1>3, <1>6 DEF IsBill, Free, Unpayable, Bill, Payers, Bonded
  <2>2. Covers(acct, Known, p, d.amount) <=> h >= d.amount
    BY <2>1, BoundsAnswerAlike
  <2>3. h \in Nat
    <3>1. Reach(graph, p) \in Nat
      BY <2>1, ReachIsNatural DEF Sane, Healthy, SaneAs
    <3>2. acct \in Accounts /\ forfeited \in [Members -> Nat] /\ Reach(graph, p) <= Reach(graph, p)
      BY <3>1 DEF Sane, Healthy, SaneAs, AllSound
    <3> QED  BY <2>1, <3>1, <3>2, HeadroomGrows
  <2>4. ~IsActive(acct, p) => h = 0
    BY DEF Headroom
  <2>5. Short(d) <=> d.amount > h
    BY <1>6 DEF Short
  <2> HIDE DEF h
  <2>6. lets <=> ~Refuses(d, tx)
    BY <1>4, <1>6, <2>1, <2>2, <2>3, <2>4, <2>5 DEF Refuses
  <2> QED  BY <1>5, <2>6
<1>7. CASE ~Bonded(d)
  <2>1. d.what # "Seat" /\ ~Short(d)
    BY <1>7 DEF Bonded, Short
  <2>2. lets <=> ~Refuses(d, tx)
    BY <1>7, <2>1 DEF Refuses
  <2> QED  BY <1>5, <2>2
<1> QED  BY <1>6, <1>7

\* No bill and no screen depends on what the cache holds (crates/state/src/bond.rs
\* due_with_cache, admits_with_cache): what it knows of a member is never more
\* than the member reaches, for as long as its key stands.
THEOREM CacheNeverDecidesAlways == Spec => []CacheNeverDecides
<1>1. Sane /\ MemoBounded => CacheNeverDecides
  BY BillsAlike, ScreenIsGate DEF CacheNeverDecides
<1>2. Init => MemoBounded
  <2> SUFFICES ASSUME Init
               PROVE  MemoBounded
    OBVIOUS
  <2>1. memo.key = <<>> /\ DOMAIN memo.reach = {} /\ <<>> # <<epoch, graph.supply>>
    BY DEF Init, Cold
  <2> QED  BY <2>1 DEF MemoBounded, Bounded
<1>3. Sane /\ MemoBounded /\ [Next]_vars => MemoBounded'
  BY MemoStep
<1>4. Spec => []MemoBounded
  BY <1>2, <1>3, SaneAlways, PTL DEF Spec
<1> QED  BY <1>1, <1>4, SaneAlways, PTL


-----------------------------------------------------------------------------
(* What a refusal costs *)

\* What member m has paid by the step from a to b.
Paid(a, b, m) == \/ b[m].used > a[m].used
                 \/ a[m].slot /\ ~b[m].slot
                 \/ Enc(b, m) > Enc(a, m)

\* A bill that can be charged is paid by its payer.
LEMMA ChargePays ==
    ASSUME NEW a \in Accounts, NEW S \in SUBSET Members, epoch \in Nat,
           NEW d, IsBill(d, a, S), Charged(d), d.what = "Slot" => a[d.payer].slot
    PROVE  \E m \in Members : Paid(a, Charge(a, d), m)
<1> DEFINE p == d.payer
<1>1. p \in Members /\ a[p] \in Row /\ (Bonded(d) => d.amount \in Amounts)
  BY DEF IsBill, Payers, Rows, Accounts, Free, Unpayable, Bill, Charged, Bonded, Amounts
<1>2. a[p].used \in Nat /\ a[p].bonds \in Books /\ DOMAIN a = Members
  BY <1>1 DEF Row, Accounts
<1>3. CASE d.what = "Allowance"
  <2>1. Charge(a, d) = [a EXCEPT ![p].used = @ + 1]
    BY <1>3 DEF Charge, Bonded
  <2>2. Charge(a, d)[p].used = a[p].used + 1
    BY <1>1, <1>2, <2>1 DEF Row
  <2> QED  BY <1>1, <1>2, <2>2 DEF Paid
<1>4. CASE d.what = "Slot"
  <2>1. Charge(a, d) = [a EXCEPT ![p].slot = FALSE]
    BY <1>4 DEF Charge, Bonded
  <2>2. Charge(a, d)[p].slot = FALSE
    BY <1>1, <1>2, <2>1 DEF Row
  <2> QED  BY <1>1, <1>4, <2>2 DEF Paid
<1>5. CASE Bonded(d)
  <2>1. Charge(a, d) = [a EXCEPT ![p].bonds = Added(@, ReleaseAt, d.amount)]
    BY <1>5 DEF Charge, Bonded
  <2>2. Charge(a, d)[p].bonds = Added(a[p].bonds, ReleaseAt, d.amount)
    BY <1>1, <1>2, <2>1 DEF Row
  <2>3. ReleaseAt \in Nat
    BY ReleaseAtIsInSpan DEF Span
  <2>4. /\ Sum(a[p].bonds) \in Nat /\ d.amount \in Nat /\ d.amount > 0
        /\ Sum(Added(a[p].bonds, ReleaseAt, d.amount)) = Sum(a[p].bonds) + d.amount
    BY <1>1, <1>2, <1>5, <2>3, SumAdded DEF Amounts
  <2>5. Enc(Charge(a, d), p) > Enc(a, p)
    BY <2>2, <2>4 DEF Enc
  <2> QED  BY <1>1, <2>5 DEF Paid
<1> QED  BY <1>3, <1>4, <1>5 DEF Charged, Bonded

\* What is charged and refunded in one step was never taken.
LEMMA RefundUndoesCharge ==
    ASSUME NEW a \in Accounts, NEW S \in SUBSET Members, epoch \in Nat,
           NEW d, IsBill(d, a, S), d.what = "Slot" => a[d.payer].slot
    PROVE  Refund(Charge(a, d), d) = a
<1> DEFINE p == d.payer
           q == a[p]
<1>1. CASE ~Charged(d)
  BY <1>1 DEF Charge, Refund, Charged, Bonded
<1>2. CASE Charged(d)
  <2>1. p \in Members /\ q \in Row /\ (Bonded(d) => d.amount \in Amounts)
    BY <1>2 DEF IsBill, Payers, Rows, Accounts, Free, Unpayable, Bill, Charged, Bonded, Amounts
  <2>2. q.used \in Nat /\ q.bonds \in Books /\ q.slot \in BOOLEAN
    BY <2>1 DEF Row
  <2>3. CASE d.what = "Allowance"
    <3>1. Charge(a, d) = [a EXCEPT ![p].used = @ + 1]
      BY <2>3 DEF Charge, Bonded
    <3>2. Refund(Charge(a, d), d) = [Charge(a, d) EXCEPT ![p].used = Minus(@, 1)]
      BY <2>3 DEF Refund, Bonded
    <3>3. Minus(q.used + 1, 1) = q.used
      BY <2>2 DEF Minus
    <3> QED  BY <2>1, <2>2, <3>1, <3>2, <3>3 DEF Accounts, Row
  <2>4. CASE d.what = "Slot"
    <3>1. Charge(a, d) = [a EXCEPT ![p].slot = FALSE]
      BY <2>4 DEF Charge, Bonded
    <3>2. Refund(Charge(a, d), d) = [Charge(a, d) EXCEPT ![p].slot = TRUE]
      BY <2>4 DEF Refund, Bonded
    <3>3. q.slot = TRUE
      BY <2>2, <2>4
    <3> QED  BY <2>1, <3>1, <3>2, <3>3 DEF Accounts, Row
  <2>5. CASE Bonded(d)
    <3>1. Charge(a, d) = [a EXCEPT ![p].bonds = Added(@, ReleaseAt, d.amount)]
      BY <2>5 DEF Charge, Bonded
    <3>2. Refund(Charge(a, d), d) = [Charge(a, d) EXCEPT ![p].bonds = Removed(@, ReleaseAt, d.amount)]
      BY <2>5 DEF Refund, Bonded
    <3>3. ReleaseAt \in Nat
      BY ReleaseAtIsInSpan DEF Span
    <3>4. Removed(Added(q.bonds, ReleaseAt, d.amount), ReleaseAt, d.amount) = q.bonds
      BY <2>1, <2>2, <2>5, <3>3, AddedRemoved
    <3> DEFINE b == Added(q.bonds, ReleaseAt, d.amount)
               c == [a EXCEPT ![p] = [q EXCEPT !.bonds = b]]
    <3>5. Charge(a, d) = c /\ c[p] = [q EXCEPT !.bonds = b] /\ c[p].bonds = b
      <4> HIDE DEF b
      <4>1. Charge(a, d) = c
        BY <3>1 DEF b
      <4> QED  BY <2>1, <4>1 DEF Accounts, Row
    <3>6. Refund(Charge(a, d), d) = [c EXCEPT ![p] = [c[p] EXCEPT !.bonds = Removed(b, ReleaseAt, d.amount)]]
      <4> HIDE DEF b, c
      <4> QED  BY <3>2, <3>5
    <3>7. Removed(b, ReleaseAt, d.amount) = q.bonds
      BY <3>4
    <3>8. [[q EXCEPT !.bonds = b] EXCEPT !.bonds = q.bonds] = q
      <4> HIDE DEF b
      <4> QED  BY <2>1 DEF Row
    <3>9. Refund(Charge(a, d), d) = [c EXCEPT ![p] = q]
      <4> HIDE DEF b, c
      <4> QED  BY <3>5, <3>6, <3>7, <3>8
    <3>10. [c EXCEPT ![p] = q] = a
      <4> HIDE DEF b
      <4> QED  BY <2>1 DEF Accounts
    <3> QED  BY <3>9, <3>10
  <2> QED  BY <1>2, <2>3, <2>4, <2>5 DEF Charged, Bonded
<1> QED  BY <1>1, <1>2

\* A handler that refuses leaves the id behind only against a payment.
LEMMA RejectionIsPaid ==
    ASSUME Sane, NEW tx \in Envelopes, NEW S \in SUBSET Members,
           NEW d, IsBill(d, acct, S), ~Refuses(d, tx), d.what = "Slot" => acct[d.payer].slot,
           Rejected(tx, S, d), applied' \ applied # {}
    PROVE  \E m \in Members : Paid(acct, acct', m)
<1> DEFINE r == RefusalBill(acct, tx, S)
<1>1. acct \in Accounts /\ epoch \in Nat
  BY DEF Sane, Healthy, SaneAs, AllSound
<1>2. CASE d = Free
  <2>1. Charge(acct, d) = acct
    BY <1>2 DEF Charge, Free, Bill, Bonded
  <2>2. acct' = Charge(acct, r) /\ applied' = applied \cup Kept(tx, r)
    BY <1>2, <2>1 DEF Rejected
  <2>3. r # Free
    BY <2>2 DEF Kept
  <2>4. IsBill(r, acct, S) /\ Charged(r) /\ (r.what = "Slot" => acct[r.payer].slot)
    BY <2>3, RefusalIsABill DEF Charged
  <2> HIDE DEF r
  <2> QED  BY <1>1, <2>2, <2>4, ChargePays
<1>3. CASE d # Free
  <2>1. acct' = Charge(acct, d)
    BY <1>3 DEF Rejected
  <2>2. Charged(d)
    BY <1>3 DEF IsBill, Refuses
  <2> QED  BY <1>1, <2>1, <2>2, ChargePays
<1> QED  BY <1>2, <1>3

LEMMA WritesArePaid ==
    ASSUME Sane, Record, Next
    PROVE  NoFreeWrites
<1> SUFFICES ASSUME applied' \ applied # {}, took' = took
             PROVE  \E m \in Members : Paid(acct, acct', m)
  BY DEF NoFreeWrites, Paid
<1>1. ASSUME NEW tx \in Envelopes, NEW S \in tx.copies, Apply(tx, S)
      PROVE  \E m \in Members : Paid(acct, acct', m)
  <2> DEFINE d == Due(Known, tx, S)
  <2>1. S \in SUBSET Members /\ tx.id \in Ids
    BY EnvelopeTypes
  <2>2. IsBill(d, acct, S) /\ (d.what = "Slot" => acct[d.payer].slot)
    BY <2>1, DueIsABill
  <2>3. \/ Refused(tx, S, d)
        \/ ~Refuses(d, tx) /\ (Unauthorised(tx, S, d) \/ Rejected(tx, S, d) \/ Taken(tx, S, d))
    BY <1>1 DEF Apply
  <2> HIDE DEF d
  <2>4. CASE Rejected(tx, S, d) /\ ~Refuses(d, tx)
    BY <2>1, <2>2, <2>4, RejectionIsPaid
  <2>5. CASE Taken(tx, S, d)
    <3>1. took \in [Ids -> Nat] /\ took' = [took EXCEPT ![tx.id] = @ + 1]
      BY <2>5 DEF Taken, Record
    <3>2. took'[tx.id] = took[tx.id] + 1 /\ took[tx.id] \in Nat
      BY <2>1, <3>1
    <3> QED  BY <3>2
  <2>6. CASE Refused(tx, S, d) \/ Unauthorised(tx, S, d)
    BY <2>6 DEF Refused, Unauthorised
  <2> QED  BY <2>3, <2>4, <2>5, <2>6
<1>2. CASE UNCHANGED applied
  BY <1>2
<1>3. ASSUME NEW n \in 1..MaxAdvance, BeginBlock(n)
      PROVE  FALSE
  BY <1>3 DEF BeginBlock, Pruned
<1> QED  BY <1>1, <1>2, <1>3 DEF Next, Screen, SetStatus, Restart

LEMMA UnsignedIsFree ==
    ASSUME Sane
    PROVE  UnsignedCostsNothing
<1> SUFFICES ASSUME NEW tx \in Envelopes, NEW S \in tx.copies, ~Authorised(tx, S), Apply(tx, S)
             PROVE  /\ UNCHANGED <<applied, graph, forfeited>>
                    /\ \A m \in Members : [acct'[m] EXCEPT !.denied = acct[m].denied] = acct[m]
  BY DEF UnsignedCostsNothing
<1> DEFINE d == Due(Known, tx, S)
<1>1. S \in SUBSET Members
  BY EnvelopeTypes
<1>2. IsBill(d, acct, S) /\ (d.what = "Slot" => acct[d.payer].slot)
  BY <1>1, DueIsABill
<1>3. acct \in Accounts /\ epoch \in Nat
  BY DEF Sane, Healthy, SaneAs, AllSound
<1>4. Refused(tx, S, d) \/ Unauthorised(tx, S, d)
  BY DEF Apply, Rejected, Taken
<1> HIDE DEF d
<1>5. ASSUME NEW r \in Row, NEW x \in BOOLEAN
      PROVE  [r EXCEPT !.denied = r.denied] = r /\ [[r EXCEPT !.denied = x] EXCEPT !.denied = r.denied] = r
  BY DEF Row
<1>6. CASE Refused(tx, S, d)
  <2>1. UNCHANGED <<applied, graph, forfeited>>
    BY <1>6 DEF Refused
  <2>2. acct' = acct \/ acct' = [acct EXCEPT ![d.payer].denied = TRUE]
    BY <1>6 DEF Refused
  <2>3. ASSUME NEW m \in Members
        PROVE  acct'[m] = acct[m] \/ acct'[m] = [acct[m] EXCEPT !.denied = TRUE]
    BY <1>3, <2>2 DEF Accounts
  <2> QED  BY <1>3, <1>5, <2>1, <2>3 DEF Accounts
<1>7. CASE Unauthorised(tx, S, d)
  <2>1. UNCHANGED <<applied, graph, forfeited>> /\ acct' = Refund(Charge(acct, d), d)
    BY <1>7 DEF Unauthorised
  <2>2. acct' = acct
    BY <1>1, <1>2, <1>3, <2>1, RefundUndoesCharge
  <2> QED  BY <1>3, <1>5, <2>1, <2>2 DEF Accounts
<1> QED  BY <1>4, <1>6, <1>7

\* Whether a refusal burns its id and what it costs go together
\* (crates/state/src/apply.rs price_refusal, refund, forget_applied): nothing is
\* written for free, and a copy without its signatures costs nobody anything.
THEOREM RefusalsArePricedAlways == Spec => RefusalsArePriced
<1>1. Sane /\ Record /\ [Next]_vars => [NoFreeWrites /\ UnsignedCostsNothing]_vars
  BY WritesArePaid, UnsignedIsFree
<1>2. Spec => []Record
  BY InitRecord, RecordStep, PTL DEF Spec
<1> QED  BY <1>1, <1>2, SaneAlways, PTL DEF Spec, RefusalsArePriced

-----------------------------------------------------------------------------
(* What becomes of a bond *)

\* A charge takes nothing off anybody's bonds.
LEMMA ChargeAddsOnly ==
    ASSUME NEW a \in Accounts, NEW S \in SUBSET Members, epoch \in Nat, NEW d, IsBill(d, a, S), NEW m \in Members
    PROVE  Enc(Charge(a, d), m) >= Enc(a, m)
<1> DEFINE p == d.payer
<1>1. a[m] \in Row /\ DOMAIN a = Members /\ Enc(a, m) \in Nat
  BY EncIsNatural DEF Accounts, Enc
<1>2. CASE ~Charged(d)
  <2>1. Charge(a, d) = a
    BY <1>2 DEF Charge, Charged, Bonded
  <2> QED  BY <1>1, <2>1
<1>3. CASE Charged(d)
  <2>1. p \in Members /\ a[p] \in Row /\ (Bonded(d) => d.amount \in Amounts)
    BY <1>3 DEF IsBill, Payers, Rows, Accounts, Free, Unpayable, Bill, Charged, Bonded, Amounts
  <2>2. a[p].bonds \in Books
    BY <2>1 DEF Row
  <2>3. CASE d.what = "Allowance"
    <3>1. Charge(a, d) = [a EXCEPT ![p].used = @ + 1]
      BY <2>3 DEF Charge, Bonded
    <3>2. Charge(a, d)[m].bonds = a[m].bonds
      BY <1>1, <2>1, <3>1 DEF Row
    <3> QED  BY <1>1, <3>2 DEF Enc
  <2>4. CASE d.what = "Slot"
    <3>1. Charge(a, d) = [a EXCEPT ![p].slot = FALSE]
      BY <2>4 DEF Charge, Bonded
    <3>2. Charge(a, d)[m].bonds = a[m].bonds
      BY <1>1, <2>1, <3>1 DEF Row
    <3> QED  BY <1>1, <3>2 DEF Enc
  <2>5. CASE Bonded(d)
    <3> DEFINE b == Added(a[p].bonds, ReleaseAt, d.amount)
    <3>1. Charge(a, d) = [a EXCEPT ![p].bonds = b]
      BY <2>5 DEF Charge, Bonded
    <3>2. ReleaseAt \in Nat
      BY ReleaseAtIsInSpan DEF Span
    <3>3. Sum(a[p].bonds) \in Nat /\ d.amount \in Nat /\ Sum(b) = Sum(a[p].bonds) + d.amount
      BY <2>1, <2>2, <2>5, <3>2, SumAdded DEF Amounts
    <3> HIDE DEF b
    <3>4. Charge(a, d)[m].bonds = IF m = p THEN b ELSE a[m].bonds
      BY <1>1, <2>1, <3>1 DEF Row
    <3> QED  BY <1>1, <3>3, <3>4 DEF Enc
  <2> QED  BY <1>3, <2>3, <2>4, <2>5 DEF Charged, Bonded
<1> QED  BY <1>2, <1>3

\* What the step leaves of a row's bonds and of what it forfeited.
NothingBack(m) == Enc(acct', m) >= Enc(acct, m) /\ forfeited'[m] = forfeited[m]

LEMMA SettledBack ==
    ASSUME NEW m, acct' \in Accounts, acct \in Accounts, m \in Members, NothingBack(m) \/ AllForfeited(m) \/ GivenBack(m)
    PROVE  Returning(m)
<1>1. Enc(acct', m) \in Nat /\ Enc(acct, m) \in Nat
  BY EncIsNatural DEF Accounts, Enc
<1> QED  BY <1>1 DEF NothingBack, Returning

LEMMA HandlerGivesNothingBack ==
    ASSUME NEW a, a \in Accounts, acct \in Accounts, forfeited \in [Members -> Nat],
           NEW tx \in Envelopes, NEW d, NEW m \in Rows(acct),
           Rows(a) = Rows(acct), Enc(a, m) >= Enc(acct, m), tx.kind = "Forfeit" => a = acct,
           Effect(a, tx, d)
    PROVE  NothingBack(m) \/ AllForfeited(m)
<1>1. m \in Members /\ a[m] \in Row /\ m \in Rows(a) /\ DOMAIN a = Members
  BY DEF Rows, Accounts
<1>2. tx.of \in Members /\ tx.to \in Members
  BY EnvelopeTypes
<1>3. CASE tx.kind = "Accept"
  <2>1. PICK run : acct' = Seated(a, tx, d, run) /\ forfeited' = forfeited
    BY <1>3 DEF Effect
  <2>2. m \notin Fresh(a, tx)
    BY <1>1 DEF Fresh
  <2> DEFINE seated == [x \in Members |-> IF x \in Fresh(a, tx)
                          THEN [NoRow EXCEPT !.status = "Active", !.slot = TRUE,
                                  !.seat = [sponsor |-> d.payer, held |-> run[IF x = Min(Fresh(a, tx)) THEN 1 ELSE 2]]]
                          ELSE a[x]]
  <2>3. acct' = [seated EXCEPT ![tx.of].debt = @ + Trade]
    BY <2>1 DEF Seated
  <2>4. seated[m] = a[m] /\ DOMAIN seated = Members
    BY <1>1, <2>2
  <2> HIDE DEF seated
  <2>5. acct'[m].bonds = a[m].bonds
    BY <1>1, <1>2, <2>3, <2>4 DEF Row
  <2> QED  BY <2>1, <2>5 DEF NothingBack, Enc
<1>4. CASE tx.kind = "Forfeit"
  <2>1. acct' = Forfeiting(a, {tx.of}) /\ forfeited' = Reserve(a, {tx.of})
    BY <1>4 DEF Effect
  <2>2. CASE m = tx.of
    <3>1. acct'[m] = [a[m] EXCEPT !.bonds = <<>>, !.saturated = 0, !.denied = FALSE]
      BY <1>1, <2>1, <2>2 DEF Forfeiting
    <3>2. acct'[m].bonds = <<>>
      BY <1>1, <3>1 DEF Row
    <3>3. forfeited'[m] = forfeited[m] + Enc(acct, m)
      BY <1>1, <1>4, <2>1, <2>2 DEF Reserve
    <3> QED  BY <3>2, <3>3, EmptyBook DEF AllForfeited
  <2>3. CASE m # tx.of
    <3>1. acct'[m] = a[m]
      BY <1>1, <2>1, <2>3 DEF Forfeiting
    <3>2. forfeited'[m] = forfeited[m]
      BY <1>1, <2>1, <2>3 DEF Reserve
    <3> QED  BY <1>1, <3>1, <3>2 DEF NothingBack, Enc
  <2> QED  BY <2>2, <2>3
<1>5. CASE tx.kind \in {"Settle", "Lower", "Exit", "Register", "Propose"}
  <2>1. forfeited' = forfeited /\ \/ acct' = a
                                  \/ acct' = [a EXCEPT ![tx.of].debt = @ - Trade]
                                  \/ acct' = [a EXCEPT ![tx.of].status = "Exited"]
    BY <1>5 DEF Effect
  <2>2. acct'[m].bonds = a[m].bonds
    BY <1>1, <1>2, <2>1 DEF Row
  <2> QED  BY <2>1, <2>2 DEF NothingBack, Enc
<1> QED  BY <1>3, <1>4, <1>5, EnvelopeTypes DEF Kinds

LEMMA ApplyGivesNothingBack ==
    ASSUME Sane, NEW tx \in Envelopes, NEW S \in tx.copies, Apply(tx, S), NEW m \in Rows(acct)
    PROVE  NothingBack(m) \/ AllForfeited(m)
<1> DEFINE d == Due(Known, tx, S)
           a == Charge(acct, d)
<1>1. /\ acct \in Accounts /\ epoch \in Nat /\ AllSound(acct, epoch, denials) /\ S \in SUBSET Members
      /\ m \in Members /\ forfeited \in [Members -> Nat]
  BY EnvelopeTypes DEF Sane, Healthy, SaneAs, AllSound, Rows
<1>2. /\ IsBill(d, acct, S)
      /\ d = Free <=> Multiple(tx) = 0
      /\ d.what = "Slot" => acct[d.payer].slot
  BY <1>1, DueIsABill
<1>3. Enc(acct, m) \in Nat
  BY <1>1, EncIsNatural DEF Enc, Accounts
<1>4. \/ Refused(tx, S, d)
      \/ ~Refuses(d, tx) /\ (Unauthorised(tx, S, d) \/ Rejected(tx, S, d) \/ Taken(tx, S, d))
  BY DEF Apply
<1>5. a \in Accounts /\ Rows(a) = Rows(acct) /\ Enc(a, m) >= Enc(acct, m)
  <2>1. AllSound(a, epoch, denials) /\ \A x \in Members : Standing(a[x]) = Standing(acct[x])
    BY <1>1, <1>2, ChargeIsSound
  <2>2. Rows(a) = Rows(acct)
    BY <2>1, SameStanding
  <2> QED  BY <1>1, <1>2, <2>1, <2>2, ChargeAddsOnly DEF AllSound
<1>6. d = Free => a = acct
  BY DEF Charge, Free, Bill, Bonded
<1> HIDE DEF d, a
<1>7. CASE Refused(tx, S, d)
  <2>1. forfeited' = forfeited /\ (acct' = acct \/ acct' = [acct EXCEPT ![d.payer].denied = TRUE])
    BY <1>7 DEF Refused
  <2>2. acct'[m].bonds = acct[m].bonds
    BY <1>1, <2>1 DEF Accounts, Row
  <2> QED  BY <1>3, <2>1, <2>2 DEF NothingBack, Enc
<1>8. CASE Unauthorised(tx, S, d)
  <2>1. forfeited' = forfeited /\ acct' = Refund(Charge(acct, d), d)
    BY <1>8 DEF Unauthorised
  <2>2. acct' = acct
    BY <1>1, <1>2, <2>1, RefundUndoesCharge
  <2> QED  BY <1>3, <2>1, <2>2 DEF NothingBack
<1>9. CASE Rejected(tx, S, d)
  <2> DEFINE r == RefusalBill(a, tx, S)
  <2>1. forfeited' = forfeited /\ acct' = IF d = Free THEN Charge(a, r) ELSE a
    BY <1>9 DEF Rejected, a
  <2>2. IsBill(r, a, S)
    BY <1>1, RefusalIsABill
  <2> HIDE DEF r
  <2>3. Enc(Charge(a, r), m) >= Enc(a, m) /\ Enc(a, m) \in Nat /\ Enc(Charge(a, r), m) \in Nat
    <3>1. Enc(a, m) \in Nat
      BY <1>1, <1>5, EncIsNatural DEF Enc, Accounts
    <3>2. CASE d = Free
      <4>1. AllSound(Charge(a, r), epoch, denials)
        BY <1>1, <1>6, <2>2, <3>2, ChargeIsSound
      <4>2. Enc(Charge(a, r), m) \in Nat
        BY <1>1, <4>1, EncIsNatural DEF Enc, Accounts, AllSound
      <4> QED  BY <1>1, <1>5, <2>2, <3>1, <4>2, ChargeAddsOnly
    <3>3. CASE d # Free
      <4>1. AllSound(a, epoch, denials)
        BY <1>1, <1>2, ChargeIsSound DEF a
      <4>2. AllSound(Charge(a, r), epoch, denials)
        BY <1>1, <2>2, <4>1, ChargeIsSound
      <4>3. Enc(Charge(a, r), m) \in Nat
        BY <1>1, <4>2, EncIsNatural DEF Enc, Accounts, AllSound
      <4> QED  BY <1>1, <1>5, <2>2, <3>1, <4>3, ChargeAddsOnly
    <3> QED  BY <3>2, <3>3
  <2> QED  BY <1>3, <1>5, <2>1, <2>3 DEF NothingBack
<1>10. CASE Taken(tx, S, d)
  <2>1. Effect(a, tx, d)
    BY <1>10 DEF Taken, a
  <2>2. tx.kind = "Forfeit" => a = acct
    BY <1>2, <1>6, MultipleType
  <2> QED  BY <1>1, <1>5, <2>1, <2>2, HandlerGivesNothingBack
<1> QED  BY <1>4, <1>7, <1>8, <1>9, <1>10

\* The rows an epoch boundary closes with, and whose bonds its crank takes.
Closing(n) == Reset(acct, n)
Taking(n) == Sanctioned(Closing(n))

LEMMA ClosingRow ==
    ASSUME Healthy, NEW n \in Nat \ {0}, NEW m \in Members
    PROVE  /\ Closing(n)[m] = CrossedRow(acct[m], n)
           /\ Closing(n)[m] \in Row /\ Closing(n)[m].bonds = acct[m].bonds
           /\ \A k \in 1..Closing(n)[m].saturated : k <= epoch + n /\ (epoch + n) - k \in denials[m]
<1> DEFINE c == CrossedRow(acct[m], n)
           b == Restrict(acct[m].bonds, {k \in DOMAIN acct[m].bonds : k > epoch + n})
<1>1. Closing(n)[m] = c
  BY DEF Closing, Reset, CrossedRow
<1>2. epoch \in Nat /\ Sound(acct[m], epoch, denials[m]) /\ acct[m].bonds \in Books
  BY DEF Healthy, SaneAs, AllSound, Sound, Row
<1>3. b \in Books
  BY <1>2, BookParts
<1>4. 0 \in Nat
  OBVIOUS
<1>5. c \in Row /\ c.bonds = acct[m].bonds /\ Sound([c EXCEPT !.bonds = b], epoch + n, denials[m])
  BY <1>2, <1>3, <1>4, BoundaryRow
<1> HIDE DEF c, b
<1>6. [c EXCEPT !.bonds = b].saturated = c.saturated
  BY <1>5 DEF Row
<1> QED  BY <1>1, <1>5, <1>6 DEF Sound, c

\* The bonds the crank takes are gone whole; of the others only what was due is.
LEMMA BoundaryBonds ==
    ASSUME Healthy, NEW n \in 1..MaxAdvance, BeginBlock(n), NEW m \in Members
    PROVE  /\ epoch' = epoch + n
           /\ forfeited' = Reserve(Closing(n), Taking(n))
           /\ m \in Taking(n) => DOMAIN acct'[m].bonds = {}
           /\ m \notin Taking(n) =>
                 \/ Enc(acct, m) = 0
                 \/ /\ acct'[m].bonds = Restrict(acct[m].bonds, {k \in DOMAIN acct[m].bonds : k > epoch + n})
                    /\ acct'[m].saturated = Closing(n)[m].saturated
<1> DEFINE e == epoch + n
           a == Closing(n)
           M == Taking(n)
<1>1. n \in Nat \ {0} /\ epoch \in Nat /\ acct \in Accounts /\ Sound(acct[m], epoch, denials[m])
  BY GateAssumption DEF Healthy, SaneAs, AllSound
<1>2. Times(Crossed, acct, n) = a
  BY <1>1, TimesCrossed DEF Closing
<1>3. a[m] = CrossedRow(acct[m], n)
  BY <1>1, ClosingRow
<1> HIDE DEF a
<1>4. epoch' = e /\ forfeited' = Reserve(a, M)
  BY <1>2 DEF BeginBlock, Taking, a
<1>5. PICK late \in SUBSET {x \in Rows(a) : a[x].debt > a[x].dflt} :
        \E R \in SUBSET Empty(Forfeiting(Overdue(a, late), M), Reserve(a, M)) :
           acct' = Released(Retired(Forfeiting(Overdue(a, late), M), R), e)
  BY <1>2 DEF BeginBlock, Taking, a
<1> HIDE DEF M
<1>6. PICK R \in SUBSET Empty(Forfeiting(Overdue(a, late), M), Reserve(a, M)) :
        acct' = Released(Retired(Forfeiting(Overdue(a, late), M), R), e)
  BY <1>5
<1> DEFINE o == Forfeiting(Overdue(a, late), M)
           p == Passed(acct[m], n, m, late)
<1>7. o[m] = IF m \in M THEN Cleared(p) ELSE p
  <2>1. Overdue(a, late)[m] = p
    BY <1>3 DEF Overdue, Passed
  <2> QED  BY <2>1 DEF Forfeiting, Cleared
<1>8. acct'[m] = IF m \in R THEN Freed([NoRow EXCEPT !.status = "Retired"], e) ELSE Freed(o[m], e)
  BY <1>6 DEF Released, Retired, Freed
<1>9. /\ p \in Row /\ p.bonds = acct[m].bonds /\ p.saturated = a[m].saturated
      /\ Sound(Freed(p, e), e, denials[m])
  <2>1. p.saturated = CrossedRow(acct[m], n).saturated
    BY <1>1, PassedRow
  <2> QED  BY <1>1, <1>3, <2>1, PassedRow
<1>10. m \in R => Enc(o, m) = 0
  BY <1>6 DEF Empty
<1> HIDE DEF o, p
<1>11. ASSUME m \in M
       PROVE  DOMAIN acct'[m].bonds = {}
  <2>1. CASE m \in R
    <3> DEFINE q == [NoRow EXCEPT !.status = "Retired"]
    <3>1. q \in Row /\ q.bonds = <<>>
      <4>1. NoSeat \in Seats
        BY NoHoldTakesNothing DEF NoSeat, Seats
      <4>2. NoRow \in Row /\ q \in Row /\ NoRow.bonds = <<>>
        BY <4>1, NoRowType DEF NoRow
      <4> QED  BY <4>2 DEF Row
    <3>2. acct'[m] = Freed(q, e)
      BY <1>8, <2>1
    <3> HIDE DEF q
    <3>3. acct'[m].bonds = Restrict(q.bonds, {k \in DOMAIN q.bonds : k > e})
      BY <3>1, <3>2 DEF Freed, Row
    <3> QED  BY <3>1, <3>3, EmptyBook, BookParts
  <2>2. CASE m \notin R
    <3>1. acct'[m] = Freed(Cleared(p), e)
      BY <1>7, <1>8, <1>11, <2>2
    <3> QED  BY <1>9, <3>1, ClearedRow
  <2> QED  BY <2>1, <2>2
<1>12. ASSUME m \notin M
       PROVE  \/ Enc(acct, m) = 0
              \/ /\ acct'[m].bonds = Restrict(acct[m].bonds, {k \in DOMAIN acct[m].bonds : k > e})
                 /\ acct'[m].saturated = a[m].saturated
  <2>1. CASE m \in R
    <3>1. Enc(acct, m) = 0
      BY <1>7, <1>9, <1>10, <1>12, <2>1 DEF Enc
    <3> QED  BY <3>1
  <2>2. CASE m \notin R
    <3>1. acct'[m] = Freed(p, e)
      BY <1>7, <1>8, <1>12, <2>2
    <3>2. acct'[m].bonds = Restrict(acct[m].bonds, {k \in DOMAIN acct[m].bonds : k > e})
          /\ acct'[m].saturated = a[m].saturated
      BY <1>9, <3>1 DEF Freed, Row
    <3> QED  BY <3>2
  <2> QED  BY <2>1, <2>2
<1> QED  BY <1>4, <1>11, <1>12 DEF a, M

LEMMA BoundaryReturns ==
    ASSUME Healthy, NEW n \in 1..MaxAdvance, BeginBlock(n), NEW m \in Members
    PROVE  (Enc(acct, m) = 0 /\ forfeited'[m] = forfeited[m]) \/ AllForfeited(m) \/ GivenBack(m)
<1> DEFINE a == Closing(n)
           M == Taking(n)
           T == {k \in DOMAIN acct[m].bonds : k > epoch + n}
<1>1. n \in Nat \ {0} /\ epoch \in Nat /\ forfeited \in [Members -> Nat] /\ acct[m] \in Row
  BY GateAssumption DEF Healthy, SaneAs, AllSound, Accounts
<1>2. a[m].bonds = acct[m].bonds /\ Enc(a, m) = Enc(acct, m)
  BY <1>1, ClosingRow DEF Enc
<1>3. /\ epoch' = epoch + n /\ forfeited' = Reserve(a, M)
      /\ m \in M => DOMAIN acct'[m].bonds = {}
      /\ m \notin M => \/ Enc(acct, m) = 0
                       \/ acct'[m].bonds = Restrict(acct[m].bonds, T) /\ acct'[m].saturated = a[m].saturated
  BY BoundaryBonds
<1>4. forfeited'[m] = forfeited[m] + IF m \in M THEN Enc(a, m) ELSE 0
  BY <1>3 DEF Reserve
<1>5. m \notin M /\ a[m].saturated >= ForfeitEpochs => Enc(a, m) <= Dust
  <2>1. Enc(a, m) \in Nat /\ Dust \in Nat
    BY <1>1, <1>2, EncIsNatural, GateAssumption DEF Enc
  <2> QED  BY <2>1 DEF Taking, Sanctioned, Saturated
<1> HIDE DEF a, M
<1>6. CASE m \in M
  BY <1>2, <1>3, <1>4, <1>6 DEF AllForfeited
<1>7. CASE m \notin M /\ Enc(acct, m) = 0
  BY <1>1, <1>4, <1>7
<1>8. CASE m \notin M /\ acct'[m].bonds = Restrict(acct[m].bonds, T) /\ acct'[m].saturated = a[m].saturated
  <2>1. forfeited'[m] = forfeited[m]
    BY <1>1, <1>4, <1>8
  <2>2. \A k \in DOMAIN acct[m].bonds : k > epoch' => HeldAt(acct'[m].bonds, k) = acct[m].bonds[k]
    BY <1>3, <1>8 DEF HeldAt, Restrict
  <2>3. Saturated(acct', m) => Enc(acct, m) <= Dust
    BY <1>2, <1>5, <1>8 DEF Saturated
  <2> QED  BY <2>1, <2>2, <2>3 DEF GivenBack
<1> QED  BY <1>3, <1>6, <1>7, <1>8

\* Every bond a member has in hand is on its way back, and what is taken of a
\* saturated member's goes to the forfeit reserve whole, a bond due on that very
\* boundary included (crates/state/src/state.rs begin_block, release_bonds;
\* apply.rs sweep_cranks, forfeit_bonds).
THEOREM BondsReturnAlways == Spec => BondsReturn
<1>1. ASSUME Sane, Sane', [Next]_vars
      PROVE  BondsAreDated
  BY <1>1 DEF Sane, Healthy, SaneAs, AllSound, Sound, Span, BondsAreDated
<1>2. ASSUME Sane, Sane', Next, NEW m \in Rows(acct)
      PROVE  Returning(m)
  <2>1. acct \in Accounts /\ acct' \in Accounts /\ m \in Members /\ Enc(acct, m) \in Nat /\ Enc(acct', m) \in Nat
    <3>1. acct \in Accounts /\ acct' \in Accounts /\ m \in Members
      BY <1>2 DEF Sane, Healthy, SaneAs, AllSound, Rows
    <3> QED  BY <3>1, EncIsNatural DEF Enc, Accounts
  <2>2. ASSUME NEW tx \in Envelopes, NEW S \in tx.copies, Apply(tx, S)
        PROVE  Returning(m)
    <3>1. NothingBack(m) \/ AllForfeited(m)
      BY <1>2, <2>2, ApplyGivesNothingBack
    <3> QED  BY <2>1, <3>1, SettledBack
  <2>3. ASSUME NEW n \in 1..MaxAdvance, BeginBlock(n)
        PROVE  Returning(m)
    <3>1. (Enc(acct, m) = 0 /\ forfeited'[m] = forfeited[m]) \/ AllForfeited(m) \/ GivenBack(m)
      BY <1>2, <2>1, <2>3, BoundaryReturns DEF Sane
    <3> QED  BY <2>1, <3>1, SettledBack DEF NothingBack
  <2>4. ASSUME NEW x \in MaySuspend, SetStatus(x)
        PROVE  Returning(m)
    <3>1. forfeited' = forfeited /\ acct'[m].bonds = acct[m].bonds
      BY <2>1, <2>4 DEF SetStatus, Accounts, Row
    <3> QED  BY <2>1, <3>1 DEF Returning, Enc
  <2>5. CASE UNCHANGED <<acct, forfeited>>
    BY <2>1, <2>5 DEF Returning
  <2> QED  BY <1>2, <2>2, <2>3, <2>4, <2>5 DEF Next, Screen, Restart
<1>3. Sane /\ Sane' /\ [Next]_vars => [BondsAreDated /\ \A m \in Rows(acct) : Returning(m)]_vars
  BY <1>1, <1>2
<1> QED  BY <1>3, SaneAlways, PTL DEF Spec, BondsReturn

-----------------------------------------------------------------------------
(* What a sanction rests on *)

\* The epochs before e, as many as the sanction takes, each had a denial of m.
EarnedBy(m, e, D) == \A k \in 1..ForfeitEpochs : k <= e /\ e - k \in D[m]

LEMMA SaturationEarns ==
    ASSUME NEW x \in Nat, x >= ForfeitEpochs, NEW e, NEW D, NEW m,
           \A k \in 1..x : k <= e /\ e - k \in D[m]
    PROVE  EarnedBy(m, e, D)
<1>1. 1..ForfeitEpochs \subseteq 1..x
  BY GateAssumption
<1> QED  BY <1>1 DEF EarnedBy

LEMMA SanctionStep ==
    ASSUME Sane, SanctionIsEarned, [Next]_vars
    PROVE  SanctionIsEarned'
<1>1. /\ epoch \in Nat /\ forfeited \in [Members -> Nat] /\ denials \in [Members -> SUBSET Nat]
      /\ acct \in Accounts /\ \A m \in Members : Sound(acct[m], epoch, denials[m])
  BY DEF Sane, Healthy, SaneAs, AllSound
<1>2. ASSUME epoch' \in Nat, epoch' >= epoch, \A m \in Members : denials[m] \subseteq denials'[m],
             \A m \in Members : forfeited'[m] = forfeited[m] \/ \E e \in 0..epoch' : EarnedBy(m, e, denials)
      PROVE  SanctionIsEarned'
  <2> SUFFICES ASSUME NEW m \in Members, forfeited'[m] > 0
               PROVE  \E e \in 0..epoch' : EarnedBy(m, e, denials')
    BY DEF SanctionIsEarned, EarnedBy
  <2>1. PICK e \in 0..epoch' : EarnedBy(m, e, denials)
    <3>1. CASE forfeited'[m] = forfeited[m]
      <4>1. PICK e \in 0..epoch : EarnedBy(m, e, denials)
        BY <3>1 DEF SanctionIsEarned, EarnedBy
      <4>2. e \in 0..epoch'
        BY <1>1, <1>2
      <4> QED  BY <4>1, <4>2
    <3>2. CASE \E e \in 0..epoch' : EarnedBy(m, e, denials)
      BY <3>2
    <3> QED  BY <1>2, <3>1, <3>2
  <2>2. EarnedBy(m, e, denials')
    BY <1>2, <2>1 DEF EarnedBy
  <2> QED  BY <2>2
<1>3. ASSUME NEW n \in 1..MaxAdvance, BeginBlock(n)
      PROVE  SanctionIsEarned'
  <2>1. n \in Nat \ {0} /\ epoch' = epoch + n /\ denials' = denials
    BY <1>3, GateAssumption DEF BeginBlock
  <2>2. ASSUME NEW m \in Members
        PROVE  forfeited'[m] = forfeited[m] \/ \E e \in 0..epoch' : EarnedBy(m, e, denials)
    <3>1. forfeited' = Reserve(Closing(n), Taking(n))
      BY <1>3, BoundaryBonds DEF Sane
    <3>2. CASE m \notin Taking(n)
      BY <1>1, <3>1, <3>2 DEF Reserve
    <3>3. CASE m \in Taking(n)
      <4> DEFINE x == Closing(n)[m].saturated
      <4>1. x >= ForfeitEpochs
        BY <3>3 DEF Taking, Sanctioned, Saturated
      <4>2. Closing(n)[m] \in Row /\ \A k \in 1..x : k <= epoch + n /\ (epoch + n) - k \in denials[m]
        BY <2>1, ClosingRow DEF Sane
      <4>3. x \in Nat
        BY <4>2 DEF Row
      <4> HIDE DEF x
      <4>4. EarnedBy(m, epoch + n, denials)
        BY <4>1, <4>2, <4>3, SaturationEarns
      <4>5. epoch + n \in 0..epoch'
        BY <1>1, <2>1
      <4> QED  BY <4>4, <4>5
    <3> QED  BY <3>2, <3>3
  <2> QED  BY <1>1, <1>2, <2>1, <2>2
<1>4. ASSUME NEW tx \in Envelopes, NEW S \in tx.copies, Apply(tx, S)
      PROVE  SanctionIsEarned'
  <2> DEFINE d == Due(Known, tx, S)
  <2>1. epoch' = epoch
    BY <1>4 DEF Apply
  <2>2. \A m \in Members : denials[m] \subseteq denials'[m]
    <3>1. denials' = denials \/ denials' = [denials EXCEPT ![d.payer] = @ \cup {epoch}]
      BY <1>4 DEF Apply, Refused, Unauthorised, Rejected, Taken
    <3> QED  BY <1>1, <3>1
  <2>3. ASSUME NEW m \in Members, forfeited'[m] # forfeited[m]
        PROVE  EarnedBy(m, epoch, denials)
    <3>1. Taken(tx, S, d)
      BY <1>4, <2>3 DEF Apply, Refused, Unauthorised, Rejected
    <3>2. Effect(Charge(acct, d), tx, d) /\ CanTake(Charge(acct, d), tx)
      BY <3>1 DEF Taken
    <3>3. tx.kind = "Forfeit"
      BY <2>3, <3>2 DEF Effect
    <3>4. d = Free
      BY <1>4, <3>3, MultipleType, DueIsABill, EnvelopeTypes
    <3>5. Charge(acct, d) = acct
      BY <3>4 DEF Charge, Free, Bill, Bonded
    <3>6. forfeited' = Reserve(acct, {tx.of}) /\ tx.of \in Sanctioned(acct)
      <4> HIDE DEF d
      <4> QED  BY <3>2, <3>3, <3>5 DEF Effect, CanTake
    <3>7. m = tx.of
      BY <1>1, <2>3, <3>6 DEF Reserve
    <3>8. acct[m].saturated \in Nat /\ acct[m].saturated >= ForfeitEpochs
      <4>1. acct[m] \in Row
        BY <1>1 DEF Accounts
      <4> QED  BY <3>6, <3>7, <4>1 DEF Row, Sanctioned, Saturated
    <3> QED  BY <1>1, <3>8, SaturationEarns DEF Sound
  <2>4. \A m \in Members : forfeited'[m] = forfeited[m] \/ \E e \in 0..epoch' : EarnedBy(m, e, denials)
    BY <1>1, <2>1, <2>3
  <2> QED  BY <1>1, <1>2, <2>1, <2>2, <2>4
<1>5. CASE UNCHANGED <<epoch, forfeited, denials>>
  BY <1>5 DEF SanctionIsEarned
<1> QED  BY <1>3, <1>4, <1>5 DEF Next, SetStatus, Screen, Restart, vars

\* What the forfeiture crank counts are epochs in a row, each with a denial, and
\* nobody's bonds are forfeited, at a boundary or by a transaction, who was not
\* denied in ForfeitEpochs of them (crates/state/src/state.rs begin_block;
\* apply.rs sweep_cranks, forfeit_bonds).
THEOREM SaturationIsEarnedAlways == Spec => []SaturationIsEarned
<1>1. Sane => CountIsEarned
  BY DEF Sane, Healthy, SaneAs, AllSound, Sound, Rows, CountIsEarned
<1>2. Init => SanctionIsEarned
  BY DEF Init, SanctionIsEarned
<1>3. Spec => []SanctionIsEarned
  BY <1>2, SanctionStep, SaneAlways, PTL DEF Spec
<1> QED  BY <1>1, <1>3, SaneAlways, PTL DEF SaturationIsEarned
=============================================================================
