------------------------------ MODULE StakeGraph ------------------------------
(***************************************************************************)
(* The stake graph and the flows that insured claims hold on it            *)
(* (crates/kernel/src/flow.rs, and the division of a hold in               *)
(* crates/state/src/loss.rs).                                              *)
(*                                                                         *)
(* A weight is a function on Arcs, a supply a function on Members.  A hold *)
(* is kept as the code keeps it, what it takes of each arc and of each     *)
(* supply; it is divided along the routes it decomposes into, a function   *)
(* from paths <<underwriter, ..., debtor>> to what they carry.  Which of   *)
(* the feasible flows the solver returns is left open.                     *)
(***************************************************************************)
EXTENDS Naturals, Sequences, FiniteSets, FiniteSetsExt, Functions, SequencesExt

CONSTANT Members   \* account ids, the indices of the flow network

ASSUME MembersAssumption == Members \subseteq Nat /\ IsFiniteSet(Members)

Arcs == {a \in Members \X Members : a[1] # a[2]}

Minus(x, y) == IF x > y THEN x - y ELSE 0   \* saturating_sub

Less(x, y) == IF x < y THEN x ELSE y
More(x, y) == IF x < y THEN y ELSE x

Sum(f) == FoldFunction(+, 0, f)

\* the numbers of S, from the least up
Ascending(S) ==
    [i \in 1..Cardinality(S) |-> CHOOSE x \in S : Cardinality({y \in S : y < x}) = i - 1]

\* the routes that carry something
Positive(f) == Restrict(f, {r \in DOMAIN f : f[r] > 0})

-----------------------------------------------------------------------------
(* Routes and holds *)

Paths == {p \in UNION {[1..n -> Members] : n \in 2..Cardinality(Members)} : IsInjective(p)}

Crosses(r, a) == \E i \in 1..Len(r) - 1 : r[i] = a[1] /\ r[i + 1] = a[2]

NoHold == <<>>

Amount(h) == Sum(h)

HeldOn(h, a) == Sum(Restrict(h, {r \in DOMAIN h : Crosses(r, a)}))

From(h, u) == Restrict(h, {r \in DOMAIN h : r[1] = u})

Drawn(h, u) == Sum(From(h, u))

\* from_paths
Held(h) == [edges |-> [a \in Arcs |-> HeldOn(h, a)], supply |-> [u \in Members |-> Drawn(h, u)]]

Nothing == Held(NoHold)

HeldAmount(x) == Sum(x.supply)

Underwriters(x) == {u \in Members : x.supply[u] > 0}

Plus(x, y) == [edges |-> [a \in Arcs |-> x.edges[a] + y.edges[a]],
               supply |-> [u \in Members |-> x.supply[u] + y.supply[u]]]

Without(x, y) == [edges |-> [a \in Arcs |-> Minus(x.edges[a], y.edges[a])],
                  supply |-> [u \in Members |-> Minus(x.supply[u], y.supply[u])]]

\* A walk from u along the lowest-numbered arcs that still carry something.
Walk(edges, u, d) ==
    FoldLeft(LAMBDA p, k :
                LET next == {m \in Members \ {Last(p)} : edges[<<Last(p), m>>] > 0}
                IN IF Last(p) = d \/ next = {} THEN p ELSE Append(p, Min(next)),
             <<u>>, [k \in 1..Cardinality(Members) |-> k])

\* a flow of v along p and nothing else, and the same on top of other routes
Alone(p, v) == [r \in {p} |-> v]

Carrying(h, p, v) ==
    [r \in DOMAIN h \cup {p} |-> (IF r \in DOMAIN h THEN h[r] ELSE 0) + (IF r = p THEN v ELSE 0)]

\* One route of the path p is taken off what is left of a hold.
Followed(s, d, p) ==
    LET v == Min({s.left.supply[p[1]]} \cup {s.left.edges[<<p[i], p[i + 1]>>] : i \in 1..Len(p) - 1})
    IN IF Last(p) # d \/ ~IsInjective(p) THEN [s EXCEPT !.flow = FALSE]
       ELSE [s EXCEPT !.left = Without(@, Held(Alone(p, v))), !.routes = Carrying(@, p, v)]

OneRoute(s, d) ==
    IF Underwriters(s.left) = {} \/ ~s.flow THEN s
    ELSE Followed(s, d, Walk(s.left.edges, Min(Underwriters(s.left)), d))

Whole(s) == [routes |-> s.routes, flow |-> s.flow /\ s.left = Nothing]

\* decompose: the routes of a hold, and whether it is a flow at all.
Decomposed(x, d) ==
    LET arcs == {a \in Arcs : x.edges[a] > 0}
    IN Whole(FoldLeft(LAMBDA t, k : OneRoute(t, d), [left |-> x, routes |-> NoHold, flow |-> TRUE],
                      [k \in 1..Cardinality(arcs) + Cardinality(Underwriters(x)) |-> k]))

-----------------------------------------------------------------------------
(* Cuts and flows *)

\* The least cut between the supply outside T and T: underwriters inside the
\* measured set supply it nothing.
Cut(weight, supply, T) ==
    Min({Sum([u \in S \ T |-> supply[u]])
           + Sum([a \in (Members \ S) \X S |-> weight[a]])
         : S \in {S \in SUBSET Members : T \subseteq S}})

\* The feasible flows of exactly x along some routes.
Flows(routes, weight, supply, x) ==
    LET open == {p \in routes : /\ supply[p[1]] > 0
                                /\ \A a \in Arcs : Crosses(p, a) => weight[a] > 0}
    IN {Positive(f) : f \in {f \in [open -> 0..x] :
            /\ Sum(f) = x
            /\ \A a \in Arcs : HeldOn(f, a) <= weight[a]
            /\ \A u \in Members : Drawn(f, u) <= supply[u]}}

\* What reserve may return for d.
Reservations(weight, supply, d, x) ==
    {Held(h) : h \in Flows({p \in Paths : Last(p) = d}, weight, supply, x)}

Decayed(weight, reserved, num, den) ==
    [a \in Arcs |-> More((weight[a] * num) \div den, reserved[a])]

-----------------------------------------------------------------------------
(* Dividing a hold *)

\* n shared over w in proportion, largest remainder first, then lowest rank;
\* capped, an entry that already has all its weight takes no remainder.
Shares(w, n, rank, capped) ==
    LET total == Sum(w)
        q == [k \in DOMAIN w |-> (w[k] * n) \div total]
        rem == [k \in DOMAIN w |-> (w[k] * n) % total]
        may == {k \in DOMAIN w : capped => q[k] < w[k]}
        turn(k) == Cardinality({j \in may : rem[j] > rem[k] \/ (rem[j] = rem[k] /\ rank[j] < rank[k])})
        extra == {k \in may : turn(k) < Minus(n, Sum(q))}
    IN IF total = 0 THEN w ELSE [k \in DOMAIN w |-> IF k \in extra THEN q[k] + 1 ELSE q[k]]

\* allocate: no entry keeps more than it had.
Allocated(w, keep, rank) == Shares(w, keep, rank, TRUE)

Id(x) == [u \in Underwriters(x) |-> u]
Supplied(x) == Restrict(x.supply, Underwriters(x))

RouteBefore(r, s) == \E i \in 1..Less(Len(r), Len(s)) :
                        r[i] < s[i] /\ \A j \in 1..i - 1 : r[j] = s[j]

\* decompose finds the routes of a source in this order
Rank(h) == [r \in DOMAIN h |-> Cardinality({s \in DOMAIN h : RouteBefore(s, r)})]

ShrunkOntoOne(x, d, keep) ==   \* mutant: what is still owed is put on one route
    LET h == Decomposed(x, d).routes
        first == CHOOSE r \in DOMAIN h : \A s \in DOMAIN h : s = r \/ RouteBefore(r, s)
    IN IF keep = 0 THEN Nothing ELSE Held(Alone(first, keep))

\* The part of a hold that a division of its supply leaves: along its routes
\* p.routes, or, of one that is not a flow, the nearest share of each arc.
Divided(x, p, kept) ==
    LET h == p.routes
        share == [u \in Underwriters(x) |-> Allocated(From(h, u), kept[u], Rank(From(h, u)))]
        total == HeldAmount(x)
        keep == Sum(kept)
    IN IF p.flow
       THEN Held([r \in DOMAIN h |-> share[r[1]][r]])
       ELSE [edges |-> [a \in Arcs |-> (2 * x.edges[a] * keep + total) \div (2 * total)],
             supply |-> [u \in Members |-> IF u \in Underwriters(x) THEN kept[u] ELSE 0]]

\* What still stands of a hold of which keep is still owed.
Shrunk(x, d, keep) == Divided(x, Decomposed(x, d), Allocated(Supplied(x), keep, Id(x)))

\* The part of a hold behind the underwriter u, likewise.
PartOf(x, p, u) ==
    IF p.flow
    THEN Held(From(p.routes, u))
    ELSE [edges |-> [a \in Arcs |-> Shares(Supplied(x), x.edges[a], Id(x), FALSE)[u]],
          supply |-> [m \in Members |-> IF m = u THEN x.supply[u] ELSE 0]]

\* The piece of a hold that substitution gives u.
Piece(x, d, u) == PartOf(x, Decomposed(x, d), u)
=============================================================================
