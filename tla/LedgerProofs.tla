----------------------------- MODULE LedgerProofs -----------------------------
(***************************************************************************)
(* What the book keeps for every instance: it never fails its audit, what  *)
(* panels award against a member stays within what it agreed to, no live   *)
(* claim is overdue, no hold grows, and nobody stands worse for what they  *)
(* did not sign -- through payments, transfers, extensions, defaults,      *)
(* rings, awards, decay, re-denomination, pruning, and sales.              *)
(*                                                                         *)
(* BookProofs has the steps of the ledger.  A sale is followed through     *)
(* what is reserved for claims that no row owns yet, and, for what it      *)
(* makes of the claims of others, through what the rows and the promises   *)
(* of the cascade come to together.                                        *)
(***************************************************************************)
EXTENDS Sale, BookProofs

-----------------------------------------------------------------------------
(* The sale *)

\* What a sale holds aside for its buyer until it is booked, by creditor and date.
Slot == [amount : Nat, held : HoldSet, accepted : Nat]

Slots == UNION {[K -> Slot] : K \in {K \in SUBSET (Nat \X Nat) : IsFiniteSet(K)}}

Parts(A, k) == [j \in DOMAIN A |-> At(A[j].held, k)]

\* What the slots S of A hold of a place.
Aside(A, S, k) == SumFunctionOnSet(Parts(A, k), S)

\* The reservations are what the rows hold and what is held aside.
FilledBut(b, A, S) ==
    \A k \in Places : Booked(b, k) = Total(b, k) + Aside(A, S, k) /\ Booked(b, k) <= Stock(b, k)

LEMMA SlotTypes ==
    ASSUME NEW A \in Slots
    PROVE  /\ A \in [DOMAIN A -> Slot] /\ IsFiniteSet(DOMAIN A) /\ DOMAIN A \in SUBSET (Nat \X Nat)
           /\ \A j \in DOMAIN A : A[j] \in Slot /\ A[j].held \in HoldSet /\ A[j].amount \in Nat /\ A[j].accepted \in Nat
           /\ \A j \in DOMAIN A : A[j].held \in HoldSet
<1>1. A \in [DOMAIN A -> Slot] /\ IsFiniteSet(DOMAIN A) /\ DOMAIN A \in SUBSET (Nat \X Nat)
  BY DEF Slots
<1>2. \A j \in DOMAIN A : A[j] \in Slot
  BY <1>1
<1>3. \A a \in Slot : a.held \in HoldSet /\ a.amount \in Nat /\ a.accepted \in Nat
  BY DEF Slot
<1> QED  BY <1>1, <1>2, <1>3

LEMMA AsideType ==
    ASSUME NEW A \in Slots, NEW S \in SUBSET DOMAIN A, NEW k \in Places
    PROVE  /\ IsFiniteSet(S) /\ \A j \in S : Parts(A, k)[j] \in Nat
           /\ Aside(A, S, k) \in Nat
<1>1. IsFiniteSet(S)
  BY SlotTypes, FS_Subset
<1>2. \A j \in S : Parts(A, k)[j] \in Nat
  BY SlotTypes, AtType DEF Parts
<1>3. Aside(A, S, k) \in Nat
  BY <1>1, <1>2, SumIsNatural DEF Aside
<1> QED  BY <1>1, <1>2, <1>3

LEMMA AsideLess ==
    ASSUME NEW A \in Slots, NEW S \in SUBSET DOMAIN A, NEW j \in S, NEW k \in Places
    PROVE  Aside(A, S, k) = At(A[j].held, k) + Aside(A, S \ {j}, k)
<1>1. IsFiniteSet(S) /\ \A i \in S : Parts(A, k)[i] \in Nat
  BY AsideType
<1>2. Parts(A, k)[j] = At(A[j].held, k)
  BY DEF Parts
<1> DEFINE f == Parts(A, k)
<1> HIDE DEF f
<1>3. SumFunctionOnSet(f, S) = f[j] + SumFunctionOnSet(f, S \ {j})
  BY <1>1, SumSplit DEF f
<1> QED  BY <1>2, <1>3 DEF Aside, f

HeldIn(A, j) == IF j \in DOMAIN A THEN A[j].held ELSE Nothing

\* A hold joins a slot, or opens one.
LEMMA AsideMore ==
    ASSUME NEW A \in Slots, NEW j \in Nat \X Nat, NEW a \in Slot, NEW h \in HoldSet,
           a.held = Plus(HeldIn(A, j), h)
    PROVE  /\ Added(A, j, a) \in Slots /\ DOMAIN Added(A, j, a) = DOMAIN A \cup {j}
           /\ \A i \in DOMAIN A \cup {j} : Added(A, j, a)[i] = IF i = j THEN a ELSE A[i]
           /\ \A k \in Places : Aside(Added(A, j, a), DOMAIN Added(A, j, a), k) = Aside(A, DOMAIN A, k) + At(h, k)
<1> DEFINE D == DOMAIN A
           E == D \cup {j}
           B == Added(A, j, a)
<1>1. A \in [D -> Slot] /\ IsFiniteSet(D) /\ D \in SUBSET (Nat \X Nat)
  BY SlotTypes
<1>2. IsFiniteSet(E) /\ E \in SUBSET (Nat \X Nat)
  <2> HIDE DEF D
  <2> QED  BY <1>1, FS_AddElement
<1>3. B = [i \in E |-> IF i = j THEN a ELSE A[i]]
  BY DEF Added
<1>4. DOMAIN B = E /\ \A i \in E : B[i] = IF i = j THEN a ELSE A[i]
  <2> HIDE DEF B, D
  <2> QED  BY <1>3
<1>5. B \in [E -> Slot]
  <2> HIDE DEF B, D
  <2> QED  BY <1>1, <1>3
<1>6. B \in Slots
  <2> HIDE DEF B, E
  <2> QED  BY <1>2, <1>5 DEF Slots
<1> HIDE DEF B
<1>7. ASSUME NEW k \in Places
      PROVE  Aside(B, E, k) = Aside(A, D, k) + At(h, k)
  <2>1. Aside(B, E, k) = At(B[j].held, k) + Aside(B, E \ {j}, k)
    <3>1. E \in SUBSET DOMAIN B /\ j \in E
      BY <1>4
    <3> HIDE DEF E
    <3> QED  BY <1>6, <3>1, AsideLess
  <2>2. Aside(B, E \ {j}, k) = Aside(A, D \ {j}, k)
    <3>1. E \ {j} = D \ {j}
      OBVIOUS
    <3> DEFINE S == D \ {j}
               f == Parts(B, k)
               g == Parts(A, k)
    <3>2. IsFiniteSet(S) /\ \A i \in S : g[i] \in Nat
      BY AsideType
    <3>3. \A i \in S : f[i] = g[i]
      BY <1>4 DEF Parts
    <3> HIDE DEF f, g, S
    <3>4. SumFunctionOnSet(f, S) = SumFunctionOnSet(g, S)
      BY <3>2, <3>3, SumCongruent
    <3> QED  BY <3>1, <3>4 DEF Aside, f, g, S
  <2>3. B[j].held = a.held
    BY <1>4
  <2>4. Aside(A, D, k) \in Nat /\ Aside(A, D \ {j}, k) \in Nat /\ At(h, k) \in Nat
    BY AsideType, AtType
  <2>5. CASE j \in D
    <3>1. At(a.held, k) = At(A[j].held, k) + At(h, k)
      BY <2>5, SlotTypes, PlusAt DEF HeldIn
    <3>2. Aside(A, D, k) = At(A[j].held, k) + Aside(A, D \ {j}, k)
      BY <2>5, AsideLess
    <3>3. At(A[j].held, k) \in Nat
      BY <2>5, SlotTypes, AtType
    <3> HIDE DEF D, E
    <3> QED  BY <2>1, <2>2, <2>3, <2>4, <3>1, <3>2, <3>3
  <2>6. CASE j \notin D
    <3>1. At(a.held, k) = At(Nothing, k) + At(h, k) /\ At(Nothing, k) = 0
      BY <2>6, NothingType, NothingAt, PlusAt DEF HeldIn
    <3>2. D \ {j} = D
      BY <2>6
    <3> DEFINE mine == At(a.held, k)
               more == At(h, k)
               was == Aside(A, D, k)
    <3>3. Aside(A, D \ {j}, k) = was
      BY <3>2
    <3>4. Aside(B, E, k) = mine + was
      BY <2>1, <2>2, <2>3, <3>3
    <3>5. mine = more /\ more \in Nat /\ was \in Nat
      BY <2>4, <3>1
    <3> HIDE DEF mine, more, was
    <3>6. mine + was = was + more
      BY <3>5
    <3> QED  BY <3>4, <3>6 DEF more, was
  <2> QED  BY <2>5, <2>6
<1> QED  BY <1>4, <1>6, <1>7 DEF B

\* One original of a drain: the row without what it held, owing what is left.
Closed(c, rest) ==
    [c EXCEPT !.held = Nothing, !.outstanding = rest,
              !.status = IF rest = 0 THEN "Transferred" ELSE c.status]

Closing(b, id, rest) ==
    LET c == b.rows[id]
    IN [Release(b, c.held) EXCEPT !.rows[id].held = Nothing, !.rows[id].outstanding = rest,
                                  !.rows[id].status = IF rest = 0 THEN "Transferred" ELSE @,
                                  !.debt[c.debtor] = Minus(@, c.outstanding - rest)]

LEMMA ClosedType ==
    ASSUME NEW c \in RowSet, NEW rest \in Nat
    PROVE  /\ Closed(c, rest) \in RowSet /\ Closed(c, rest).held = Nothing
           /\ Closed(c, rest).outstanding = rest /\ Closed(c, rest).original = c.original
           /\ Closed(c, rest).status = (IF rest = 0 THEN "Transferred" ELSE c.status)
           /\ Closed(c, rest).debtor = c.debtor /\ Closed(c, rest).creditor = c.creditor
           /\ Closed(c, rest).insured = c.insured /\ Closed(c, rest).arb = c.arb
           /\ Closed(c, rest).maturity = c.maturity
BY NothingType DEF Closed, RowSet, Statuses

\* The cache of a debtor relieved of k.
Eased(f, m, k) == [f EXCEPT ![m] = Minus(@, k)]

LEMMA ClosedKeeps ==
    ASSUME NEW b \in Books, Ready, Balanced(b), NEW id \in DOMAIN b.rows, b.rows[id].status = "Active",
           NEW rest \in Nat, rest <= b.rows[id].outstanding, NEW e
    PROVE  LET c == b.rows[id]
               y == Closing(b, id, rest)
           IN /\ y \in BookSet /\ Onward(b, y, e) /\ Balanced(y)
              /\ y.rows = [b.rows EXCEPT ![id] = Closed(c, rest)] /\ y.edges = b.edges
              /\ y.debt = Eased(b.debt, c.debtor, c.outstanding - rest)
              /\ \A k \in Places : /\ Booked(y, k) = Minus(Booked(b, k), At(c.held, k))
                                   /\ Stock(y, k) = Stock(b, k)
                                   /\ Total(y, k) + At(c.held, k) = Total(b, k)
<1> DEFINE c == b.rows[id]
           z == Release(b, c.held)
           r == Closed(c, rest)
           rows == [b.rows EXCEPT ![id] = r]
           gone == c.outstanding - rest
           debt == [z.debt EXCEPT ![c.debtor] = Minus(@, gone)]
           y == [z EXCEPT !.debt = debt, !.rows = rows]
           m == Closing(b, id, rest)
<1>1. b \in BookSet /\ b.rows \in RowFiles /\ c \in RowSet /\ c.outstanding <= c.original
  BY FileTypes DEF Books, BookSet
<1>2. c.held \in HoldSet /\ c.outstanding \in Nat /\ c.debtor \in Members /\ c.original \in Nat /\ gone \in Nat
  BY <1>1 DEF RowSet
<1>3. /\ z \in BookSet /\ z.rows = b.rows /\ z.next = b.next
      /\ z.agreed = b.agreed /\ z.charged = b.charged
      /\ z.debt = b.debt /\ z.default = b.default /\ z.edges = b.edges
      /\ \A k \in Places : Booked(z, k) = Minus(Booked(b, k), At(c.held, k))
  BY <1>1, <1>2, ReleaseLater
<1>4. /\ r \in RowSet /\ r.held = Nothing /\ r.outstanding = rest /\ r.original = c.original
      /\ r.status = (IF rest = 0 THEN "Transferred" ELSE c.status)
      /\ r.debtor = c.debtor /\ r.arb = c.arb /\ r.maturity = c.maturity
  <2> HIDE DEF c
  <2> QED  BY <1>1, ClosedType
<1>5. m = y
  <2>1. m = [z EXCEPT !.rows[id].held = Nothing, !.rows[id].outstanding = rest,
                      !.rows[id].status = IF rest = 0 THEN "Transferred" ELSE @,
                      !.debt[c.debtor] = Minus(@, gone)]
    BY DEF Closing
  <2> DEFINE three == [z.rows EXCEPT ![id].held = Nothing, ![id].outstanding = rest,
                                     ![id].status = IF rest = 0 THEN "Transferred" ELSE @]
  <2>2. m = [z EXCEPT !.debt = debt, !.rows = three]
    <3> HIDE DEF z, c, m, gone
    <3> QED  BY <1>3, <2>1 DEF BookSet
  <2>3. three = rows
    <3> HIDE DEF z
    <3> QED  BY <1>1, <1>3 DEF Closed
  <2> HIDE DEF three, z, rows, m, debt
  <2> QED  BY <2>2, <2>3
<1>6. rows \in RowFiles /\ debt \in Purses
  <2>1. rows \in RowFiles
    <3> HIDE DEF r
    <3> QED  BY <1>1, <1>4, RowChanged
  <2>2. debt \in Purses
    <3> HIDE DEF z, c, gone
    <3> QED  BY <1>2, <1>3, MinusIsNatural DEF BookSet, Purses
  <2> QED  BY <2>1, <2>2
<1> HIDE DEF z, debt, rows, m, r
<1>7. /\ m \in BookSet /\ m.rows = rows /\ m.next = b.next
      /\ m.agreed = b.agreed /\ m.charged = b.charged
      /\ m.debt = debt /\ m.default = b.default /\ m.edges = b.edges
      /\ m.reserved = z.reserved /\ m.committed = z.committed
  BY <1>3, <1>5, <1>6 DEF BookSet
<1>8. ASSUME NEW T \in Kinds, NEW p \in Members
      PROVE  Cached(m, T)[p] = Tally(m, p, T)
  <2>1. Tally(m, p, T) + Weight(c, p, T) = Tally(b, p, T) + Weight(r, p, T)
    BY <1>1, <1>4, <1>7, TallyChanged DEF rows
  <2> DEFINE owed == c.outstanding
             was == Cached(b, T)[p]
  <2>2. /\ Weight(r, p, T) = IF p = c.debtor /\ T = "debt" THEN rest ELSE 0
        /\ Weight(c, p, T) = IF p = c.debtor /\ T = "debt" THEN owed ELSE 0
    <3>1. c.status = "Active"
      OBVIOUS
    <3> HIDE DEF c
    <3> QED  BY <1>4, <3>1 DEF Weight, Kinds, Counting
  <2>3. /\ was = Tally(b, p, T) /\ was \in Nat /\ Tally(m, p, T) \in Nat /\ owed \in Nat
        /\ Weight(c, p, T) <= Tally(b, p, T)
    <3>1. was = Tally(b, p, T) /\ was \in Nat
      BY <1>1, CachedType DEF Balanced
    <3>2. Tally(m, p, T) \in Nat /\ owed \in Nat /\ Weight(c, p, T) <= Tally(b, p, T)
      BY <1>1, <1>2, <1>7, TallyType
    <3> HIDE DEF was, c
    <3> QED  BY <3>1, <3>2
  <2>4. Cached(m, T)[p] = IF p = c.debtor /\ T = "debt" THEN Minus(was, gone) ELSE was
    <3>1. \A q \in Members : debt[q] = IF q = c.debtor THEN Minus(b.debt[q], gone) ELSE b.debt[q]
      <4>1. debt = [b.debt EXCEPT ![c.debtor] = Minus(b.debt[c.debtor], gone)]
        BY <1>3 DEF debt
      <4>2. b.debt \in [Members -> Nat]
        BY <1>1 DEF BookSet, Purses
      <4> HIDE DEF gone
      <4> QED  BY <4>1, <4>2
    <3> HIDE DEF owed, c, gone
    <3> QED  BY <1>7, <3>1 DEF Cached, was
  <2>5. gone \in Nat /\ gone + rest = owed
    BY <1>2
  <2> HIDE DEF owed, was, c, gone
  <2> QED  BY <2>1, <2>2, <2>3, <2>4, <2>5 DEF Minus
<1>9. Onward(b, m, e)
  <2>1. r.outstanding <= r.original /\ (Due(r, e) => Due(c, e))
    <3> DEFINE owed == c.outstanding
    <3>1. rest <= owed /\ owed <= c.original /\ owed \in Nat /\ c.original \in Nat
      BY <1>1, <1>2
    <3>2. rest > DustMinor => owed > DustMinor
      <4>1. DustMinor \in Nat
        BY DEF Ready
      <4> HIDE DEF owed
      <4> QED  BY <3>1, <4>1
    <3>3. r.status = "Active" => c.status = "Active"
      OBVIOUS
    <3> HIDE DEF c
    <3> QED  BY <1>4, <3>1, <3>2, <3>3 DEF Due, owed
  <2> QED  BY <1>1, <1>4, <1>7, <2>1, OneRowLater DEF rows
<1>10. ASSUME NEW k \in Places
       PROVE  /\ Booked(m, k) = Minus(Booked(b, k), At(c.held, k))
              /\ Stock(m, k) = Stock(b, k)
              /\ Total(m, k) + At(c.held, k) = Total(b, k)
  <2>1. Booked(m, k) = Booked(z, k) /\ Stock(m, k) = Stock(b, k)
    BY <1>7 DEF Booked, Stock
  <2>2. Total(m, k) + Weight(c, k, "held") = Total(b, k) + Weight(r, k, "held")
    BY <1>1, <1>4, <1>7, TallyChanged DEF Total, rows
  <2>3. Weight(c, k, "held") = At(c.held, k) /\ Weight(r, k, "held") = 0
    BY <1>4, NothingAt DEF Weight
  <2>4. Total(b, k) \in Nat
    BY <1>1, TallyType DEF Total
  <2> QED  BY <1>3, <2>1, <2>2, <2>3, <2>4
<1>11. m.rows = [b.rows EXCEPT ![id] = Closed(c, rest)]
  BY <1>7 DEF rows, r
<1>12. Balanced(m)
  BY <1>8 DEF Balanced
<1>13. m.debt = Eased(b.debt, c.debtor, c.outstanding - rest)
  BY <1>3, <1>7 DEF debt, Eased
<1> QED  BY <1>7, <1>9, <1>10, <1>11, <1>12, <1>13 DEF m

\* What a sale leaves of the terms of a row; it may lose its insurance, not gain one.
Remains(c, r) ==
    /\ r.debtor = c.debtor /\ r.creditor = c.creditor /\ r.maturity = c.maturity
    /\ r.insured => c.insured

\* What is left of an original is put on a reservation of its own, or on none.
LEMMA RemadeKeeps ==
    ASSUME NEW b \in Books, Ready, Balanced(b), Within(b), NEW id \in DOMAIN b.rows,
           b.rows[id].held = Nothing, b.rows[id].debtor # b.rows[id].creditor,
           IF Live(b.rows[id]) THEN b.rows[id].outstanding > DustMinor ELSE b.rows[id].outstanding = 0,
           NEW e, NEW x \in Remade(b, id)
    PROVE  /\ x \in BookSet /\ Onward(b, x, e) /\ Balanced(x) /\ Within(x)
           /\ x.debt = b.debt /\ x.edges = b.edges
           /\ \E r \in RowSet :
                 /\ x.rows = [b.rows EXCEPT ![id] = r] /\ RowSound(r)
                 /\ r.status = b.rows[id].status /\ Remains(b.rows[id], r)
                 /\ r.outstanding = b.rows[id].outstanding
                 /\ \A k \in Places : /\ Booked(x, k) = Booked(b, k) + At(r.held, k)
                                      /\ Total(x, k) = Total(b, k) + At(r.held, k)
<1> DEFINE c == b.rows[id]
           owed == c.outstanding
           d == c.debtor
           kept == ~c.insured \/ ~Live(c) \/ owed <= DustMinor
<1>1. b \in BookSet /\ b.rows \in RowFiles /\ c \in RowSet /\ c.outstanding <= c.original
  BY FileTypes DEF Books, BookSet
<1>2. owed \in Nat /\ d \in Members /\ c.original \in Nat /\ DustMinor \in Nat
  BY <1>1 DEF RowSet, Ready
<1>3. CASE kept
  <2>1. x = b
    BY <1>3 DEF Remade
  <2>2. RowSound(c)
    <3>1. Live(c) => owed > DustMinor
      OBVIOUS
    <3>2. ~(Live(c) /\ c.insured)
      <4> HIDE DEF c, owed
      <4> QED  BY <1>2, <1>3, <3>1
    <3>3. c.held = Nothing /\ c.debtor # c.creditor /\ (~Live(c) => c.outstanding = 0)
      OBVIOUS
    <3> HIDE DEF c
    <3> QED  BY <1>2, <3>2, <3>3, NothingHeld DEF RowSound, d
  <2>3. b.rows = [b.rows EXCEPT ![id] = c]
    BY <1>1, FileTypes
  <2>4. \A k \in Places : /\ Booked(b, k) = Booked(b, k) + At(c.held, k)
                          /\ Total(b, k) = Total(b, k) + At(c.held, k)
    BY <1>1, NothingAt, PlaceTypes DEF Ready
  <2>5. Remains(c, c)
    BY DEF Remains
  <2> HIDE DEF c
  <2> QED  BY <1>1, <2>1, <2>2, <2>3, <2>4, <2>5, OnwardSelf DEF c
<1>4. CASE ~kept
  <2>1. PICK t \in Taken(b, d, owed) :
           x = [Reserve(b, t.held) EXCEPT !.rows[id].held = t.held, !.rows[id].insured = t.insured]
    BY <1>4 DEF Remade
  <2>2. /\ t \in Holdings /\ t.held.supply[d] = 0
        /\ HeldAmount(t.held) = IF t.insured THEN owed ELSE 0
        /\ HeldAmount(t.held) = 0 => t.held = Nothing
        /\ \A k \in Places : Booked(b, k) + At(t.held, k) <= Stock(b, k)
    <3> HIDE DEF d, owed
    <3> QED  BY <1>2, <2>1, TakenFits
  <2> DEFINE h == t.held
             z == Reserve(b, h)
             r == [c EXCEPT !.held = h, !.insured = t.insured]
             rows == [b.rows EXCEPT ![id] = r]
  <2>3. h \in HoldSet /\ t.insured \in BOOLEAN
    BY <2>2 DEF Holdings
  <2>4. /\ z \in BookSet /\ z.rows = b.rows /\ z.next = b.next
        /\ z.agreed = b.agreed /\ z.charged = b.charged
        /\ z.debt = b.debt /\ z.default = b.default /\ z.edges = b.edges
        /\ \A k \in Places : Booked(z, k) = Booked(b, k) + At(h, k)
    <3> HIDE DEF h
    <3> QED  BY <2>3, ReserveLater
  <2>5. /\ r \in RowSet /\ r.held = h /\ r.insured = t.insured
        /\ r.outstanding = owed /\ r.original = c.original /\ r.status = c.status
        /\ r.debtor = d /\ r.creditor = c.creditor /\ r.arb = c.arb /\ r.maturity = c.maturity
    <3> HIDE DEF h, c
    <3> QED  BY <1>1, <2>3 DEF RowSet, d, owed
  <2>6. x = [z EXCEPT !.rows = rows]
    <3> DEFINE two == [z.rows EXCEPT ![id].held = h, ![id].insured = t.insured]
    <3>1. x = [z EXCEPT !.rows = two]
      <4>1. x = [z EXCEPT !.rows[id].held = h, !.rows[id].insured = t.insured]
        BY <2>1
      <4> HIDE DEF z
      <4> QED  BY <2>4, <4>1 DEF BookSet
    <3>2. two = rows
      <4> HIDE DEF z, h
      <4> QED  BY <1>1, <2>4
    <3> HIDE DEF two, rows, z
    <3> QED  BY <3>1, <3>2
  <2> HIDE DEF r, h, z
  <2>7. rows \in RowFiles
    BY <1>1, <2>5, RowChanged
  <2> HIDE DEF rows
  <2>8. /\ x \in BookSet /\ x.rows = rows /\ x.next = b.next
        /\ x.agreed = b.agreed /\ x.charged = b.charged
        /\ x.debt = b.debt /\ x.default = b.default /\ x.edges = b.edges
        /\ x.reserved = z.reserved /\ x.committed = z.committed
    BY <2>4, <2>6, <2>7 DEF BookSet
  <2>9. Onward(b, x, e)
    <3>1. r.outstanding <= r.original /\ (Due(r, e) => Due(c, e))
      <4> HIDE DEF c
      <4> QED  BY <1>1, <2>5 DEF Due, owed
    <3> QED  BY <1>1, <2>5, <2>8, <3>1, OneRowLater DEF rows
  <2>10. Balanced(x)
    <3>1. Together(b, x)
      BY <1>1, <2>5, <2>8, RowTogether DEF rows
    <3> SUFFICES ASSUME NEW T \in Kinds, NEW m \in Members
                 PROVE  Cached(x, T)[m] = Tally(x, m, T)
      BY DEF Balanced
    <3>2. Cached(b, T)[m] + Tally(x, m, T) = Cached(x, T)[m] + Tally(b, m, T) /\ Cached(b, T)[m] = Tally(b, m, T)
      BY <3>1 DEF Together, Balanced
    <3>3. Cached(x, T)[m] \in Nat /\ Tally(b, m, T) \in Nat /\ Tally(x, m, T) \in Nat
      BY <1>1, <2>8, CachedType, TallyType
    <3> QED  BY <3>2, <3>3
  <2>11. ASSUME NEW k \in Places
         PROVE  /\ Booked(x, k) = Booked(b, k) + At(h, k) /\ Total(x, k) = Total(b, k) + At(h, k)
                /\ Booked(x, k) <= Stock(x, k)
    <3>1. Booked(x, k) = Booked(z, k) /\ Stock(x, k) = Stock(b, k)
      BY <2>8 DEF Booked, Stock
    <3>2. Total(x, k) + Weight(c, k, "held") = Total(b, k) + Weight(r, k, "held")
      BY <1>1, <2>5, <2>8, TallyChanged DEF Total, rows
    <3>3. Weight(r, k, "held") = At(h, k) /\ Weight(c, k, "held") = 0
      BY <2>5, NothingAt DEF Weight
    <3>4. Total(x, k) \in Nat /\ Total(b, k) \in Nat /\ At(h, k) \in Nat
      BY <1>1, <2>3, <2>8, PlaceTypes, AtType DEF Ready
    <3>5. Booked(b, k) + At(h, k) <= Stock(b, k)
      BY <2>2 DEF h
    <3> QED  BY <2>4, <3>1, <3>2, <3>3, <3>4, <3>5
  <2>12. RowSound(r)
    <3>1. Live(c) /\ c.debtor # c.creditor
      BY <1>4
    <3>2. Live(r)
      <4> HIDE DEF c
      <4> QED  BY <2>5, <3>1 DEF Live
    <3>3. r.debtor # r.creditor /\ r.held.supply[r.debtor] = 0
      BY <2>2, <2>5, <3>1 DEF h
    <3>4. HeldAmount(r.held) = (IF r.insured THEN r.outstanding ELSE 0) /\ (HeldAmount(r.held) = 0 => r.held = Nothing)
      <4> HIDE DEF owed
      <4> QED  BY <2>2, <2>5 DEF h
    <3> QED  BY <3>2, <3>3, <3>4 DEF RowSound
  <2>13. x.rows = [b.rows EXCEPT ![id] = r] /\ Within(x)
    BY <2>8, <2>11 DEF rows, Within
  <2>14. \A k \in Places : /\ Booked(x, k) = Booked(b, k) + At(r.held, k)
                           /\ Total(x, k) = Total(b, k) + At(r.held, k)
    BY <2>5, <2>11
  <2>15. r.status = b.rows[id].status /\ r.outstanding = b.rows[id].outstanding /\ Remains(b.rows[id], r)
    BY <1>4, <2>5 DEF Remains
  <2> HIDE DEF kept, owed, d, c
  <2> QED  BY <2>5, <2>8, <2>9, <2>10, <2>12, <2>13, <2>14, <2>15
<1> QED  BY <1>3, <1>4

LEMMA PlusAmount ==
    ASSUME NEW x \in HoldSet, NEW y \in HoldSet
    PROVE  HeldAmount(Plus(x, y)) = HeldAmount(x) + HeldAmount(y)
<1> DEFINE f == x.supply
           g == y.supply
           h == Plus(x, y).supply
<1>1. f \in [Members -> Nat] /\ g \in [Members -> Nat] /\ h = [u \in Members |-> f[u] + g[u]]
  BY DEF HoldSet, Plus
<1>2. HeldAmount(x) = Sum(f) /\ HeldAmount(y) = Sum(g) /\ HeldAmount(Plus(x, y)) = Sum(h)
  BY DEF HeldAmount
<1> HIDE DEF f, g, h
<1>3. DOMAIN f = Members /\ DOMAIN g = Members /\ DOMAIN h = Members
  BY <1>1
<1>4. \A u \in Members : f[u] \in Nat /\ g[u] \in Nat /\ h[u] = f[u] + g[u]
  BY <1>1
<1>5. SumFunctionOnSet(h, Members) = SumFunctionOnSet(f, Members) + SumFunctionOnSet(g, Members)
  <2>1. IsFiniteSet(Members)
    BY MembersAssumption
  <2> QED  BY <1>4, <2>1, SumPlus
<1> QED  BY <1>2, <1>3, <1>5, SumIs

\* What a row owes; an empty one counts for the dust its closing may have forgiven.
Padded(r) == IF r.outstanding = 0 THEN DustMinor ELSE r.outstanding

\* What the rows R of a file owe, without the dust and with it.
Size(f, R) == SumFunctionOnSet([i \in R |-> f[i].outstanding], R)
Full(f, R) == SumFunctionOnSet([i \in R |-> Padded(f[i])], R)

LEMMA SizeType ==
    ASSUME DustMinor \in Nat, NEW f \in RowFiles, NEW R \in SUBSET DOMAIN f
    PROVE  /\ IsFiniteSet(R) /\ \A i \in R : f[i].outstanding \in Nat /\ Padded(f[i]) \in Nat
           /\ Size(f, R) \in Nat /\ Full(f, R) \in Nat
           /\ Size(f, R) <= Full(f, R) /\ Full(f, R) <= Size(f, R) + DustMinor * Cardinality(R)
<1> DEFINE g == [i \in R |-> f[i].outstanding]
           h == [i \in R |-> Padded(f[i])]
           one == [i \in R |-> 1]
           dust == [i \in R |-> DustMinor]
           both == [i \in R |-> f[i].outstanding + DustMinor]
<1>1. IsFiniteSet(R)
  BY FileTypes, FS_Subset
<1>2. \A i \in R : f[i].outstanding \in Nat /\ Padded(f[i]) \in Nat
  BY FileTypes DEF RowSet, Padded
<1>3. \A i \in R : /\ g[i] \in Nat /\ h[i] \in Nat /\ one[i] \in Nat /\ dust[i] \in Nat /\ both[i] \in Nat
                   /\ g[i] <= h[i] /\ h[i] <= both[i] /\ both[i] = g[i] + dust[i]
                   /\ one[i] = 1 /\ dust[i] = one[i] * DustMinor
  BY <1>2 DEF Padded
<1>4. Size(f, R) = SumFunctionOnSet(g, R) /\ Full(f, R) = SumFunctionOnSet(h, R)
  BY DEF Size, Full
<1> HIDE DEF g, h, one, dust, both
<1>5. SumFunctionOnSet(g, R) \in Nat /\ SumFunctionOnSet(h, R) \in Nat
  BY <1>1, <1>3, SumIsNatural
<1>6. SumFunctionOnSet(g, R) <= SumFunctionOnSet(h, R)
  BY <1>1, <1>3, SumMonotone
<1>7. SumFunctionOnSet(h, R) <= SumFunctionOnSet(both, R)
  BY <1>1, <1>3, SumMonotone
<1>8. SumFunctionOnSet(both, R) = SumFunctionOnSet(g, R) + SumFunctionOnSet(dust, R)
  BY <1>1, <1>3, SumPlus
<1>9. SumFunctionOnSet(dust, R) = SumFunctionOnSet(one, R) * DustMinor
  BY <1>1, <1>3, SumTimes
<1>10. SumFunctionOnSet(one, R) = Cardinality(R)
  BY <1>1, <1>3, SumOfOnes
<1>11. Cardinality(R) * DustMinor = DustMinor * Cardinality(R)
  <2>1. Cardinality(R) \in Nat
    BY <1>1, FS_CardinalityType
  <2> QED  BY <2>1
<1>12. SumFunctionOnSet(h, R) <= SumFunctionOnSet(g, R) + DustMinor * Cardinality(R)
  <2> HIDE DEF Size, Full
  <2> QED  BY <1>7, <1>8, <1>9, <1>10, <1>11
<1> QED  BY <1>1, <1>2, <1>4, <1>5, <1>6, <1>12

\* One row of a file changes.
LEMMA FullMoves ==
    ASSUME DustMinor \in Nat, NEW f \in RowFiles, NEW g \in RowFiles, NEW id \in DOMAIN f, DOMAIN g = DOMAIN f,
           \A i \in DOMAIN f : i # id => g[i] = f[i], NEW R \in SUBSET DOMAIN f
    PROVE  IF id \in R THEN Full(f, R) + Padded(g[id]) = Full(g, R) + Padded(f[id])
                       ELSE Full(f, R) = Full(g, R)
<1> DEFINE u == [i \in R |-> Padded(f[i])]
           v == [i \in R |-> Padded(g[i])]
<1>1. IsFiniteSet(R) /\ \A i \in R : u[i] \in Nat /\ v[i] \in Nat
  BY SizeType
<1>2. \A i \in R : i # id => u[i] = v[i]
  OBVIOUS
<1>3. Full(f, R) = SumFunctionOnSet(u, R) /\ Full(g, R) = SumFunctionOnSet(v, R)
  BY DEF Full
<1>4. id \in R => u[id] = Padded(f[id]) /\ v[id] = Padded(g[id])
  OBVIOUS
<1> HIDE DEF u, v
<1>5. CASE id \in R
  <2>1. SumFunctionOnSet(v, R) + u[id] = SumFunctionOnSet(u, R) + v[id]
    BY <1>1, <1>2, <1>5, SumUpdate DEF Weighs, AgreeOff
  <2> QED  BY <1>3, <1>4, <1>5, <2>1
<1>6. CASE id \notin R
  <2>1. \A i \in R : u[i] \in Nat /\ u[i] = v[i]
    BY <1>1, <1>2, <1>6
  <2> QED  BY <1>1, <1>3, <1>6, <2>1, SumCongruent
<1> QED  BY <1>5, <1>6

\* Rows left alone owe what they did.
LEMMA FullAlike ==
    ASSUME DustMinor \in Nat, NEW f \in RowFiles, NEW g \in RowFiles, NEW R \in SUBSET DOMAIN f, R \in SUBSET DOMAIN g,
           \A i \in R : g[i] = f[i]
    PROVE  Full(f, R) = Full(g, R)
<1> DEFINE u == [i \in R |-> Padded(f[i])]
           v == [i \in R |-> Padded(g[i])]
<1>1. IsFiniteSet(R) /\ \A i \in R : u[i] \in Nat /\ u[i] = v[i]
  BY SizeType
<1> HIDE DEF u, v
<1>2. SumFunctionOnSet(u, R) = SumFunctionOnSet(v, R)
  BY <1>1, SumCongruent
<1> QED  BY <1>2 DEF Full, u, v

\* What is promised to the creditors whose claims were routed, by creditor and date.
AmountIn(A, k) == IF k \in DOMAIN A THEN A[k].amount ELSE 0

Amounts(A) == [k \in DOMAIN A |-> A[k].amount]
Promised(A, T) == SumFunctionOnSet(Amounts(A), DOMAIN A \cap T)
Pairs == Nat \X Nat

LEMMA PromisedType ==
    ASSUME NEW A \in Slots, NEW T
    PROVE  /\ IsFiniteSet(DOMAIN A \cap T) /\ \A k \in DOMAIN A \cap T : Amounts(A)[k] \in Nat
           /\ Promised(A, T) \in Nat
<1>1. IsFiniteSet(DOMAIN A \cap T)
  BY SlotTypes, FS_Subset
<1>2. \A k \in DOMAIN A \cap T : Amounts(A)[k] \in Nat
  BY SlotTypes DEF Amounts
<1> QED  BY <1>1, <1>2, SumIsNatural DEF Promised

LEMMA PromisedMore ==
    ASSUME NEW A \in Slots, NEW j \in Pairs, NEW a \in Slot, NEW take \in Nat, a.amount = AmountIn(A, j) + take,
           NEW T, Added(A, j, a) \in Slots
    PROVE  Promised(Added(A, j, a), T) = Promised(A, T) + IF j \in T THEN take ELSE 0
<1> DEFINE B == Added(A, j, a)
           K == DOMAIN B \cap T
           u == [k \in K |-> AmountIn(A, k)]
           v == Amounts(B)
<1>1. /\ DOMAIN B = DOMAIN A \cup {j}
      /\ \A k \in DOMAIN B : B[k] = IF k = j THEN a ELSE A[k]
  BY DEF Added
<1>2. B \in Slots /\ a.amount \in Nat /\ \A k \in DOMAIN A : A[k].amount \in Nat
  BY SlotTypes DEF Slot
<1> HIDE DEF B
<1>3. IsFiniteSet(K) /\ \A k \in K : v[k] \in Nat
  BY <1>2, PromisedType
<1>4. \A k \in K : u[k] \in Nat
  BY <1>2 DEF AmountIn
<1>5. \A k \in K : k # j => u[k] = v[k]
  BY <1>1 DEF AmountIn, Amounts
<1>6. Promised(A, T) = SumFunctionOnSet(u, K)
  <2>1. DOMAIN A \cap T \in SUBSET K
    BY <1>1
  <2>2. \A k \in K \ (DOMAIN A \cap T) : u[k] = 0
    BY DEF AmountIn
  <2>3. \A k \in DOMAIN A \cap T : Amounts(A)[k] \in Nat /\ Amounts(A)[k] = u[k]
    BY <1>2, <2>1 DEF AmountIn, Amounts
  <2> HIDE DEF u, K
  <2>4. SumFunctionOnSet(u, K) = SumFunctionOnSet(u, DOMAIN A \cap T)
    BY <1>3, <1>4, <2>1, <2>2, SumOnSupport
  <2>5. SumFunctionOnSet(Amounts(A), DOMAIN A \cap T) = SumFunctionOnSet(u, DOMAIN A \cap T)
    BY <2>3, PromisedType, SumCongruent
  <2> QED  BY <2>4, <2>5 DEF Promised
<1>7. Promised(B, T) = SumFunctionOnSet(v, K)
  BY DEF Promised
<1>8. SumFunctionOnSet(u, K) \in Nat
  <2> HIDE DEF u, K
  <2> QED  BY <1>3, <1>4, SumIsNatural
<1>9. CASE j \in T
  <2>1. j \in K /\ u[j] = AmountIn(A, j) /\ v[j] = a.amount
    BY <1>1, <1>9 DEF Amounts
  <2> HIDE DEF u, v, K
  <2>2. SumFunctionOnSet(v, K) + u[j] = SumFunctionOnSet(u, K) + v[j]
    BY <1>3, <1>4, <1>5, <2>1, SumUpdate DEF Weighs, AgreeOff
  <2>3. SumFunctionOnSet(v, K) \in Nat /\ AmountIn(A, j) \in Nat
    BY <1>3, <1>4, <2>1, SumIsNatural
  <2>4. SumFunctionOnSet(v, K) = SumFunctionOnSet(u, K) + take
    <3> DEFINE more == SumFunctionOnSet(v, K)
               was == SumFunctionOnSet(u, K)
               here == AmountIn(A, j)
    <3>1. more + here = was + (here + take) /\ more \in Nat /\ was \in Nat /\ here \in Nat
      BY <1>8, <2>1, <2>2, <2>3
    <3> HIDE DEF more, was, here
    <3>2. more = was + take
      BY <3>1
    <3> QED  BY <3>2 DEF more, was
  <2> QED  BY <1>6, <1>7, <1>9, <2>4 DEF B
<1>10. CASE j \notin T
  <2>1. \A k \in K : u[k] \in Nat /\ u[k] = v[k]
    BY <1>4, <1>5, <1>10
  <2> HIDE DEF u, v, K
  <2>2. SumFunctionOnSet(u, K) = SumFunctionOnSet(v, K)
    BY <1>3, <2>1, SumCongruent
  <2> QED  BY <1>6, <1>7, <1>8, <1>10, <2>2 DEF B
<1> QED  BY <1>9, <1>10

\* A sale under way: its book is after b's and sound but for what is held aside,
\* each slot a reservation for the buyer of exactly what it is to owe.
Turn == [member : Members, lister : Members, amount : Nat, depth : Nat]

Cascades == [book : Books, assumed : Slots, spent : Nat, cleared : Nat,
             visited : SUBSET Members, todo : Seq(Turn)]

SlotSound(j, a, buyer) ==
    /\ j[1] \in Members /\ j[1] # buyer /\ epoch <= j[2]
    /\ HeldAmount(a.held) = a.amount /\ a.held.supply[buyer] = 0

Between(b, y, A, S, buyer) ==
    /\ Onward(b, y, epoch) /\ \A i \in DOMAIN y.rows : ~Due(y.rows[i], epoch)
    /\ Balanced(y) /\ RowsSound(y)
    /\ \A j \in S : SlotSound(j, A[j], buyer)
    /\ FilledBut(y, A, S)

Midway(s, b, buyer) == s \in Cascades /\ Between(b, s.book, s.assumed, DOMAIN s.assumed, buyer)

LEMMA CarriedType ==
    ASSUME NEW s, s.book \in Books, Ready, NEW buyer \in Members, NEW c \in RowSet, NEW take \in Nat
    PROVE  Carried(s, buyer, c, take) \in Nat /\ Carried(s, buyer, c, take) <= take
<1> DEFINE z == Release(s.book, c.held)
<1>1. c.held \in HoldSet /\ s.book \in BookSet
  BY DEF RowSet, Books
<1>2. z \in BookSet /\ z.rows = s.book.rows /\ z.next = s.book.next
  BY <1>1, ReleaseLater
<1> HIDE DEF z
<1>3. z \in Books
  BY <1>2 DEF Books
<1>4. Capacity(z, {buyer}) \in Nat
  BY <1>3, FreeTypes, CutIsNatural DEF Capacity, Purses
<1> QED  BY <1>4, LessType DEF Carried, z

\* A slot that takes one more reservation.
LEMMA JoinedSound ==
    ASSUME NEW A \in Slots, NEW j \in Nat \X Nat, NEW buyer \in Members, NEW h \in HoldSet, NEW since \in Nat,
           j[1] \in Members, j[1] # buyer, epoch <= j[2], h.supply[buyer] = 0,
           \A i \in DOMAIN A : SlotSound(i, A[i], buyer),
           NEW slot, slot = (IF j \in DOMAIN A THEN A[j] ELSE [amount |-> 0, held |-> Nothing, accepted |-> since]),
           NEW take \in Nat, HeldAmount(h) = take,
           NEW a, a = [amount |-> slot.amount + take, held |-> Plus(slot.held, h),
                       accepted |-> Less(slot.accepted, since)]
    PROVE  a \in Slot /\ SlotSound(j, a, buyer) /\ a.held = Plus(HeldIn(A, j), h)
<1>1. /\ slot.amount \in Nat /\ slot.held \in HoldSet /\ slot.accepted \in Nat
      /\ slot.held = (IF j \in DOMAIN A THEN A[j].held ELSE Nothing)
      /\ HeldAmount(slot.held) = slot.amount /\ slot.held.supply[buyer] = 0
  <2>1. CASE j \in DOMAIN A
    BY <2>1, SlotTypes DEF SlotSound
  <2>2. CASE j \notin DOMAIN A
    BY <2>2, NothingHeld, NothingType
  <2> QED  BY <2>1, <2>2
<1> DEFINE g == slot.held
           p == Plus(g, h)
<1>2. p \in HoldSet /\ HeldAmount(p) = HeldAmount(g) + HeldAmount(h)
  BY <1>1, PlusAt, PlusAmount
<1>3. p.supply[buyer] = 0
  BY <1>1 DEF Plus
<1>4. slot.amount + take \in Nat /\ Less(slot.accepted, since) \in Nat
  BY <1>1, LessType
<1>5. a.amount = slot.amount + take /\ a.held = p
  OBVIOUS
<1>6. a \in Slot
  <2> HIDE DEF p
  <2> QED  BY <1>2, <1>4 DEF Slot, p
<1> HIDE DEF p
<1>7. SlotSound(j, a, buyer)
  BY <1>1, <1>2, <1>3, <1>5 DEF SlotSound
<1> QED  BY <1>1, <1>5, <1>6, <1>7 DEF p, HeldIn

\* What a step leaves of a row: its creditor, and no end but that of a drain.
Moving == {"Active", "Transferred"}

Kin(b, y) ==
    \A i \in DOMAIN b.rows :
        /\ i \in DOMAIN y.rows /\ y.rows[i].creditor = b.rows[i].creditor
        /\ b.rows[i].status \in Moving => y.rows[i].status \in Moving

\* One row owes `rest' of what it did, and so does the cache of its debtor.
Leaves(y, x, id, rest) ==
    LET c == y.rows[id]
    IN /\ x.edges = y.edges
       /\ x.debt = Eased(y.debt, c.debtor, c.outstanding - rest)
       /\ \E r \in RowSet : x.rows = [y.rows EXCEPT ![id] = r] /\ r.outstanding = rest /\ Remains(c, r)

\* One original of which some is routed: what is taken off it, dust apart, is
\* what its creditor is promised, by the date it had or sooner.
Routes(s, x, id, share) ==
    LET c == s.book.rows[id]
    IN \E take \in Nat, rest \in Nat, due \in Nat, a \in Slot :
          /\ DustMinor < take /\ s.cleared + take <= share /\ take <= c.outstanding
          /\ c.outstanding = take + rest \/ (rest = 0 /\ c.outstanding <= take + DustMinor)
          /\ Leaves(s.book, x.book, id, rest)
          /\ x.spent = s.spent + take /\ x.cleared = s.cleared + take
          /\ x.visited = s.visited /\ x.todo = s.todo
          /\ due <= c.maturity /\ x.assumed = Added(s.assumed, <<c.creditor, due>>, a)
          /\ a.amount = AmountIn(s.assumed, <<c.creditor, due>>) + take

\* The book of one original routed: released, closed down, reserved for the
\* buyer, and the rest of it on a hold of its own.
LEMMA RoutedBook ==
    ASSUME NEW y \in Books, NEW A \in Slots, Ready, Balanced(y), RowsSound(y), FilledBut(y, A, DOMAIN A),
           NEW id \in DOMAIN y.rows, y.rows[id].status = "Active",
           NEW rest \in Nat, rest <= y.rows[id].outstanding, rest = 0 \/ rest > DustMinor,
           NEW buyer \in Members, NEW take \in Nat,
           NEW t \in Taken(Closing(y, id, rest), buyer, take), t.insured,
           NEW x \in Remade(Reserve(Closing(y, id, rest), t.held), id)
    PROVE  /\ Onward(y, x, epoch) /\ Balanced(x) /\ RowsSound(x) /\ Kin(y, x)
           /\ Leaves(y, x, id, rest)
           /\ t.held \in HoldSet /\ HeldAmount(t.held) = take /\ t.held.supply[buyer] = 0
           /\ \A k \in Places : /\ Booked(x, k) = Total(x, k) + (Aside(A, DOMAIN A, k) + At(t.held, k))
                                /\ Booked(x, k) <= Stock(x, k)
<1> DEFINE c == y.rows[id]
           n == Closing(y, id, rest)
           h == t.held
           z == Reserve(n, h)
           r0 == Closed(c, rest)
<1>1. y \in BookSet /\ y.rows \in RowFiles /\ c \in RowSet /\ c.held \in HoldSet /\ RowSound(c)
  BY FileTypes DEF Books, BookSet, RowSet, RowsSound
<1>2. /\ n \in BookSet /\ Onward(y, n, epoch) /\ Balanced(n) /\ n.rows = [y.rows EXCEPT ![id] = r0]
      /\ \A k \in Places : /\ Booked(n, k) = Minus(Booked(y, k), At(c.held, k))
                           /\ Stock(n, k) = Stock(y, k)
                           /\ Total(n, k) + At(c.held, k) = Total(y, k)
  BY ClosedKeeps
<1>24. n.edges = y.edges
  BY ClosedKeeps
<1>25. n.debt = Eased(y.debt, c.debtor, c.outstanding - rest)
  BY ClosedKeeps
<1>3. /\ r0 \in RowSet /\ r0.held = Nothing /\ r0.outstanding = rest
      /\ r0.status = (IF rest = 0 THEN "Transferred" ELSE "Active")
      /\ r0.debtor = c.debtor /\ r0.creditor = c.creditor
  BY <1>1, ClosedType
<1> HIDE DEF n, r0
<1>4. n \in Books
  BY <1>2 DEF Onward
<1>5. ASSUME NEW k \in Places
      PROVE  Booked(n, k) = Total(n, k) + Aside(A, DOMAIN A, k) /\ Booked(n, k) <= Stock(n, k)
  <2> DEFINE was == Booked(y, k)
             held == Total(y, k)
             aside == Aside(A, DOMAIN A, k)
             gone == At(c.held, k)
             left == Total(n, k)
             there == Stock(y, k)
  <2>1. was = held + aside /\ was <= there
    BY DEF FilledBut
  <2>2. was \in Nat /\ held \in Nat /\ there \in Nat /\ left \in Nat
    BY <1>1, <1>2, PlaceTypes DEF Ready
  <2>3. aside \in Nat /\ gone \in Nat
    BY <1>1, AsideType, AtType
  <2>4. left + gone = held /\ Booked(n, k) = Minus(was, gone) /\ Stock(n, k) = there
    BY <1>2
  <2> HIDE DEF was, held, aside, gone, left, there
  <2>5. Minus(was, gone) = left + aside /\ Minus(was, gone) <= there
    BY <2>1, <2>2, <2>3, <2>4 DEF Minus
  <2> QED  BY <2>4, <2>5 DEF left, aside
<1>6. Within(n)
  BY <1>5 DEF Within
<1>7. /\ h \in HoldSet /\ HeldAmount(h) = take /\ h.supply[buyer] = 0
      /\ \A k \in Places : Booked(n, k) + At(h, k) <= Stock(n, k)
  <2>1. t \in Taken(n, buyer, take) \cup {Uninsured}
    BY DEF n
  <2>2. /\ t \in Holdings /\ t.held.supply[buyer] = 0
        /\ HeldAmount(t.held) = IF t.insured THEN take ELSE 0
        /\ Within(n) => \A k \in Places : Booked(n, k) + At(t.held, k) <= Stock(n, k)
    BY <1>4, <2>1, TakenFits
  <2> QED  BY <1>6, <2>2 DEF Holdings
<1> HIDE DEF h
<1>8. /\ z \in BookSet /\ Onward(n, z, epoch) /\ z.rows = n.rows /\ z.next = n.next
      /\ z.debt = n.debt /\ z.default = n.default /\ z.edges = n.edges
      /\ \A k \in Places : Booked(z, k) = Booked(n, k) + At(h, k)
  BY <1>4, <1>7, ReserveLater
<1> HIDE DEF z
<1>9. z \in Books
  BY <1>8 DEF Onward
<1>10. \A k \in Places : Stock(z, k) = Stock(n, k) /\ Total(z, k) = Total(n, k)
  BY <1>8 DEF Stock, Total, Tally
<1>11. Within(z)
  BY <1>7, <1>8, <1>10 DEF Within
<1>12. Balanced(z)
  BY <1>2, <1>8 DEF Balanced, Cached, Tally
<1>13. /\ id \in DOMAIN z.rows /\ z.rows[id] = r0
       /\ DOMAIN z.rows = DOMAIN y.rows
       /\ \A i \in DOMAIN y.rows : i # id => z.rows[i] = y.rows[i]
  BY <1>1, <1>2, <1>3, <1>8, RowChanged
<1>14. /\ z.rows[id].held = Nothing /\ z.rows[id].debtor # z.rows[id].creditor
       /\ IF Live(z.rows[id]) THEN z.rows[id].outstanding > DustMinor ELSE z.rows[id].outstanding = 0
  <2>1. c.debtor # c.creditor
    BY <1>1 DEF RowSound
  <2>2. rest = 0 => ~Live(r0)
    BY <1>3 DEF Live
  <2>3. rest # 0 => Live(r0) /\ rest > DustMinor
    BY <1>3 DEF Live
  <2> HIDE DEF c
  <2> QED  BY <1>3, <1>13, <2>1, <2>2, <2>3
<1>15. x \in Remade(z, id)
  BY DEF z, h, n
<1>16. PICK r \in RowSet :
          /\ x.rows = [z.rows EXCEPT ![id] = r] /\ RowSound(r)
          /\ r.status = z.rows[id].status /\ Remains(z.rows[id], r)
          /\ r.outstanding = z.rows[id].outstanding
          /\ \A k \in Places : /\ Booked(x, k) = Booked(z, k) + At(r.held, k)
                               /\ Total(x, k) = Total(z, k) + At(r.held, k)
  BY <1>9, <1>11, <1>12, <1>13, <1>14, <1>15, RemadeKeeps
<1>17. /\ x \in BookSet /\ Onward(z, x, epoch) /\ Balanced(x) /\ Within(x)
       /\ x.debt = z.debt /\ x.edges = z.edges
  BY <1>9, <1>11, <1>12, <1>13, <1>14, <1>15, RemadeKeeps
<1>18. Onward(y, x, epoch)
  BY <1>2, <1>8, <1>17, OnwardTwice
<1>19. x.rows = [y.rows EXCEPT ![id] = r]
  BY <1>1, <1>2, <1>8, <1>16, FileTypes
<1>20. RowsSound(x)
  BY <1>1, <1>16, <1>19, SoundChanged DEF RowsSound
<1>21. Kin(y, x)
  <2>1. /\ DOMAIN x.rows = DOMAIN y.rows
        /\ \A i \in DOMAIN y.rows : x.rows[i] = IF i = id THEN r ELSE y.rows[i]
    BY <1>1, <1>19, RowChanged
  <2>2. r.creditor = c.creditor /\ r.status \in Moving
    BY <1>3, <1>13, <1>16 DEF Moving, Remains
  <2> QED  BY <2>1, <2>2 DEF Kin
<1>23. Leaves(y, x, id, rest)
  <2>1. Remains(c, r) /\ r.outstanding = rest
    <3>1. Remains(c, r0)
      BY <1>1, ClosedType DEF Remains, r0
    <3> QED  BY <1>3, <1>13, <1>16, <3>1 DEF Remains
  <2>2. x.edges = y.edges /\ x.debt = Eased(y.debt, c.debtor, c.outstanding - rest)
    BY <1>8, <1>17, <1>24, <1>25
  <2> QED  BY <1>19, <2>1, <2>2 DEF Leaves
<1>22. ASSUME NEW k \in Places
       PROVE  /\ Booked(x, k) = Total(x, k) + (Aside(A, DOMAIN A, k) + At(h, k))
              /\ Booked(x, k) <= Stock(x, k)
  <2> DEFINE bz == Booked(z, k)
             bn == Booked(n, k)
             tn == Total(n, k)
             more == At(r.held, k)
             aside == Aside(A, DOMAIN A, k)
             mine == At(h, k)
  <2>1. Booked(x, k) = bz + more /\ Total(x, k) = tn + more /\ bz = bn + mine /\ bn = tn + aside
    BY <1>5, <1>8, <1>10, <1>16
  <2>2. r.held \in HoldSet
    BY DEF RowSet
  <2>3. tn \in Nat /\ more \in Nat /\ aside \in Nat /\ mine \in Nat
    BY <1>2, <1>7, <2>2, AsideType, AtType, PlaceTypes DEF Ready
  <2>4. Booked(x, k) <= Stock(x, k)
    BY <1>17 DEF Within
  <2> HIDE DEF bz, bn, tn, more, aside, mine
  <2>5. Booked(x, k) = Total(x, k) + (aside + mine)
    BY <2>1, <2>3
  <2> QED  BY <2>4, <2>5 DEF aside, mine
<1> QED  BY <1>7, <1>17, <1>18, <1>20, <1>21, <1>22, <1>23 DEF h

LEMMA MidwayParts ==
    ASSUME NEW b, NEW buyer, NEW s, Midway(s, b, buyer)
    PROVE  /\ s \in Cascades /\ s.book \in Books /\ s.assumed \in Slots
           /\ s.spent \in Nat /\ s.cleared \in Nat /\ s.visited \in SUBSET Members /\ s.todo \in Seq(Turn)
           /\ Onward(b, s.book, epoch) /\ Balanced(s.book) /\ RowsSound(s.book)
           /\ \A i \in DOMAIN s.book.rows : ~Due(s.book.rows[i], epoch)
           /\ \A j \in DOMAIN s.assumed : SlotSound(j, s.assumed[j], buyer)
           /\ FilledBut(s.book, s.assumed, DOMAIN s.assumed)
BY DEF Midway, Between, Cascades

LEMMA KinSelf ==
    ASSUME NEW b
    PROVE  Kin(b, b)
BY DEF Kin

LEMMA KinTwice ==
    ASSUME NEW a, NEW b, NEW c, Kin(a, b), Kin(b, c)
    PROVE  Kin(a, c)
BY DEF Kin

\* One original of a drain leaves the sale in order.
LEMMA RoutedKeeps ==
    ASSUME NEW b, Ready, epoch \in Nat, NEW buyer \in Members, NEW s, Midway(s, b, buyer),
           NEW id \in DOMAIN s.book.rows, s.book.rows[id].status \in Moving, s.book.rows[id].creditor # buyer,
           NEW share \in Int, NEW date \in Nat, epoch <= date, NEW x \in Routed(s, buyer, id, share, date)
    PROVE  Midway(x, b, buyer) /\ Kin(s.book, x.book) /\ (x = s \/ Routes(s, x, id, share))
<1> DEFINE y == s.book
           A == s.assumed
           c == y.rows[id]
           due == InheritedDate(c, date)
           left == Minus(share, s.cleared)
           take == Carried(s, buyer, c, Less(c.outstanding, left))
           rest == IF c.outstanding - take <= DustMinor THEN 0 ELSE c.outstanding - take
           j == <<c.creditor, due>>
           slot == IF j \in DOMAIN A THEN A[j] ELSE [amount |-> 0, held |-> Nothing, accepted |-> c.accepted]
           joined(h) == [amount |-> slot.amount + take, held |-> Plus(slot.held, h),
                         accepted |-> Less(slot.accepted, c.accepted)]
           n == Closing(y, id, rest)
           stays == left <= DustMinor \/ due > c.accepted + InsuredHorizon \/ take <= DustMinor
<1>1. /\ y \in Books /\ y \in BookSet /\ y.rows \in RowFiles /\ c \in RowSet /\ RowSound(c)
      /\ A \in Slots /\ s.cleared \in Nat /\ s.spent \in Nat
      /\ Balanced(y) /\ RowsSound(y) /\ FilledBut(y, A, DOMAIN A) /\ ~Due(c, epoch)
      /\ Onward(b, y, epoch) /\ \A i \in DOMAIN A : SlotSound(i, A[i], buyer)
      /\ s \in Cascades
  BY MidwayParts, FileTypes DEF Books, BookSet, RowsSound
<1>2. /\ c.outstanding \in Nat /\ c.creditor \in Members /\ c.maturity \in Nat /\ c.accepted \in Nat
      /\ DustMinor \in Nat
  BY <1>1 DEF RowSet, Ready
<1>3. left \in Nat
  BY <1>1 DEF Minus
<1>4. take \in Nat /\ take <= c.outstanding
  <2> DEFINE most == Less(c.outstanding, left)
  <2>1. most \in Nat /\ most <= c.outstanding
    BY <1>2, <1>3, LessType
  <2> HIDE DEF most, c
  <2>2. take \in Nat /\ take <= most
    BY <1>1, <2>1, CarriedType DEF most
  <2> HIDE DEF take
  <2> QED  BY <1>2, <2>1, <2>2
<1> HIDE DEF left
<1>5. CASE stays
  <2>1. x = s
    BY <1>5 DEF Routed, left
  <2> QED  BY <2>1, KinSelf
<1>6. CASE ~stays
  <2>16. PICK t \in Taken(n, buyer, take) :
            /\ t.insured
            /\ \E w \in Remade(Reserve(n, t.held), id) :
                  x = [s EXCEPT !.book = w, !.cleared = @ + take, !.spent = @ + take,
                                !.assumed = Added(@, j, joined(t.held))]
    <3>1. x \in UNION {{[s EXCEPT !.book = w, !.cleared = @ + take, !.spent = @ + take,
                                  !.assumed = Added(@, j, joined(t.held))]
                          : w \in Remade(Reserve(n, t.held), id)}
                       : t \in {t \in Taken(n, buyer, take) : t.insured}}
      BY <1>6 DEF Routed, Closing, left
    <3> HIDE DEF n, joined, j, take
    <3> QED  BY <3>1
  <2>1. PICK w \in Remade(Reserve(n, t.held), id) :
           x = [s EXCEPT !.book = w, !.cleared = @ + take, !.spent = @ + take,
                         !.assumed = Added(@, j, joined(t.held))]
    BY <2>16
  <2>2. take > DustMinor
    <3> HIDE DEF take
    <3> QED  BY <1>2, <1>4, <1>6
  <2>3. c.status = "Active"
    <3>1. c.outstanding # 0
      <4> HIDE DEF take, c
      <4> QED  BY <1>2, <1>4, <2>2
    <3>2. Live(c)
      BY <1>1, <3>1 DEF RowSound
    <3>3. c.status \in Moving
      OBVIOUS
    <3> HIDE DEF c
    <3> QED  BY <3>2, <3>3 DEF Live, Moving
  <2>4. rest \in Nat /\ rest <= c.outstanding /\ (rest = 0 \/ rest > DustMinor)
    <3> HIDE DEF take, c
    <3> QED  BY <1>2, <1>4
  <2>5. due \in Nat /\ epoch <= due
    <3>1. epoch <= c.maturity
      <4>1. c.outstanding > DustMinor
        <5> HIDE DEF take, c
        <5> QED  BY <1>2, <1>4, <2>2
      <4> HIDE DEF c
      <4> QED  BY <1>1, <1>2, <2>3, <4>1 DEF Due
    <3> HIDE DEF c
    <3> QED  BY <1>2, <3>1 DEF InheritedDate, Less
  <2> DEFINE h == t.held
             a == joined(h)
  <2>6. /\ Onward(y, w, epoch) /\ Balanced(w) /\ RowsSound(w) /\ Kin(y, w)
        /\ Leaves(y, w, id, rest)
        /\ h \in HoldSet /\ HeldAmount(h) = take /\ h.supply[buyer] = 0
        /\ \A k \in Places : /\ Booked(w, k) = Total(w, k) + (Aside(A, DOMAIN A, k) + At(h, k))
                             /\ Booked(w, k) <= Stock(w, k)
    <3> HIDE DEF rest, take, A, y
    <3>1. id \in DOMAIN y.rows /\ y.rows[id].status = "Active" /\ rest <= y.rows[id].outstanding
      BY <2>3, <2>4 DEF y
    <3> HIDE DEF c
    <3> QED  BY <1>1, <1>4, <2>1, <2>4, <2>16, <3>1, RoutedBook
  <2>7. j \in Nat \X Nat /\ j[1] = c.creditor /\ j[2] = due /\ c.creditor \in Members /\ c.creditor # buyer
    <3>1. c.creditor \in Nat
      BY <1>2, MembersAssumption
    <3> HIDE DEF c, due
    <3>2. c.creditor # buyer
      BY DEF c, y
    <3> QED  BY <1>2, <2>5, <3>1, <3>2
  <2>8. /\ a \in Slot /\ SlotSound(j, a, buyer)
        /\ a.held = Plus(HeldIn(A, j), h)
    <3>1. j[1] \in Members /\ j[1] # buyer /\ epoch <= j[2]
      BY <2>5, <2>7
    <3> DEFINE since == c.accepted
    <3>2. since \in Nat
      BY <1>2
    <3>3. /\ slot = (IF j \in DOMAIN A THEN A[j] ELSE [amount |-> 0, held |-> Nothing, accepted |-> since])
          /\ a = [amount |-> slot.amount + take, held |-> Plus(slot.held, h), accepted |-> Less(slot.accepted, since)]
      OBVIOUS
    <3> HIDE DEF a, slot, since, j, h, take, A
    <3> QED  BY <1>1, <1>4, <2>6, <2>7, <3>1, <3>2, <3>3, JoinedSound
  <2> DEFINE B == Added(A, j, a)
  <2>9. /\ B \in Slots /\ DOMAIN B = DOMAIN A \cup {j}
        /\ \A i \in DOMAIN A \cup {j} : B[i] = IF i = j THEN a ELSE A[i]
        /\ \A k \in Places : Aside(B, DOMAIN B, k) = Aside(A, DOMAIN A, k) + At(h, k)
    <3> DEFINE lender == c.creditor
    <3>1. lender \in Nat /\ due \in Nat
      BY <1>2, <2>5, MembersAssumption
    <3>2. A \in Slots /\ a \in Slot /\ h \in HoldSet /\ j = <<lender, due>>
      BY <1>1, <2>6, <2>8
    <3> HIDE DEF a, j, h, A, lender, due
    <3> QED  BY <2>8, <3>1, <3>2, AsideMore
  <2>10. x = [s EXCEPT !.book = w, !.cleared = @ + take, !.spent = @ + take, !.assumed = B]
    BY <2>1
  <2> HIDE DEF B, a, h, j, joined
  <2>11. /\ x \in Cascades /\ x.book = w /\ x.assumed = B
    <3>1. w \in Books /\ s.cleared + take \in Nat /\ s.spent + take \in Nat
      <4>1. w \in Books
        BY <2>6 DEF Onward
      <4> HIDE DEF take
      <4> QED  BY <1>1, <1>4, <4>1
    <3> DEFINE cleared == s.cleared + take
               spent == s.spent + take
    <3>2. cleared \in Nat /\ spent \in Nat
      BY <3>1
    <3>3. x = [s EXCEPT !.book = w, !.cleared = cleared, !.spent = spent, !.assumed = B]
      BY <1>1, <2>10
    <3> HIDE DEF take, cleared, spent
    <3> QED  BY <1>1, <2>9, <3>1, <3>2, <3>3 DEF Cascades
  <2>12. FilledBut(w, B, DOMAIN B)
    BY <2>6, <2>9 DEF FilledBut
  <2>13. \A i \in DOMAIN B : SlotSound(i, B[i], buyer)
    <3> HIDE DEF A
    <3> QED  BY <1>1, <2>8, <2>9
  <2>14. Onward(b, w, epoch) /\ \A i \in DOMAIN w.rows : ~Due(w.rows[i], epoch)
    <3>1. Onward(b, w, epoch)
      BY <1>1, <2>6, OnwardTwice
    <3>2. \A i \in DOMAIN y.rows : ~Due(y.rows[i], epoch)
      BY MidwayParts
    <3> HIDE DEF y
    <3> QED  BY <2>6, <3>1, <3>2 DEF Onward
  <2>15. Between(b, w, B, DOMAIN B, buyer)
    BY <2>6, <2>12, <2>13, <2>14 DEF Between
  <2>17. Routes(s, x, id, share)
    <3>1. DustMinor < take /\ s.cleared + take <= share
      <4>1. take <= left
        <5> DEFINE most == Less(c.outstanding, left)
        <5>1. most \in Nat /\ most <= left
          BY <1>2, <1>3, LessType
        <5> HIDE DEF most, c
        <5>2. take \in Nat /\ take <= most
          BY <1>1, <5>1, CarriedType DEF most
        <5> HIDE DEF take
        <5> QED  BY <1>3, <5>1, <5>2
      <4> HIDE DEF take
      <4>2. left = IF share > s.cleared THEN share - s.cleared ELSE 0
        BY DEF left, Minus
      <4> QED  BY <1>1, <1>2, <1>3, <1>4, <2>2, <4>1, <4>2
    <3>2. c.outstanding = take + rest \/ (rest = 0 /\ c.outstanding <= take + DustMinor)
      <4> HIDE DEF take, c
      <4> QED  BY <1>2, <1>4
    <3>3. x.spent = s.spent + take /\ x.cleared = s.cleared + take /\ x.visited = s.visited /\ x.todo = s.todo
      <4> DEFINE cleared == s.cleared + take
                 spent == s.spent + take
      <4>1. x = [s EXCEPT !.book = w, !.cleared = cleared, !.spent = spent, !.assumed = B]
        BY <1>1, <2>10
      <4> HIDE DEF take, cleared, spent
      <4>2. x.spent = spent /\ x.cleared = cleared /\ x.visited = s.visited /\ x.todo = s.todo
        BY <1>1, <4>1 DEF Cascades
      <4> QED  BY <4>2 DEF cleared, spent
    <3>4. due <= c.maturity
      <4>1. due = Less(c.maturity, date)
        BY DEF InheritedDate
      <4> HIDE DEF due, c
      <4> QED  BY <1>2, <4>1, LessType
    <3>5. x.assumed = Added(s.assumed, j, a) /\ a \in Slot /\ j = <<c.creditor, due>>
      BY <2>8, <2>11 DEF B, j
    <3>6. a.amount = AmountIn(s.assumed, j) + take
      <4>1. a.amount = slot.amount + take
        BY DEF a, joined
      <4>2. slot.amount = AmountIn(s.assumed, j)
        BY DEF AmountIn, j
      <4> QED  BY <4>1, <4>2
    <3> HIDE DEF take, rest, due, slot, c, y, A
    <3> QED  BY <1>4, <2>4, <2>5, <2>6, <2>11, <3>1, <3>2, <3>3, <3>4, <3>5, <3>6 DEF Routes, c, y
  <2> QED  BY <2>6, <2>11, <2>15, <2>17 DEF Midway
<1> QED  BY <1>5, <1>6

\* The creditors of the rows R, with every date up to the rows' own, are in T.
Covers(f, R, T) == \A i \in R, d \in Nat : d <= f[i].maturity => <<f[i].creditor, d>> \in T

\* Only rows of the debtors D change, none of them owed to the buyer.
SameTerms(f, g, D, buyer) ==
    /\ DOMAIN g = DOMAIN f
    /\ \A i \in DOMAIN f : /\ Remains(f[i], g[i])
                           /\ f[i].debtor \notin D \/ f[i].creditor = buyer => g[i] = f[i]

\* The debtors D owe no more, and the others what they did.
Relieved(b, c, D) == \A m \in Members : c.debt[m] <= b.debt[m] /\ (m \notin D => c.debt[m] = b.debt[m])

\* Of no set of rows has more than k come off, dust apart.
Shed(f, g, k) == \A R \in SUBSET DOMAIN f : Full(f, R) <= Full(g, R) + k

\* What has come off is promised, to the creditor it was owed to and by the date it had.
Replaced(f, A, g, B) ==
    \A R \in SUBSET DOMAIN f, T \in SUBSET Pairs :
        Covers(f, R, T) => Full(f, R) + Promised(A, T) <= Full(g, R) + Promised(B, T)

Heavy(A) == \A j \in DOMAIN A : A[j].amount > DustMinor

\* What a sale has moved between s and x: k, of debts of the members D.
Moves(s, x, D, buyer, k) ==
    /\ x.spent = s.spent + k /\ x.book.edges = s.book.edges
    /\ SameTerms(s.book.rows, x.book.rows, D, buyer)
    /\ Relieved(s.book, x.book, D)
    /\ Shed(s.book.rows, x.book.rows, k)
    /\ Replaced(s.book.rows, s.assumed, x.book.rows, x.assumed)
    /\ Heavy(s.assumed) => Heavy(x.assumed)
    /\ Promised(x.assumed, Pairs) = Promised(s.assumed, Pairs) + k

LEMMA CascadeTypes ==
    ASSUME NEW s \in Cascades
    PROVE  /\ s.book \in Books /\ s.book \in BookSet /\ s.book.rows \in RowFiles /\ s.assumed \in Slots
           /\ s.spent \in Nat /\ s.cleared \in Nat /\ s.visited \in SUBSET Members /\ s.todo \in Seq(Turn)
           /\ \A m \in Members : s.book.debt[m] \in Nat
           /\ \A i \in DOMAIN s.book.rows : s.book.rows[i] \in RowSet
<1>1. /\ s.book \in Books /\ s.assumed \in Slots
      /\ s.spent \in Nat /\ s.cleared \in Nat /\ s.visited \in SUBSET Members /\ s.todo \in Seq(Turn)
  BY DEF Cascades
<1>2. s.book \in BookSet
  BY <1>1 DEF Books
<1>3. s.book.rows \in RowFiles /\ s.book.debt \in Purses
  BY <1>2 DEF BookSet
<1>4. \A i \in DOMAIN s.book.rows : s.book.rows[i] \in RowSet
  BY <1>3, FileTypes
<1>5. \A m \in Members : s.book.debt[m] \in Nat
  BY <1>3 DEF Purses
<1> QED  BY <1>1, <1>2, <1>3, <1>4, <1>5

LEMMA MovesSelf ==
    ASSUME Ready, NEW s \in Cascades, NEW x, x.book = s.book, x.assumed = s.assumed, x.spent = s.spent, NEW D, NEW buyer
    PROVE  Moves(s, x, D, buyer, 0)
<1>1. DustMinor \in Nat
  BY DEF Ready
<1>2. s.book.rows \in RowFiles /\ s.assumed \in Slots /\ s.spent \in Nat /\ \A m \in Members : s.book.debt[m] \in Nat
  BY CascadeTypes
<1>3. \A R \in SUBSET DOMAIN s.book.rows : Full(s.book.rows, R) \in Nat
  BY <1>1, <1>2, SizeType
<1>4. \A T \in SUBSET Pairs : Promised(s.assumed, T) \in Nat
  BY <1>2, PromisedType
<1>5. Shed(s.book.rows, s.book.rows, 0)
  BY <1>3 DEF Shed
<1>6. Replaced(s.book.rows, s.assumed, s.book.rows, s.assumed)
  BY <1>3, <1>4 DEF Replaced
<1>7. SameTerms(s.book.rows, s.book.rows, D, buyer)
  BY DEF SameTerms, Remains
<1>8. Relieved(s.book, s.book, D)
  BY <1>2 DEF Relieved
<1>9. s.spent = s.spent + 0 /\ Promised(s.assumed, Pairs) = Promised(s.assumed, Pairs) + 0
  <2>1. Promised(s.assumed, Pairs) \in Nat
    BY <1>2, PromisedType
  <2> QED  BY <1>2, <2>1
<1> QED  BY <1>5, <1>6, <1>7, <1>8, <1>9 DEF Moves

LEMMA MovesTwice ==
    ASSUME Ready, NEW s \in Cascades, NEW y \in Cascades, NEW x \in Cascades, NEW D, NEW E, NEW buyer,
           NEW k \in Nat, NEW l \in Nat, Moves(s, y, D, buyer, k), Moves(y, x, E, buyer, l)
    PROVE  Moves(s, x, D \cup E, buyer, k + l)
<1> DEFINE f == s.book.rows
           g == y.book.rows
           h == x.book.rows
           A == s.assumed
           B == y.assumed
           C == x.assumed
<1>1. /\ f \in RowFiles /\ g \in RowFiles /\ h \in RowFiles /\ A \in Slots /\ B \in Slots /\ C \in Slots
      /\ s.spent \in Nat /\ y.spent \in Nat /\ x.spent \in Nat /\ DustMinor \in Nat
      /\ \A m \in Members : s.book.debt[m] \in Nat /\ y.book.debt[m] \in Nat /\ x.book.debt[m] \in Nat
  BY CascadeTypes DEF Ready
<1>2. /\ SameTerms(f, g, D, buyer) /\ SameTerms(g, h, E, buyer)
      /\ Relieved(s.book, y.book, D) /\ Relieved(y.book, x.book, E)
      /\ Shed(f, g, k) /\ Shed(g, h, l) /\ Replaced(f, A, g, B) /\ Replaced(g, B, h, C)
      /\ x.book.edges = s.book.edges /\ (Heavy(A) => Heavy(C))
      /\ x.spent = y.spent + l /\ y.spent = s.spent + k
      /\ Promised(B, Pairs) = Promised(A, Pairs) + k /\ Promised(C, Pairs) = Promised(B, Pairs) + l
  BY DEF Moves
<1>3. x.spent = s.spent + (k + l) /\ Promised(C, Pairs) = Promised(A, Pairs) + (k + l)
  <2>1. Promised(A, Pairs) \in Nat
    BY <1>1, PromisedType
  <2> QED  BY <1>1, <1>2, <2>1
<1> HIDE DEF f, g, h, A, B, C
<1>4. SameTerms(f, h, D \cup E, buyer)
  BY <1>2 DEF SameTerms, Remains
<1>5. Relieved(s.book, x.book, D \cup E)
  <2> SUFFICES ASSUME NEW m \in Members
               PROVE  /\ x.book.debt[m] <= s.book.debt[m]
                      /\ m \notin D \cup E => x.book.debt[m] = s.book.debt[m]
    BY DEF Relieved
  <2>1. /\ y.book.debt[m] <= s.book.debt[m] /\ (m \notin D => y.book.debt[m] = s.book.debt[m])
        /\ x.book.debt[m] <= y.book.debt[m] /\ (m \notin E => x.book.debt[m] = y.book.debt[m])
    BY <1>2 DEF Relieved
  <2>2. s.book.debt[m] \in Nat /\ y.book.debt[m] \in Nat /\ x.book.debt[m] \in Nat
    BY <1>1
  <2>3. x.book.debt[m] <= s.book.debt[m]
    BY <2>1, <2>2
  <2> QED  BY <2>1, <2>3
<1>6. DOMAIN g = DOMAIN f /\ DOMAIN h = DOMAIN f
  BY <1>2 DEF SameTerms
<1>7. ASSUME NEW R \in SUBSET DOMAIN f
      PROVE  /\ Full(f, R) \in Nat /\ Full(g, R) \in Nat /\ Full(h, R) \in Nat
             /\ Full(f, R) <= Full(g, R) + k /\ Full(g, R) <= Full(h, R) + l
  BY <1>1, <1>2, <1>6, SizeType DEF Shed
<1>8. Shed(f, h, k + l)
  <2> SUFFICES ASSUME NEW R \in SUBSET DOMAIN f
               PROVE  Full(f, R) <= Full(h, R) + (k + l)
    BY DEF Shed
  <2> QED  BY <1>7
<1>9. Replaced(f, A, h, C)
  <2> SUFFICES ASSUME NEW R \in SUBSET DOMAIN f, NEW T \in SUBSET Pairs, Covers(f, R, T)
               PROVE  Full(f, R) + Promised(A, T) <= Full(h, R) + Promised(C, T)
    BY DEF Replaced
  <2>1. Covers(g, R, T)
    BY <1>2 DEF Covers, SameTerms, Remains
  <2>2. Full(f, R) + Promised(A, T) <= Full(g, R) + Promised(B, T)
    BY <1>2 DEF Replaced
  <2>3. Full(g, R) + Promised(B, T) <= Full(h, R) + Promised(C, T)
    BY <1>2, <1>6, <2>1 DEF Replaced
  <2>4. Promised(A, T) \in Nat /\ Promised(B, T) \in Nat /\ Promised(C, T) \in Nat
    BY <1>1, PromisedType
  <2> QED  BY <1>7, <2>2, <2>3, <2>4
<1> QED  BY <1>2, <1>3, <1>4, <1>5, <1>8, <1>9 DEF Moves, f, h, A, C

\* A routed original moves what is taken off it.
LEMMA RoutesMove ==
    ASSUME Ready, NEW s \in Cascades, NEW x \in Cascades, NEW id \in DOMAIN s.book.rows, NEW share, NEW buyer,
           s.book.rows[id].creditor # buyer, Routes(s, x, id, share)
    PROVE  \E k \in Nat : /\ Moves(s, x, {s.book.rows[id].debtor}, buyer, k)
                          /\ x.cleared = s.cleared + k /\ x.cleared <= share
                          /\ x.visited = s.visited /\ x.todo = s.todo
<1> DEFINE f == s.book.rows
           g == x.book.rows
           c == f[id]
           A == s.assumed
           B == x.assumed
<1>1. PICK take \in Nat, rest \in Nat, due \in Nat, a \in Slot :
          /\ DustMinor < take /\ s.cleared + take <= share /\ take <= c.outstanding
          /\ c.outstanding = take + rest \/ (rest = 0 /\ c.outstanding <= take + DustMinor)
          /\ Leaves(s.book, x.book, id, rest)
          /\ x.spent = s.spent + take /\ x.cleared = s.cleared + take
          /\ x.visited = s.visited /\ x.todo = s.todo
          /\ due <= c.maturity /\ x.assumed = Added(s.assumed, <<c.creditor, due>>, a)
          /\ a.amount = AmountIn(s.assumed, <<c.creditor, due>>) + take
  BY DEF Routes
<1>2. /\ f \in RowFiles /\ g \in RowFiles /\ c \in RowSet /\ A \in Slots /\ B \in Slots /\ DustMinor \in Nat
      /\ \A m \in Members : s.book.debt[m] \in Nat
      /\ s.book.debt \in Purses /\ s.cleared \in Nat
  <2>1. s.book.debt \in Purses
    BY CascadeTypes DEF BookSet
  <2> QED  BY <2>1, CascadeTypes DEF Ready
<1>3. PICK r \in RowSet : g = [f EXCEPT ![id] = r] /\ r.outstanding = rest /\ Remains(c, r)
  BY <1>1 DEF Leaves
<1>4. x.book.edges = s.book.edges /\ x.book.debt = Eased(s.book.debt, c.debtor, c.outstanding - rest)
  BY <1>1 DEF Leaves
<1>5. /\ c.outstanding \in Nat /\ c.debtor \in Members /\ c.creditor \in Nat /\ c.maturity \in Nat
  BY <1>2, MembersAssumption DEF RowSet
<1>6. DOMAIN g = DOMAIN f /\ g[id] = r /\ \A i \in DOMAIN f : i # id => g[i] = f[i]
  BY <1>2, <1>3, RowChanged
<1>7. rest <= c.outstanding /\ c.outstanding # 0
  <2> HIDE DEF c
  <2> QED  BY <1>1, <1>2, <1>5
<1>8. Relieved(s.book, x.book, {c.debtor})
  <2> SUFFICES ASSUME NEW m \in Members
               PROVE  /\ x.book.debt[m] <= s.book.debt[m]
                      /\ m # c.debtor => x.book.debt[m] = s.book.debt[m]
    BY DEF Relieved
  <2>1. x.book.debt[m] = IF m = c.debtor THEN Minus(s.book.debt[m], c.outstanding - rest) ELSE s.book.debt[m]
    BY <1>2, <1>4 DEF Eased, Purses
  <2>2. c.outstanding - rest \in Nat
    BY <1>5, <1>7
  <2>3. s.book.debt[m] \in Nat
    BY <1>2
  <2> HIDE DEF c
  <2> QED  BY <2>1, <2>2, <2>3 DEF Minus
<1>9. SameTerms(f, g, {c.debtor}, buyer)
  <2> SUFFICES ASSUME NEW i \in DOMAIN f
               PROVE  /\ Remains(f[i], g[i])
                      /\ f[i].debtor # c.debtor \/ f[i].creditor = buyer => g[i] = f[i]
    BY <1>6 DEF SameTerms
  <2>1. CASE i = id
    BY <1>3, <1>6, <2>1
  <2>2. CASE i # id
    BY <1>6, <2>2 DEF Remains
  <2> QED  BY <2>1, <2>2
<1>10. Padded(c) = c.outstanding /\ Padded(r) = (IF rest = 0 THEN DustMinor ELSE rest)
  BY <1>3, <1>7 DEF Padded
<1>11. ASSUME NEW R \in SUBSET DOMAIN f
       PROVE  /\ Full(f, R) \in Nat /\ Full(g, R) \in Nat
              /\ Full(f, R) <= Full(g, R) + (IF id \in R THEN take ELSE 0)
  <2>1. Full(f, R) \in Nat /\ Full(g, R) \in Nat
    BY <1>2, <1>6, SizeType
  <2>2. IF id \in R THEN Full(f, R) + Padded(g[id]) = Full(g, R) + Padded(f[id])
                    ELSE Full(f, R) = Full(g, R)
    <3> HIDE DEF f, g
    <3>1. id \in DOMAIN f
      BY DEF f
    <3> QED  BY <1>2, <1>6, <3>1, FullMoves
  <2> DEFINE was == Full(f, R)
             now == Full(g, R)
             owed == c.outstanding
  <2>3. id \in R => was + (IF rest = 0 THEN DustMinor ELSE rest) = now + owed
    BY <1>6, <1>10, <2>2
  <2>4. id \notin R => was = now
    BY <2>2
  <2>5. was \in Nat /\ now \in Nat /\ owed \in Nat
    BY <1>5, <2>1
  <2>6. owed = take + rest \/ (rest = 0 /\ owed <= take + DustMinor)
    BY <1>1
  <2> HIDE DEF was, now, owed
  <2>7. was <= now + (IF id \in R THEN take ELSE 0)
    BY <1>2, <2>3, <2>4, <2>5, <2>6
  <2> QED  BY <2>5, <2>7 DEF was, now
<1>12. Shed(f, g, take)
  <2> SUFFICES ASSUME NEW R \in SUBSET DOMAIN f
               PROVE  Full(f, R) <= Full(g, R) + take
    BY DEF Shed
  <2> QED  BY <1>11
<1> DEFINE j == <<c.creditor, due>>
<1>13. j \in Pairs
  BY <1>5 DEF Pairs
<1>14. \A T : Promised(B, T) = Promised(A, T) + (IF j \in T THEN take ELSE 0) /\ Promised(A, T) \in Nat
  <2> SUFFICES ASSUME NEW T
               PROVE  Promised(B, T) = Promised(A, T) + (IF j \in T THEN take ELSE 0) /\ Promised(A, T) \in Nat
    OBVIOUS
  <2>1. B = Added(A, j, a) /\ a.amount = AmountIn(A, j) + take
    BY <1>1
  <2> HIDE DEF j, A, B
  <2>2. Promised(Added(A, j, a), T) = Promised(A, T) + (IF j \in T THEN take ELSE 0)
    BY <1>2, <1>13, <2>1, PromisedMore
  <2>3. Promised(A, T) \in Nat
    BY <1>2, PromisedType
  <2> QED  BY <2>1, <2>2, <2>3
<1>15. Replaced(f, A, g, B)
  <2> SUFFICES ASSUME NEW R \in SUBSET DOMAIN f, NEW T \in SUBSET Pairs, Covers(f, R, T)
               PROVE  Full(f, R) + Promised(A, T) <= Full(g, R) + Promised(B, T)
    BY DEF Replaced
  <2>1. id \in R => j \in T
    BY <1>1 DEF Covers
  <2>2. Promised(B, T) = Promised(A, T) + (IF j \in T THEN take ELSE 0) /\ Promised(A, T) \in Nat
    BY <1>14
  <2> DEFINE was == Full(f, R)
             now == Full(g, R)
             before == Promised(A, T)
             after == Promised(B, T)
  <2>3. was \in Nat /\ now \in Nat /\ was <= now + (IF id \in R THEN take ELSE 0)
    BY <1>11
  <2> HIDE DEF was, now, before, after, j
  <2>4. was + before <= now + after
    BY <2>1, <2>2, <2>3 DEF before, after
  <2> QED  BY <2>4 DEF was, now, before, after
<1>16. Heavy(A) => Heavy(B)
  <2> SUFFICES ASSUME Heavy(A), NEW i \in DOMAIN B
               PROVE  B[i].amount > DustMinor
    BY DEF Heavy
  <2>1. i \in DOMAIN A \cup {j} /\ B[i] = IF i = j THEN a ELSE A[i]
    BY <1>1 DEF Added
  <2>2. AmountIn(A, j) \in Nat
    BY <1>2, SlotTypes DEF AmountIn
  <2>3. a.amount > DustMinor
    BY <1>1, <1>2, <2>2
  <2>4. CASE i = j
    BY <2>1, <2>3, <2>4
  <2>5. CASE i # j
    BY <2>1, <2>5 DEF Heavy
  <2> QED  BY <2>4, <2>5
<1>17. Promised(B, Pairs) = Promised(A, Pairs) + take
  BY <1>13, <1>14
<1>18. x.cleared = s.cleared + take /\ x.cleared <= share
  BY <1>1
<1>19. Moves(s, x, {c.debtor}, buyer, take)
  BY <1>1, <1>4, <1>8, <1>9, <1>12, <1>15, <1>16, <1>17 DEF Moves
<1> QED  BY <1>1, <1>18, <1>19

\* One original after another, whichever flows they took.
LEMMA ClearedKeeps ==
    ASSUME NEW b, Ready, epoch \in Nat, NEW buyer \in Members, NEW s, Midway(s, b, buyer), NEW debtor,
           NEW share \in Int, NEW date \in Nat, epoch <= date,
           NEW x \in ClearedDebts(s, debtor, buyer, share, date)
    PROVE  /\ Midway(x, b, buyer) /\ x.visited = s.visited /\ x.todo = s.todo
           /\ Moves(s, x, {debtor}, buyer, x.cleared) /\ (share \in Nat => x.cleared <= share)
<1> DEFINE due == {id \in DOMAIN s.book.rows :
                      /\ s.book.rows[id].status = "Active" /\ s.book.rows[id].outstanding > DustMinor
                      /\ s.book.rows[id].debtor = debtor /\ s.book.rows[id].creditor # buyer}
           n == Cardinality(due)
           ids == OwnDebts(s.book, debtor, buyer)
           z == [s EXCEPT !.cleared = 0]
           Fit(y) == /\ Midway(y, b, buyer) /\ Kin(s.book, y.book)
                     /\ y.visited = s.visited /\ y.todo = s.todo
                     /\ Moves(s, y, {debtor}, buyer, y.cleared) /\ (share \in Nat => y.cleared <= share)
           W == {y \in Cascades : Fit(y)}
           V == SUBSET W
           step(Y, id) == UNION {Routed(y, buyer, id, share, date) : y \in Y}
           G == [k \in 1..n |-> [Y \in V |-> step(Y, ids[k])]]
           Eq(f) == f = [q \in SUBSET (1..n) |-> IF q = {} THEN {z} ELSE step(f[q \ {Max(q)}], ids[Max(q)])]
           it == CHOOSE f : Eq(f)
<1>1. n \in Nat /\ ids \in [1..n -> due]
  <2>1. s.book \in Books /\ s.book \in BookSet /\ s.book.rows \in RowFiles
    BY MidwayParts DEF Books, BookSet
  <2>2. due \in SUBSET Nat /\ IsFiniteSet(due)
    BY <2>1, FileTypes, FS_Subset
  <2>3. ids = Ascending(due)
    BY DEF OwnDebts
  <2> HIDE DEF due, ids
  <2> QED  BY <2>2, <2>3, AscendingLists
<1> HIDE DEF n, ids
<1>2. {z} \in V
  <2>1. /\ z \in Cascades /\ z.book = s.book /\ z.assumed = s.assumed /\ z.spent = s.spent /\ z.cleared = 0
        /\ z.visited = s.visited /\ z.todo = s.todo
    BY MidwayParts DEF Cascades
  <2> HIDE DEF z
  <2>2. Midway(z, b, buyer) /\ Kin(s.book, z.book)
    BY <2>1, KinSelf DEF Midway
  <2>3. Moves(s, z, {debtor}, buyer, 0)
    BY <2>1, MidwayParts, MovesSelf
  <2> QED  BY <2>1, <2>2, <2>3
<1>3. ASSUME NEW Y \in V, NEW id \in due
      PROVE  step(Y, id) \in V
  <2> SUFFICES ASSUME NEW y \in Y, NEW q \in Routed(y, buyer, id, share, date)
               PROVE  q \in W
    OBVIOUS
  <2>1. Fit(y) /\ y \in Cascades /\ y.cleared \in Nat /\ s \in Cascades
    BY MidwayParts
  <2>2. id \in DOMAIN y.book.rows /\ y.book.rows[id].status \in Moving /\ y.book.rows[id].creditor # buyer
    BY <2>1 DEF Kin, Moving
  <2>3. Midway(q, b, buyer) /\ Kin(y.book, q.book) /\ (q = y \/ Routes(y, q, id, share))
    BY <2>1, <2>2, RoutedKeeps
  <2>4. Kin(s.book, q.book) /\ q \in Cascades
    BY <2>1, <2>3, KinTwice DEF Midway
  <2>5. CASE q = y
    BY <2>1, <2>5
  <2>6. CASE Routes(y, q, id, share)
    <3>1. y.book.rows[id].debtor = debtor
      BY <2>1 DEF Moves, SameTerms, Remains
    <3>2. PICK k \in Nat : /\ Moves(y, q, {debtor}, buyer, k)
                           /\ q.cleared = y.cleared + k /\ q.cleared <= share
                           /\ q.visited = y.visited /\ q.todo = y.todo
      <4>1. /\ y \in Cascades /\ q \in Cascades /\ id \in DOMAIN y.book.rows
            /\ y.book.rows[id].creditor # buyer /\ Routes(y, q, id, share)
        BY <2>1, <2>2, <2>4, <2>6
      <4>2. \E k \in Nat : /\ Moves(y, q, {y.book.rows[id].debtor}, buyer, k)
                           /\ q.cleared = y.cleared + k /\ q.cleared <= share
                           /\ q.visited = y.visited /\ q.todo = y.todo
        BY <4>1, RoutesMove
      <4> QED  BY <3>1, <4>2
    <3>3. Moves(s, q, {debtor} \cup {debtor}, buyer, y.cleared + k)
      BY <2>1, <2>4, <3>2, MovesTwice
    <3>4. Moves(s, q, {debtor}, buyer, q.cleared)
      BY <3>2, <3>3
    <3> QED  BY <2>1, <2>3, <2>4, <3>2, <3>4
  <2> QED  BY <2>3, <2>5, <2>6
<1> HIDE DEF z, W, step
<1>4. G \in [1..n -> [V -> V]]
  <2> HIDE DEF V, due
  <2> QED  BY <1>1, <1>3
<1>5. PICK f \in [SUBSET (1..n) -> V] : Folds(f, {z}, G, n)
  <2> HIDE DEF G, V
  <2> QED  BY <1>1, <1>2, <1>4, FoldExists
<1>6. ASSUME NEW q \in SUBSET (1..n), q # {}
      PROVE  Max(q) \in 1..n /\ q \ {Max(q)} \in SUBSET (1..n)
  BY <1>1, <1>6, TopIsIn DEF Picks, Tops
<1>7. Eq(f)
  <2>1. \A q \in SUBSET (1..n) : f[q] = IF q = {} THEN {z} ELSE step(f[q \ {Max(q)}], ids[Max(q)])
    <3> HIDE DEF V
    <3> QED  BY <1>5, <1>6 DEF Folds
  <2> HIDE DEF V
  <2> QED  BY <1>5, <2>1
<1>8. Eq(it)
  <2> HIDE DEF Eq
  <2> QED  BY <1>7
<1>9. Iterates(it, {z}, G, n, V)
  <2> HIDE DEF it, V
  <2> QED  BY <1>6, <1>8 DEF Iterates
<1>10. it[1..n] \in V
  <2> HIDE DEF it, G, V
  <2> QED  BY <1>1, <1>2, <1>4, <1>9, FoldStays
<1>11. ClearedDebts(s, debtor, buyer, share, date) = it[1..n]
  <2>1. DOMAIN ids = 1..n
    BY <1>1
  <2>2. ClearedDebts(s, debtor, buyer, share, date) = FoldLeft(LAMBDA Y, id : step(Y, id), {z}, ids)
    BY DEF ClearedDebts, step, z, ids
  <2> QED  BY <2>1, <2>2 DEF FoldLeft, MapThenFoldSet
<1> HIDE DEF it
<1> QED  BY <1>10, <1>11 DEF W

\* One round of a share-out: the open targets take by weight, each up to its cap.
Offer(w, weight, i) == (w.left * weight[i]) \div Sum(Restrict(weight, w.open))
Sips(w, cap, weight) == [i \in w.open |-> Less(Offer(w, weight, i), cap[i] - w.alloc[i])]

Poured(w, cap, weight) ==
    LET take == Sips(w, cap, weight)
        alloc == [i \in DOMAIN cap |-> w.alloc[i] + IF i \in w.open THEN take[i] ELSE 0]
        open == {i \in w.open : alloc[i] < cap[i]}
    IN IF w.final \/ w.open = {} \/ w.left = 0 THEN w
       ELSE [alloc |-> alloc, open |-> open, left |-> w.left - Sum(take), final |-> open = w.open]

LEMMA WeightsType ==
    ASSUME NEW S, IsFiniteSet(S), S # {}, NEW weight, \A i \in S : weight[i] \in Nat \ {0}
    PROVE  Sum(Restrict(weight, S)) \in Nat \ {0}
<1> DEFINE f == Restrict(weight, S)
<1>1. DOMAIN f = S /\ \A i \in S : f[i] \in Nat \ {0}
  BY DEF Restrict
<1> HIDE DEF f
<1>2. PICK i \in S : TRUE
  OBVIOUS
<1>3. SumFunctionOnSet(f, S) = f[i] + SumFunctionOnSet(f, S \ {i})
  BY <1>1, SumSplit
<1>4. SumFunctionOnSet(f, S \ {i}) \in Nat
  <2>1. IsFiniteSet(S \ {i})
    BY FS_Subset
  <2> QED  BY <1>1, <2>1, SumIsNatural
<1> QED  BY <1>1, <1>3, <1>4, SumIs DEF f

\* What is offered by weight, rounded down, is there to be taken.
LEMMA OffersFit ==
    ASSUME NEW S, IsFiniteSet(S), S # {}, NEW weight, \A i \in S : weight[i] \in Nat \ {0}, NEW left \in Nat,
           NEW take \in [S -> Nat],
           \A i \in S : take[i] <= (left * weight[i]) \div Sum(Restrict(weight, S))
    PROVE  Sum(take) \in Nat /\ Sum(take) <= left
<1> DEFINE f == Restrict(weight, S)
           whole == Sum(f)
           scaled == [i \in S |-> take[i] * whole]
           offered == [i \in S |-> f[i] * left]
<1>1. whole \in Nat \ {0}
  BY WeightsType
<1>2. DOMAIN f = S /\ \A i \in S : f[i] \in Nat /\ f[i] = weight[i]
  BY DEF Restrict
<1>3. whole = SumFunctionOnSet(f, S)
  BY <1>2, SumIs
<1> HIDE DEF f, whole
<1>4. ASSUME NEW i \in S
      PROVE  scaled[i] \in Nat /\ offered[i] \in Nat /\ scaled[i] <= offered[i]
  <2> DEFINE x == left * weight[i]
             q == x \div whole
             z == take[i]
  <2>1. x \in Nat
    <3>1. weight[i] \in Nat
      OBVIOUS
    <3> QED  BY <3>1, ProductIsNatural
  <2>2. z \in Nat /\ z <= q
    BY DEF whole, f
  <2>3. x = f[i] * left
    <3>1. x = left * f[i]
      BY <1>2
    <3> QED  BY <1>2, <3>1
  <2> HIDE DEF x
  <2>4. q \in Nat /\ q * whole <= x
    BY <1>1, <2>1, QuotientFits
  <2> HIDE DEF q, z
  <2>5. z * whole <= q * whole /\ z * whole \in Nat
    BY <1>1, <2>2, <2>4, ProductGrows, ProductIsNatural
  <2>6. scaled[i] = z * whole /\ offered[i] = x
    BY <2>3 DEF z
  <2>7. z * whole <= x
    <3> DEFINE zw == z * whole
               qw == q * whole
    <3>1. zw \in Nat /\ qw \in Nat /\ zw <= qw /\ qw <= x
      BY <1>1, <2>4, <2>5, ProductIsNatural
    <3> HIDE DEF zw, qw
    <3>2. zw <= x
      BY <2>1, <3>1
    <3> QED  BY <3>2 DEF zw
  <2> QED  BY <2>1, <2>5, <2>6, <2>7
<1>5. SumFunctionOnSet(scaled, S) <= SumFunctionOnSet(offered, S)
  BY <1>4, SumMonotone
<1> DEFINE drunk == SumFunctionOnSet(take, S)
<1>6. SumFunctionOnSet(scaled, S) = drunk * whole
  BY <1>1, SumTimes
<1>7. SumFunctionOnSet(offered, S) = whole * left
  BY <1>2, <1>3, SumTimes
<1>8. drunk \in Nat /\ Sum(take) = drunk
  <2>1. DOMAIN take = S /\ \A i \in S : take[i] \in Nat
    OBVIOUS
  <2> QED  BY <2>1, SumIs, SumIsNatural
<1> HIDE DEF drunk
<1>9. drunk * whole <= left * whole
  <2>1. whole * left = left * whole
    BY <1>1
  <2> QED  BY <1>5, <1>6, <1>7, <2>1
<1>10. drunk <= left
  BY <1>1, <1>8, <1>9, FactorCancels
<1> QED  BY <1>8, <1>10

Pours(D) == [alloc : [D -> Nat], open : SUBSET D, left : Nat, final : BOOLEAN]

\* A share-out gives each target a number, never more than its cap, and what is
\* given with what is left makes the total.
Giving(w, cap, D, total) ==
    (\A i \in D : w.alloc[i] <= cap[i]) /\ SumFunctionOnSet(w.alloc, D) + w.left = total

LEMMA PouredKeeps ==
    ASSUME NEW D, IsFiniteSet(D), NEW cap \in [D -> Nat], NEW weight, \A i \in D : weight[i] \in Nat \ {0},
           NEW w \in Pours(D), NEW total \in Nat, Giving(w, cap, D, total)
    PROVE  Poured(w, cap, weight) \in Pours(D) /\ Giving(Poured(w, cap, weight), cap, D, total)
<1> DEFINE take == Sips(w, cap, weight)
           alloc == [i \in D |-> w.alloc[i] + IF i \in w.open THEN take[i] ELSE 0]
           open == {i \in w.open : alloc[i] < cap[i]}
           stays == w.final \/ w.open = {} \/ w.left = 0
           y == [alloc |-> alloc, open |-> open, left |-> w.left - Sum(take), final |-> open = w.open]
<1>1. Poured(w, cap, weight) = IF stays THEN w ELSE y
  <2>1. DOMAIN cap = D
    OBVIOUS
  <2> QED  BY <2>1 DEF Poured
<1>2. CASE stays
  BY <1>1, <1>2
<1>3. CASE ~stays
  <2>1. w.open \in SUBSET D /\ w.open # {} /\ w.left \in Nat /\ w.alloc \in [D -> Nat] /\ IsFiniteSet(w.open)
    BY <1>3, FS_Subset DEF Pours
  <2>2. ASSUME NEW i \in w.open
        PROVE  take[i] \in Nat /\ take[i] <= Offer(w, weight, i) /\ take[i] <= cap[i] - w.alloc[i]
    <3> DEFINE part == Sum(Restrict(weight, w.open))
    <3>1. part \in Nat \ {0}
      BY <2>1, WeightsType
    <3>2. w.left * weight[i] \in Nat
      <4>1. weight[i] \in Nat
        BY <2>1
      <4> QED  BY <2>1, <4>1, ProductIsNatural
    <3>3. Offer(w, weight, i) \in Nat
      <4> HIDE DEF part
      <4>1. (w.left * weight[i]) \div part \in Nat
        BY <3>1, <3>2, QuotientIsNatural
      <4> QED  BY <4>1 DEF Offer, part
    <3>4. cap[i] - w.alloc[i] \in Nat
      BY <2>1 DEF Giving
    <3>5. take[i] = Less(Offer(w, weight, i), cap[i] - w.alloc[i])
      BY DEF Sips
    <3> QED  BY <3>3, <3>4, <3>5, LessType
  <2>3. take \in [w.open -> Nat]
    BY <2>2 DEF Sips
  <2> HIDE DEF take
  <2>4. Sum(take) \in Nat /\ Sum(take) <= w.left
    <3>1. \A i \in w.open : weight[i] \in Nat \ {0} /\ take[i] <= (w.left * weight[i]) \div Sum(Restrict(weight, w.open))
      BY <2>1, <2>2 DEF Offer
    <3> QED  BY <2>1, <2>3, <3>1, OffersFit
  <2>5. w.left - Sum(take) \in Nat
    BY <2>1, <2>4
  <2>6. \A i \in D : alloc[i] \in Nat /\ alloc[i] <= cap[i]
    BY <2>1, <2>2 DEF Giving
  <2>7. alloc \in [D -> Nat] /\ open \in SUBSET D /\ (open = w.open) \in BOOLEAN
    BY <2>1, <2>6
  <2>8. Poured(w, cap, weight) = y
    BY <1>1, <1>3
  <2>10. SumFunctionOnSet(alloc, D) = SumFunctionOnSet(w.alloc, D) + Sum(take)
    <3> DEFINE f == w.alloc
               h == [i \in D |-> IF i \in w.open THEN take[i] ELSE 0]
               O == w.open
    <3>1. \A i \in D : f[i] \in Nat /\ h[i] \in Nat /\ alloc[i] = f[i] + h[i]
      BY <2>1, <2>3
    <3>2. \A i \in D \ O : h[i] = 0
      OBVIOUS
    <3>3. \A i \in O : h[i] \in Nat /\ h[i] = take[i]
      BY <2>1, <2>3
    <3>4. O \in SUBSET D /\ IsFiniteSet(O) /\ DOMAIN take = O /\ \A i \in O : take[i] \in Nat
      BY <2>1, <2>3
    <3> HIDE DEF f, h, O, alloc, open
    <3>5. SumFunctionOnSet(alloc, D) = SumFunctionOnSet(f, D) + SumFunctionOnSet(h, D)
      BY <3>1, SumPlus
    <3>6. SumFunctionOnSet(h, D) = SumFunctionOnSet(h, O)
      BY <3>1, <3>2, <3>4, SumOnSupport
    <3>7. SumFunctionOnSet(h, O) = SumFunctionOnSet(take, O)
      BY <3>3, <3>4, SumCongruent
    <3>8. SumFunctionOnSet(take, O) = Sum(take)
      BY <3>4, SumIs
    <3> QED  BY <3>5, <3>6, <3>7, <3>8 DEF f
  <2>11. SumFunctionOnSet(alloc, D) + (w.left - Sum(take)) = total
    <3>1. SumFunctionOnSet(w.alloc, D) \in Nat
      BY <2>1, SumIsNatural
    <3>2. SumFunctionOnSet(w.alloc, D) + w.left = total
      BY DEF Giving
    <3> HIDE DEF alloc, open
    <3> QED  BY <2>1, <2>4, <2>10, <3>1, <3>2
  <2> HIDE DEF alloc, open
  <2>9. y \in Pours(D) /\ y.alloc = alloc /\ y.left = w.left - Sum(take)
    BY <2>5, <2>7 DEF Pours
  <2>12. Giving(y, cap, D, total)
    BY <2>6, <2>9, <2>11 DEF Giving
  <2> QED  BY <2>8, <2>9, <2>12
<1> QED  BY <1>2, <1>3

LEMMA WaterfillType ==
    ASSUME NEW D, IsFiniteSet(D), NEW cap \in [D -> Nat], NEW weight, \A i \in D : weight[i] \in Nat \ {0},
           NEW total \in Nat
    PROVE  /\ Waterfill(cap, weight, total) \in [D -> Nat]
           /\ \A i \in D : Waterfill(cap, weight, total)[i] <= cap[i]
           /\ SumFunctionOnSet(Waterfill(cap, weight, total), D) <= total
<1> DEFINE n == Cardinality(D)
           x == [alloc |-> [i \in DOMAIN cap |-> 0], open |-> {i \in DOMAIN cap : cap[i] > 0},
                 left |-> total, final |-> FALSE]
           V == {w \in Pours(D) : Giving(w, cap, D, total)}
           step(w) == Poured(w, cap, weight)
           G == [k \in 1..n |-> [w \in V |-> step(w)]]
           Eq(f) == f = [q \in SUBSET (1..n) |-> IF q = {} THEN x ELSE step(f[q \ {Max(q)}])]
           it == CHOOSE f : Eq(f)
<1>1. n \in Nat /\ DOMAIN cap = D
  BY FS_CardinalityType
<1>2. x \in V
  <2>1. \A i \in D : cap[i] \in Nat
    OBVIOUS
  <2>2. x = [alloc |-> [i \in D |-> 0], open |-> {i \in D : cap[i] > 0}, left |-> total, final |-> FALSE]
    BY <1>1
  <2> HIDE DEF x
  <2>3. x \in Pours(D) /\ x.left = total /\ \A i \in D : x.alloc[i] = 0
    BY <2>2 DEF Pours
  <2>4. SumFunctionOnSet(x.alloc, D) = 0
    BY <2>3, SumOfZeros
  <2> QED  BY <2>1, <2>3, <2>4 DEF Giving
<1>3. \A w \in V : step(w) \in V
  <2> SUFFICES ASSUME NEW w \in V
               PROVE  step(w) \in V
    OBVIOUS
  <2>1. w \in Pours(D) /\ Giving(w, cap, D, total)
    OBVIOUS
  <2>2. step(w) \in Pours(D) /\ Giving(step(w), cap, D, total)
    BY <2>1, PouredKeeps
  <2> HIDE DEF step
  <2> QED  BY <2>2
<1> HIDE DEF x, step, n
<1>4. G \in [1..n -> [V -> V]]
  <2> HIDE DEF V
  <2> QED  BY <1>3
<1>5. PICK f \in [SUBSET (1..n) -> V] : Folds(f, x, G, n)
  <2> HIDE DEF G, V
  <2> QED  BY <1>1, <1>2, <1>4, FoldExists
<1>6. ASSUME NEW q \in SUBSET (1..n), q # {}
      PROVE  Max(q) \in 1..n /\ q \ {Max(q)} \in SUBSET (1..n)
  BY <1>1, <1>6, TopIsIn DEF Picks, Tops
<1>7. Eq(f)
  <2>1. \A q \in SUBSET (1..n) : f[q] = IF q = {} THEN x ELSE step(f[q \ {Max(q)}])
    <3> HIDE DEF V
    <3> QED  BY <1>5, <1>6 DEF Folds
  <2> HIDE DEF V
  <2> QED  BY <1>5, <2>1
<1>8. Eq(it)
  <2> HIDE DEF Eq
  <2> QED  BY <1>7
<1>9. Iterates(it, x, G, n, V)
  <2> HIDE DEF it, V
  <2> QED  BY <1>6, <1>8 DEF Iterates
<1>10. it[1..n] \in V
  <2> HIDE DEF it, G, V
  <2> QED  BY <1>1, <1>2, <1>4, <1>9, FoldStays
<1>11. Waterfill(cap, weight, total) = it[1..n].alloc
  <2> DEFINE ks == [k \in 1..Cardinality(DOMAIN cap) |-> k]
  <2>1. DOMAIN ks = 1..n
    BY <1>1 DEF n
  <2>2. Waterfill(cap, weight, total) = FoldLeft(LAMBDA w, k : step(w), x, ks).alloc
    BY DEF Waterfill, step, x, Poured, Sips, Offer
  <2> HIDE DEF ks
  <2> QED  BY <2>1, <2>2 DEF FoldLeft, MapThenFoldSet
<1> HIDE DEF it
<1> DEFINE w == it[1..n]
<1>12. w \in Pours(D) /\ Giving(w, cap, D, total)
  BY <1>10
<1> HIDE DEF w
<1>13. w.alloc \in [D -> Nat] /\ w.left \in Nat
  BY <1>12 DEF Pours
<1>14. SumFunctionOnSet(w.alloc, D) <= total
  <2>1. SumFunctionOnSet(w.alloc, D) \in Nat
    BY <1>13, SumIsNatural
  <2> QED  BY <1>12, <1>13, <2>1 DEF Giving
<1> QED  BY <1>11, <1>12, <1>13, <1>14 DEF Giving, w

\* What the shares still to drain come to.
Pending(q) == SumFunctionOnSet([i \in 1..Len(q) |-> q[i].amount], 1..Len(q))

LEMMA FirstNumbers ==
    ASSUME NEW n \in Nat
    PROVE  /\ IsFiniteSet(1..n) /\ IsFiniteSet(1..n + 1)
           /\ (1..n + 1) \ {n + 1} = 1..n /\ n + 1 \in 1..n + 1
<1>1. 1 \in Int /\ n \in Int /\ n + 1 \in Int
  OBVIOUS
<1>2. IsFiniteSet(1..n) /\ IsFiniteSet(1..n + 1)
  BY <1>1, FS_Interval
<1> QED  BY <1>2

LEMMA PendingType ==
    ASSUME NEW q \in Seq(Turn)
    PROVE  /\ \A i \in 1..Len(q) : q[i] \in Turn /\ q[i].amount \in Nat
           /\ Pending(q) \in Nat /\ Pending(<<>>) = 0
<1>1. \A i \in 1..Len(q) : q[i] \in Turn
  OBVIOUS
<1>2. \A i \in 1..Len(q) : q[i].amount \in Nat
  BY <1>1 DEF Turn
<1>3. Pending(q) \in Nat
  <2>1. Len(q) \in Nat
    OBVIOUS
  <2>2. IsFiniteSet(1..Len(q))
    BY <2>1, FirstNumbers
  <2> QED  BY <1>2, <2>2, SumIsNatural DEF Pending
<1>4. Pending(<<>>) = 0
  <2>1. 1..Len(<<>>) = {}
    OBVIOUS
  <2> QED  BY <2>1, SumOfNothing DEF Pending
<1> QED  BY <1>1, <1>2, <1>3, <1>4

LEMMA PendingAdds ==
    ASSUME NEW p \in Seq(Turn), NEW q \in Seq(Turn)
    PROVE  p \o q \in Seq(Turn) /\ Pending(p \o q) = Pending(p) + Pending(q)
<1> DEFINE m == Len(p)
           n == Len(q)
           r == p \o q
           f == [i \in 1..m |-> p[i].amount]
           g == [i \in 1..n |-> q[i].amount]
           h == [i \in 1..Len(r) |-> r[i].amount]
           P == {j \in Nat : j <= n => SumFunctionOnSet(h, 1..m + j) = SumFunctionOnSet(f, 1..m) + SumFunctionOnSet(g, 1..j)}
<1>1. /\ m \in Nat /\ n \in Nat /\ r \in Seq(Turn) /\ Len(r) = m + n
      /\ \A i \in 1..m : r[i] = p[i]
      /\ \A j \in 1..n : r[m + j] = q[j]
  OBVIOUS
<1>2. /\ \A i \in 1..m : f[i] \in Nat /\ f[i] = p[i].amount
      /\ \A j \in 1..n : g[j] \in Nat /\ g[j] = q[j].amount
      /\ \A i \in 1..m + n : h[i] \in Nat /\ h[i] = r[i].amount
  <2>1. /\ \A i \in 1..m : p[i].amount \in Nat
        /\ \A j \in 1..n : q[j].amount \in Nat
    BY PendingType
  <2>2. \A i \in 1..Len(r) : r[i].amount \in Nat
    <3> HIDE DEF r
    <3> QED  BY <1>1, PendingType
  <2> HIDE DEF r
  <2> QED  BY <1>1, <2>1, <2>2
<1>3. SumFunctionOnSet(h, 1..m) = SumFunctionOnSet(f, 1..m)
  <2>1. \A i \in 1..m : h[i] = f[i] /\ h[i] \in Nat
    <3> SUFFICES ASSUME NEW i \in 1..m
                 PROVE  h[i] = f[i] /\ h[i] \in Nat
      OBVIOUS
    <3>1. i \in 1..m + n /\ r[i] = p[i]
      BY <1>1
    <3> HIDE DEF h, f, r
    <3> QED  BY <1>2, <3>1
  <2> HIDE DEF h, f, r
  <2> QED  BY <1>1, <2>1, FirstNumbers, SumCongruent
<1> HIDE DEF f, g, h, m, n, r
<1>4. 0 \in P
  <2>1. 1..0 = {} /\ m + 0 = m
    BY <1>1
  <2>2. SumFunctionOnSet(g, 1..0) = 0
    BY <2>1, SumOfNothing
  <2>3. SumFunctionOnSet(f, 1..m) \in Nat
    BY <1>1, <1>2, FirstNumbers, SumIsNatural
  <2> QED  BY <1>3, <2>1, <2>2, <2>3
<1>5. ASSUME NEW j \in Nat, j \in P
      PROVE  j + 1 \in P
  <2>1. SUFFICES ASSUME j + 1 <= n
                 PROVE  SumFunctionOnSet(h, 1..m + (j + 1)) = SumFunctionOnSet(f, 1..m) + SumFunctionOnSet(g, 1..j + 1)
    BY <1>5
  <2>2. SumFunctionOnSet(h, 1..m + j) = SumFunctionOnSet(f, 1..m) + SumFunctionOnSet(g, 1..j)
    BY <1>1, <1>5, <2>1
  <2>3. m + j \in Nat /\ m + (j + 1) = (m + j) + 1 /\ j + 1 \in 1..n
    BY <1>1, <2>1
  <2>4. SumFunctionOnSet(h, 1..(m + j) + 1) = h[(m + j) + 1] + SumFunctionOnSet(h, 1..m + j)
    <3> DEFINE k == m + j
    <3>1. \A i \in 1..k + 1 : h[i] \in Nat
      BY <1>1, <1>2, <2>1
    <3>2. k \in Nat
      BY <2>3
    <3> HIDE DEF k
    <3>3. IsFiniteSet(1..k + 1) /\ k + 1 \in 1..k + 1 /\ (1..k + 1) \ {k + 1} = 1..k
      BY <3>2, FirstNumbers
    <3>4. SumFunctionOnSet(h, 1..k + 1) = h[k + 1] + SumFunctionOnSet(h, (1..k + 1) \ {k + 1})
      BY <3>1, <3>3, SumSplit
    <3>5. SumFunctionOnSet(h, 1..k + 1) = h[k + 1] + SumFunctionOnSet(h, 1..k)
      BY <3>3, <3>4
    <3> QED  BY <3>5 DEF k
  <2>5. SumFunctionOnSet(g, 1..j + 1) = g[j + 1] + SumFunctionOnSet(g, 1..j)
    <3>1. \A i \in 1..j + 1 : g[i] \in Nat
      BY <1>1, <1>2, <2>1
    <3>2. IsFiniteSet(1..j + 1) /\ j + 1 \in 1..j + 1 /\ (1..j + 1) \ {j + 1} = 1..j
      BY FirstNumbers
    <3>3. SumFunctionOnSet(g, 1..j + 1) = g[j + 1] + SumFunctionOnSet(g, (1..j + 1) \ {j + 1})
      BY <3>1, <3>2, SumSplit
    <3> QED  BY <3>2, <3>3
  <2>6. h[(m + j) + 1] = g[j + 1] /\ g[j + 1] \in Nat
    <3>1. (m + j) + 1 = m + (j + 1) /\ m + (j + 1) \in 1..m + n
      BY <1>1, <2>1
    <3>2. r[m + (j + 1)] = q[j + 1]
      BY <1>1, <2>3
    <3> QED  BY <1>2, <2>3, <3>1, <3>2
  <2>7. SumFunctionOnSet(f, 1..m) \in Nat /\ SumFunctionOnSet(g, 1..j) \in Nat
    <3>1. \A i \in 1..j : g[i] \in Nat
      BY <1>1, <1>2, <2>1
    <3> QED  BY <1>1, <1>2, <3>1, FirstNumbers, SumIsNatural
  <2> DEFINE a == SumFunctionOnSet(f, 1..m)
             c == SumFunctionOnSet(g, 1..j)
             d == g[j + 1]
  <2>8. SumFunctionOnSet(h, 1..m + (j + 1)) = d + (a + c) /\ SumFunctionOnSet(g, 1..j + 1) = d + c
    BY <2>2, <2>3, <2>4, <2>5, <2>6
  <2>9. a \in Nat /\ c \in Nat /\ d \in Nat
    BY <2>6, <2>7
  <2> HIDE DEF a, c, d
  <2>10. d + (a + c) = a + (d + c)
    BY <2>9
  <2> QED  BY <2>8, <2>10 DEF a
<1>6. n \in P
  <2> HIDE DEF P
  <2> QED  BY <1>1, <1>4, <1>5, NumberInduction
<1>7. SumFunctionOnSet(h, 1..m + n) = SumFunctionOnSet(f, 1..m) + SumFunctionOnSet(g, 1..n)
  BY <1>1, <1>6
<1>8. /\ Pending(r) = SumFunctionOnSet(h, 1..m + n)
      /\ Pending(p) = SumFunctionOnSet(f, 1..m) /\ Pending(q) = SumFunctionOnSet(g, 1..n)
  <2>1. Pending(r) = SumFunctionOnSet(h, 1..Len(r))
    BY DEF Pending, h
  <2>2. Pending(p) = SumFunctionOnSet(f, 1..m)
    BY DEF Pending, f, m
  <2>3. Pending(q) = SumFunctionOnSet(g, 1..n)
    BY DEF Pending, g, n
  <2> QED  BY <1>1, <2>1, <2>2, <2>3
<1> QED  BY <1>1, <1>7, <1>8 DEF r

LEMMA PendingTail ==
    ASSUME NEW q \in Seq(Turn), q # <<>>
    PROVE  /\ Head(q) \in Turn /\ Tail(q) \in Seq(Turn) /\ Len(Tail(q)) = Len(q) - 1 /\ Len(q) \in Nat
           /\ Pending(q) = Head(q).amount + Pending(Tail(q))
           /\ q[1] = Head(q) /\ 1 \in 1..Len(q)
           /\ \A i \in 1..Len(Tail(q)) : Tail(q)[i] = q[i + 1] /\ i + 1 \in 1..Len(q)
<1> DEFINE t == Head(q)
           u == Tail(q)
           one == <<t>>
<1>1. /\ t \in Turn /\ u \in Seq(Turn) /\ Len(u) = Len(q) - 1 /\ Len(q) \in Nat /\ q[1] = t /\ 1 \in 1..Len(q)
      /\ \A i \in 1..Len(u) : u[i] = q[i + 1] /\ i + 1 \in 1..Len(q)
  OBVIOUS
<1>2. q = one \o u
  OBVIOUS
<1>3. one \in Seq(Turn) /\ Len(one) = 1 /\ one[1] = t
  BY <1>1
<1> HIDE DEF one, u, t
<1>4. Pending(q) = Pending(one) + Pending(u)
  BY <1>1, <1>2, <1>3, PendingAdds
<1>5. Pending(one) = t.amount
  <2> DEFINE f == [i \in 1..Len(one) |-> one[i].amount]
  <2>1. 1..Len(one) = {1} /\ f[1] = t.amount /\ t.amount \in Nat
    BY <1>1, <1>3 DEF Turn
  <2>2. Pending(one) = SumFunctionOnSet(f, {1})
    BY <2>1 DEF Pending
  <2> HIDE DEF f
  <2>3. IsFiniteSet({1}) /\ {1} \ {1} = {} /\ \A i \in {1} : f[i] \in Nat
    BY <2>1, FS_Singleton
  <2>4. SumFunctionOnSet(f, {1}) = f[1] + SumFunctionOnSet(f, {1} \ {1})
    BY <2>3, SumSplit
  <2>5. SumFunctionOnSet(f, {1}) = f[1] + 0
    BY <2>3, <2>4, SumOfNothing
  <2> QED  BY <2>1, <2>2, <2>5
<1> QED  BY <1>1, <1>4, <1>5 DEF t, u

\* An order of the members of U, each of them once.
Lists(us, n, U) ==
    /\ us \in [1..n -> U]
    /\ \A i, j \in 1..n : us[i] = us[j] => i = j
    /\ \A u \in U : \E i \in 1..n : us[i] = u

\* A sum over a set, taken in that order.
LEMMA SumInOrder ==
    ASSUME NEW U, IsFiniteSet(U), NEW w, \A u \in U : w[u] \in Nat, NEW n \in Nat, NEW us, Lists(us, n, U),
           NEW g, \A i \in 1..n : g[i] = w[us[i]]
    PROVE  SumFunctionOnSet(g, 1..n) = SumFunctionOnSet(w, U)
<1> DEFINE first(k) == {us[j] : j \in 1..k}
           P == {k \in Nat : k <= n => SumFunctionOnSet(g, 1..k) = SumFunctionOnSet(w, first(k))}
<1>5. /\ us \in [1..n -> U] /\ \A i, j \in 1..n : us[i] = us[j] => i = j
      /\ \A u \in U : \E i \in 1..n : us[i] = u
  BY DEF Lists
<1>1. 0 \in P
  <2>1. 1..0 = {} /\ first(0) = {}
    OBVIOUS
  <2> HIDE DEF first
  <2> QED  BY <2>1, SumOfNothing
<1>2. ASSUME NEW k \in Nat, k \in P
      PROVE  k + 1 \in P
  <2>1. SUFFICES ASSUME k + 1 <= n
                 PROVE  SumFunctionOnSet(g, 1..k + 1) = SumFunctionOnSet(w, first(k + 1))
    BY <1>2
  <2>2. SumFunctionOnSet(g, 1..k) = SumFunctionOnSet(w, first(k))
    BY <1>2, <2>1
  <2> DEFINE x == us[k + 1]
  <2>3. x \in first(k + 1) /\ first(k + 1) \ {x} = first(k) /\ first(k + 1) \in SUBSET U
    <3>1. k + 1 \in 1..k + 1 /\ k + 1 \in 1..n /\ \A j \in 1..k + 1 : j \in 1..n
      BY <2>1
    <3>2. \A j \in 1..k + 1 : j # k + 1 => j \in 1..k
      OBVIOUS
    <3>3. \A j \in 1..k : j \in 1..k + 1 /\ j # k + 1
      OBVIOUS
    <3>4. x \in first(k + 1) /\ first(k + 1) \in SUBSET U
      BY <1>5, <3>1
    <3>5. first(k + 1) \ {x} \subseteq first(k)
      BY <3>1, <3>2
    <3>6. first(k) \subseteq first(k + 1) \ {x}
      BY <1>5, <3>1, <3>3
    <3> HIDE DEF first
    <3> QED  BY <3>4, <3>5, <3>6
  <2>4. g[k + 1] = w[x] /\ \A i \in 1..k + 1 : g[i] \in Nat
    BY <1>5, <2>1
  <2> HIDE DEF first, x
  <2>5. SumFunctionOnSet(w, first(k + 1)) = w[x] + SumFunctionOnSet(w, first(k))
    <3>1. IsFiniteSet(first(k + 1)) /\ \A u \in first(k + 1) : w[u] \in Nat
      BY <2>3, FS_Subset
    <3>2. SumFunctionOnSet(w, first(k + 1)) = w[x] + SumFunctionOnSet(w, first(k + 1) \ {x})
      BY <2>3, <3>1, SumSplit
    <3> QED  BY <2>3, <3>2
  <2>6. SumFunctionOnSet(g, 1..k + 1) = g[k + 1] + SumFunctionOnSet(g, 1..k)
    <3>1. IsFiniteSet(1..k + 1) /\ k + 1 \in 1..k + 1 /\ (1..k + 1) \ {k + 1} = 1..k
      BY FirstNumbers
    <3> DEFINE N == 1..k + 1
               e == k + 1
    <3>2. IsFiniteSet(N) /\ e \in N /\ N \ {e} = 1..k /\ \A i \in N : g[i] \in Nat
      BY <2>4, <3>1
    <3> HIDE DEF N, e
    <3>3. SumFunctionOnSet(g, N) = g[e] + SumFunctionOnSet(g, N \ {e})
      BY <3>2, SumSplit
    <3>4. SumFunctionOnSet(g, N) = g[e] + SumFunctionOnSet(g, 1..k)
      BY <3>2, <3>3
    <3> QED  BY <3>4 DEF N, e
  <2> QED  BY <2>2, <2>4, <2>5, <2>6
<1>3. n \in P
  <2> HIDE DEF P
  <2> QED  BY <1>1, <1>2, NumberInduction
<1>4. first(n) = U
  BY <1>5
<1> HIDE DEF first
<1> QED  BY <1>3, <1>4

\* A state of a sale with another list of what is to drain, and of who was.
LEMMA AnotherTurn ==
    ASSUME NEW b, NEW buyer, NEW s, Midway(s, b, buyer), NEW todo \in Seq(Turn), NEW visited \in SUBSET Members
    PROVE  Midway([s EXCEPT !.todo = todo, !.visited = visited], b, buyer)
<1> DEFINE x == [s EXCEPT !.todo = todo, !.visited = visited]
<1>1. x \in Cascades /\ x.book = s.book /\ x.assumed = s.assumed
  BY DEF Cascades, Midway
<1> HIDE DEF x
<1> QED  BY <1>1 DEF Midway, x

\* Members list members, with weights.
Weighed ==
    \A m \in Members : /\ DOMAIN beneficiaries[m] \subseteq Members
                       /\ \A n \in DOMAIN beneficiaries[m] : beneficiaries[m][n] \in Nat

LEMMA DrainCapType ==
    ASSUME NEW b \in BookSet, NEW lister \in Members, NEW m \in Members
    PROVE  DrainCap(b, lister, m) \in Nat
<1>1. CASE m = lister
  BY <1>1 DEF DrainCap, BookSet, Purses
<1>2. CASE m # lister
  <2>1. <<lister, m>> \in Arcs /\ <<m, lister>> \in Arcs
    BY <1>2 DEF Arcs
  <2>2. PairStake(b, lister, m) \in Nat
    BY <2>1 DEF PairStake, BookSet
  <2>3. NuNum \in Nat /\ NuDen \in Nat \ {0}
    BY SaleAssumption
  <2> DEFINE x == PairStake(b, lister, m) * NuNum
  <2>4. x \in Nat
    BY <2>2, <2>3, ProductIsNatural
  <2> HIDE DEF x
  <2>5. x \div NuDen \in Nat
    BY <2>3, <2>4, QuotientIsNatural
  <2> QED  BY <1>2, <2>5 DEF DrainCap, x
<1> QED  BY <1>1, <1>2

\* A share of a listing: of a member that listed itself the seller's, else of
\* one that agreed to the lister, and never more than the cap.
Fair(t, b, seller) ==
    IF t.member = t.lister THEN t.member = seller
    ELSE /\ t.lister \in approved[t.member] /\ t.member \in DOMAIN beneficiaries[t.lister]
         /\ t.amount <= DrainCap(b, t.lister, t.member)

LEMMA LevelType ==
    ASSUME Ready, Weighed, NEW b, NEW buyer, NEW s, Midway(s, b, buyer), NEW lister \in Members,
           NEW budget \in Int, NEW depth \in Nat
    PROVE  LET q == Level(s, lister, budget, depth)
           IN /\ q \in Seq(Turn) /\ (budget \in Nat => Pending(q) <= budget)
              /\ \A i \in 1..Len(q) : /\ q[i].lister = lister /\ q[i].member \notin s.visited
                                      /\ Fair(q[i], s.book, lister)
<1> DEFINE ms == Targets(s, lister)
           cap == [m \in ms |-> DrainCap(s.book, lister, m)]
           weight == Restrict(beneficiaries[lister], ms)
           alloc == Waterfill(cap, weight, budget)
           n == Cardinality(ms)
           order == Ascending(ms)
           turns == [i \in 1..n |-> [member |-> order[i], lister |-> lister, amount |-> alloc[order[i]], depth |-> depth]]
           stops == depth > MaxDepth \/ budget <= DustMinor \/ ms = {}
<1>1. ms \in SUBSET Members /\ \A m \in ms : beneficiaries[lister][m] \in Nat \ {0}
  BY DEF Targets, Weighed
<1>2. ms \in SUBSET Nat /\ IsFiniteSet(ms)
  BY <1>1, MembersAssumption, FS_Subset
<1>3. Level(s, lister, budget, depth) = IF stops THEN <<>> ELSE turns
  BY DEF Level
<1>6. \A m \in ms : /\ m \notin s.visited /\ m \in DOMAIN beneficiaries[lister]
                      /\ (m = lister \/ lister \in approved[m])
  BY DEF Targets
<1> HIDE DEF ms
<1> DEFINE q == Level(s, lister, budget, depth)
<1>7. SUFFICES /\ q \in Seq(Turn) /\ (budget \in Nat => Pending(q) <= budget)
               /\ \A i \in 1..Len(q) : /\ q[i].lister = lister /\ q[i].member \notin s.visited
                                       /\ Fair(q[i], s.book, lister)
  OBVIOUS
<1>4. CASE stops
  <2>1. q = <<>>
    BY <1>3, <1>4
  <2> HIDE DEF q
  <2>2. <<>> \in Seq(Turn) /\ Len(<<>>) = 0 /\ 1..0 = {}
    OBVIOUS
  <2>3. Pending(<<>>) = 0
    BY <2>2, PendingType
  <2> QED  BY <2>1, <2>2, <2>3
<1>5. CASE ~stops
  <2>1. budget \in Nat
    BY <1>5 DEF Ready
  <2>2. cap \in [ms -> Nat]
    <3>1. s.book \in BookSet
      BY MidwayParts DEF Books
    <3> QED  BY <1>1, <3>1, DrainCapType
  <2>3. \A m \in ms : weight[m] \in Nat \ {0}
    BY <1>1 DEF Restrict
  <2> HIDE DEF cap, weight
  <2>4. /\ alloc \in [ms -> Nat] /\ \A m \in ms : alloc[m] <= cap[m]
        /\ SumFunctionOnSet(alloc, ms) <= budget
    BY <1>2, <2>1, <2>2, <2>3, WaterfillType
  <2>5. /\ n \in Nat /\ order \in [1..n -> ms]
        /\ \A i, j \in 1..n : order[i] = order[j] => i = j
        /\ \A m \in ms : \E i \in 1..n : order[i] = m
    BY <1>2, AscendingLists
  <2>9. \A m \in ms : cap[m] = DrainCap(s.book, lister, m)
    BY DEF cap
  <2> HIDE DEF alloc, n, order
  <2>6. \A i \in 1..n : turns[i] \in Turn
    <3> SUFFICES ASSUME NEW i \in 1..n
                 PROVE  turns[i] \in Turn
      OBVIOUS
    <3>1. order[i] \in Members /\ alloc[order[i]] \in Nat
      BY <1>1, <2>4, <2>5
    <3> QED  BY <3>1 DEF Turn
  <2>7. turns \in [1..n -> Turn]
    <3> HIDE DEF stops
    <3> QED  BY <2>6
  <2>10. \A i \in 1..n : /\ turns[i].member = order[i] /\ turns[i].lister = lister
                         /\ turns[i].amount = alloc[order[i]]
    <3> HIDE DEF stops
    <3> QED  OBVIOUS
  <2>11. q = turns
    BY <1>3, <1>5
  <2> HIDE DEF turns, q, stops
  <2>8. turns \in Seq(Turn) /\ Len(turns) = n
    BY <2>5, <2>7
  <2>12. Pending(turns) <= budget
    <3> DEFINE g == [i \in 1..n |-> turns[i].amount]
    <3>1. \A i \in 1..n : g[i] = alloc[order[i]]
      BY <2>10
    <3>2. Pending(turns) = SumFunctionOnSet(g, 1..n)
      BY <2>8 DEF Pending
    <3>3. \A m \in ms : alloc[m] \in Nat
      BY <2>4
    <3>5. Lists(order, n, ms) /\ IsFiniteSet(ms) /\ n \in Nat
      BY <1>2, <2>5 DEF Lists
    <3> HIDE DEF g
    <3>4. SumFunctionOnSet(g, 1..n) = SumFunctionOnSet(alloc, ms)
      BY <3>1, <3>3, <3>5, SumInOrder
    <3> QED  BY <2>4, <3>2, <3>4
  <2>13. ASSUME NEW i \in 1..n
         PROVE  /\ turns[i].lister = lister /\ turns[i].member \notin s.visited
                /\ Fair(turns[i], s.book, lister)
    <3> DEFINE m == order[i]
    <3>1. m \in ms /\ turns[i].member = m /\ turns[i].lister = lister /\ turns[i].amount = alloc[m]
      BY <2>5, <2>10
    <3> HIDE DEF m
    <3>2. alloc[m] <= DrainCap(s.book, lister, m)
      BY <2>4, <2>9, <3>1
    <3> QED  BY <1>6, <3>1, <3>2 DEF Fair
  <2> QED  BY <2>8, <2>11, <2>12, <2>13
<1> QED  BY <1>4, <1>5

\* What a member owes, by row.
DebtRows(f, m) == {i \in DOMAIN f : f[i].debtor = m}

\* What a supporter that m agreed to may drain of m.
Drains(b, m) == {(PairStake(b, l, m) * NuNum) \div NuDen : l \in {l \in approved[m] : m \in DOMAIN beneficiaries[l]}}
MostDrained(b, m) == Max({0} \cup Drains(b, m))

\* Nobody is a supporter of its own.
Apart == \A m \in Members : approved[m] \subseteq Members \ {m}

\* Where a drain stands: it has spent what it moved, of debts of the members it
\* visited, and what is left to drain is in the budget and fair.
Draining(o, y, buyer, seller, budget) ==
    /\ buyer \in y.visited /\ o.spent = 0
    /\ Moves(o, y, y.visited \ {buyer}, buyer, y.spent)
    /\ y.spent + Pending(y.todo) <= budget
    /\ \A i \in 1..Len(y.todo) : Fair(y.todo[i], o.book, seller)
    /\ \A m \in y.visited \ {buyer, seller} :
          Full(o.book.rows, DebtRows(o.book.rows, m)) <= Full(y.book.rows, DebtRows(o.book.rows, m)) + MostDrained(o.book, m)

LEMMA DrainsType ==
    ASSUME Apart, NEW b \in BookSet, NEW m \in Members
    PROVE  /\ MostDrained(b, m) \in Nat /\ \A x \in Drains(b, m) : x \in Nat /\ x <= MostDrained(b, m)
<1> DEFINE L == {l \in approved[m] : m \in DOMAIN beneficiaries[l]}
           cap == [l \in L |-> (PairStake(b, l, m) * NuNum) \div NuDen]
           D == {0} \cup Drains(b, m)
<1>1. L \in SUBSET (Members \ {m}) /\ IsFiniteSet(L)
  BY MembersAssumption, FS_Subset DEF Apart
<1>2. ASSUME NEW l \in L
      PROVE  cap[l] \in Nat
  <2>1. l \in Members /\ l # m
    BY <1>1
  <2>2. DrainCap(b, l, m) \in Nat
    BY <2>1, DrainCapType
  <2>3. DrainCap(b, l, m) = cap[l]
    BY <2>1 DEF DrainCap
  <2> QED  BY <2>2, <2>3
<1>3. Drains(b, m) = {cap[l] : l \in L}
  BY DEF Drains
<1> HIDE DEF cap, L
<1> DEFINE n == SumFunctionOnSet(cap, L)
<1>4. n \in Nat /\ \A l \in L : cap[l] <= n
  <2>1. n \in Nat
    BY <1>1, <1>2, SumIsNatural
  <2>2. ASSUME NEW l \in L
        PROVE  cap[l] <= n
    <3>1. n = cap[l] + SumFunctionOnSet(cap, L \ {l})
      BY <1>1, <1>2, SumSplit
    <3>2. IsFiniteSet(L \ {l})
      BY <1>1, FS_Subset
    <3>3. SumFunctionOnSet(cap, L \ {l}) \in Nat
      BY <1>2, <3>2, SumIsNatural
    <3> HIDE DEF n
    <3> QED  BY <1>2, <3>1, <3>3
  <2> QED  BY <2>1, <2>2
<1>5. D \subseteq 0..n /\ D # {} /\ D \subseteq Nat
  <2> HIDE DEF n
  <2> QED  BY <1>2, <1>3, <1>4
<1>6. Max(D) \in D /\ \A x \in D : x <= Max(D)
  <2> HIDE DEF D, n
  <2> QED  BY <1>4, <1>5, MaxIsIn
<1> QED  BY <1>5, <1>6 DEF MostDrained

LEMMA MovesAlike ==
    ASSUME NEW s, NEW y, NEW t, NEW x, NEW D, NEW buyer, NEW k, Moves(s, y, D, buyer, k),
           t.book = s.book, t.assumed = s.assumed, t.spent = s.spent,
           x.book = y.book, x.assumed = y.assumed, x.spent = y.spent
    PROVE  Moves(t, x, D, buyer, k)
BY DEF Moves

\* A member drained once, by a fair share.
LEMMA DrainedOnce ==
    ASSUME Ready, Apart, NEW buyer \in Members, NEW seller, NEW budget \in Int,
           NEW o \in Cascades, NEW s \in Cascades, NEW y \in Cascades, NEW t \in Turn, NEW rest \in Seq(Turn), NEW below \in Seq(Turn),
           Draining(o, s, buyer, seller, budget), t.member \notin s.visited, Fair(t, o.book, seller),
           Pending(s.todo) = t.amount + Pending(rest), \A i \in 1..Len(rest) : Fair(rest[i], o.book, seller),
           Moves(s, y, {t.member}, buyer, y.cleared), y.cleared <= t.amount,
           Pending(below) <= t.amount - y.cleared,
           \A i \in 1..Len(below) : Fair(below[i], o.book, seller),
           NEW x, x.visited = s.visited \cup {t.member}, x.book = y.book, x.assumed = y.assumed, x.spent = y.spent,
           x.todo = below \o rest
    PROVE  Draining(o, x, buyer, seller, budget)
<1> DEFINE v == t.member
           f == o.book.rows
           g == s.book.rows
           h == y.book.rows
<1>1. /\ v \in Members /\ t.amount \in Nat /\ y.cleared \in Nat /\ s.spent \in Nat /\ y.spent \in Nat /\ DustMinor \in Nat
      /\ f \in RowFiles /\ g \in RowFiles /\ h \in RowFiles /\ o.book \in BookSet /\ s.visited \in SUBSET Members
      /\ s.todo \in Seq(Turn)
  BY CascadeTypes DEF Turn, Ready
<1>2. /\ buyer \in s.visited /\ o.spent = 0
      /\ Moves(o, s, s.visited \ {buyer}, buyer, s.spent)
      /\ s.spent + Pending(s.todo) <= budget
      /\ \A m \in s.visited \ {buyer, seller} :
            Full(f, DebtRows(f, m)) <= Full(g, DebtRows(f, m)) + MostDrained(o.book, m)
  BY DEF Draining
<1> HIDE DEF v
<1>3. y.spent = s.spent + y.cleared /\ x.visited = s.visited \cup {v}
  BY DEF Moves, v
<1>4. v \notin s.visited /\ v # buyer
  BY <1>2 DEF v
<1>5. Moves(o, x, x.visited \ {buyer}, buyer, x.spent)
  <2>1. Moves(o, y, (s.visited \ {buyer}) \cup {v}, buyer, s.spent + y.cleared)
    BY <1>1, <1>2, MovesTwice DEF v
  <2>2. (s.visited \ {buyer}) \cup {v} = x.visited \ {buyer}
    BY <1>3, <1>4
  <2>3. Moves(o, y, x.visited \ {buyer}, buyer, x.spent)
    BY <1>3, <2>1, <2>2
  <2> QED  BY <2>3 DEF Moves
<1>6. Pending(x.todo) = Pending(below) + Pending(rest)
  BY PendingAdds
<1>7. x.spent + Pending(x.todo) <= budget
  <2>1. Pending(below) \in Nat /\ Pending(rest) \in Nat
    BY PendingType
  <2> DEFINE more == Pending(below)
             last == Pending(rest)
             took == y.cleared
             was == s.spent
             share == t.amount
  <2>2. /\ more \in Nat /\ last \in Nat /\ took \in Nat /\ was \in Nat /\ share \in Nat
        /\ more <= share - took /\ was + (share + last) <= budget
    BY <1>1, <1>2, <2>1
  <2>3. x.spent = was + took /\ Pending(x.todo) = more + last
    BY <1>3, <1>6
  <2> HIDE DEF more, last, took, was, share
  <2> QED  BY <2>2, <2>3
<1>8. \A i \in 1..Len(x.todo) : Fair(x.todo[i], o.book, seller)
  <2> DEFINE q == below \o rest
  <2>1. \A i \in 1..Len(q) : (i \in 1..Len(below) /\ q[i] = below[i])
                              \/ \E j \in 1..Len(rest) : q[i] = rest[j]
    <3> SUFFICES ASSUME NEW i \in 1..Len(q)
                 PROVE  (i \in 1..Len(below) /\ q[i] = below[i]) \/ \E j \in 1..Len(rest) : q[i] = rest[j]
      OBVIOUS
    <3>1. Len(q) = Len(below) + Len(rest) /\ Len(below) \in Nat /\ Len(rest) \in Nat
      OBVIOUS
    <3>2. CASE i <= Len(below)
      BY <3>1, <3>2
    <3>3. CASE ~(i <= Len(below))
      <4> DEFINE j == i - Len(below)
      <4>1. j \in 1..Len(rest) /\ i = Len(below) + j
        BY <3>1, <3>3
      <4>2. q[Len(below) + j] = rest[j]
        BY <4>1
      <4> HIDE DEF j, q
      <4> QED  BY <4>1, <4>2
    <3> QED  BY <3>2, <3>3
  <2> HIDE DEF q
  <2>2. \A i \in 1..Len(q) : Fair(q[i], o.book, seller)
    BY <2>1
  <2> QED  BY <2>2 DEF q
<1>9. SameTerms(f, g, s.visited \ {buyer}, buyer) /\ SameTerms(g, h, {v}, buyer) /\ Shed(g, h, y.cleared)
  BY <1>2 DEF Moves, v
<1>10. DOMAIN g = DOMAIN f /\ DOMAIN h = DOMAIN f
  BY <1>9 DEF SameTerms
<1> HIDE DEF f, g, h
<1>11. ASSUME NEW m \in x.visited \ {buyer, seller}
       PROVE  Full(f, DebtRows(f, m)) <= Full(h, DebtRows(f, m)) + MostDrained(o.book, m)
  <2> DEFINE R == DebtRows(f, m)
             most == MostDrained(o.book, m)
  <2>1. R \in SUBSET DOMAIN f /\ \A i \in R : f[i].debtor = m
    BY DEF DebtRows
  <2>2. m \in Members
    BY <1>1, <1>3 DEF v
  <2>3. most \in Nat
    BY <1>1, <2>2, DrainsType
  <2> HIDE DEF R
  <2>4. Full(f, R) \in Nat /\ Full(g, R) \in Nat /\ Full(h, R) \in Nat
    BY <1>1, <1>10, <2>1, SizeType
  <2>5. CASE m # v
    <3>1. \A i \in R : h[i] = g[i]
      BY <1>9, <2>1, <2>5 DEF SameTerms, Remains
    <3>2. Full(g, R) = Full(h, R)
      BY <1>1, <1>10, <2>1, <3>1, FullAlike
    <3>3. Full(f, R) <= Full(g, R) + most
      BY <1>2, <1>3, <2>5 DEF R, f, g
    <3> QED  BY <3>2, <3>3 DEF R
  <2>6. CASE m = v
    <3>1. \A i \in R : g[i] = f[i]
      BY <1>4, <1>9, <2>1, <2>6 DEF SameTerms
    <3>2. Full(f, R) = Full(g, R)
      BY <1>1, <1>10, <2>1, <3>1, FullAlike
    <3>3. Full(g, R) <= Full(h, R) + y.cleared
      BY <1>9, <1>10, <2>1 DEF Shed
    <3>4. t.amount <= most
      <4>1. t.member # seller /\ t.member = m
        BY <2>6 DEF v
      <4>2. /\ t.lister \in approved[m] /\ m \in DOMAIN beneficiaries[t.lister] /\ t.member # t.lister
            /\ t.amount <= DrainCap(o.book, t.lister, m)
        BY <4>1 DEF Fair
      <4> DEFINE cap == (PairStake(o.book, t.lister, m) * NuNum) \div NuDen
      <4>3. cap \in Drains(o.book, m)
        BY <4>2 DEF Drains
      <4>4. DrainCap(o.book, t.lister, m) = cap
        BY <4>1, <4>2 DEF DrainCap
      <4> HIDE DEF cap
      <4>5. cap \in Nat /\ cap <= most
        BY <1>1, <2>2, <4>3, DrainsType
      <4> HIDE DEF most
      <4> QED  BY <1>1, <2>3, <4>2, <4>4, <4>5
    <3> DEFINE was == Full(f, R)
               now == Full(h, R)
    <3>5. was <= now + y.cleared /\ was \in Nat /\ now \in Nat
      BY <2>4, <3>2, <3>3
    <3> HIDE DEF was, now, most
    <3>6. was <= now + most
      BY <1>1, <2>3, <3>4, <3>5
    <3> QED  BY <3>6 DEF was, now, most, R
  <2> QED  BY <2>5, <2>6
<1> QED  BY <1>2, <1>3, <1>5, <1>7, <1>8, <1>11 DEF Draining, f, h

\* One beneficiary drained.
LEMMA DrainOneKeeps ==
    ASSUME NEW b, Ready, Weighed, Apart, epoch \in Nat, NEW buyer \in Members, NEW s, Midway(s, b, buyer),
           NEW date \in Nat, epoch <= date, NEW x \in DrainOne(s, buyer, date),
           NEW o \in Cascades, NEW seller, NEW budget \in Int, Draining(o, s, buyer, seller, budget)
    PROVE  Midway(x, b, buyer) /\ Draining(o, x, buyer, seller, budget)
<1> DEFINE t == Head(s.todo)
           rest == [s EXCEPT !.todo = Tail(@)]
           next == [rest EXCEPT !.visited = @ \cup {t.member}]
           below(y) == IF t.member = t.lister THEN <<>>
                       ELSE Level(y, t.member, t.amount - y.cleared, t.depth + 1)
<1>1. s \in Cascades /\ s.todo \in Seq(Turn) /\ s.visited \in SUBSET Members
  BY MidwayParts
<1>2. CASE s.todo = <<>>
  BY <1>2 DEF DrainOne
<1>3. CASE s.todo # <<>>
  <2> DEFINE last == Tail(s.todo)
  <2>1. /\ t \in Turn /\ last \in Seq(Turn) /\ Pending(s.todo) = t.amount + Pending(last)
        /\ Fair(t, o.book, seller) /\ \A i \in 1..Len(last) : Fair(last[i], o.book, seller)
    <3> DEFINE q == s.todo
    <3>1. q \in Seq(Turn) /\ q # <<>> /\ \A i \in 1..Len(q) : Fair(q[i], o.book, seller)
      BY <1>1, <1>3 DEF Draining
    <3> HIDE DEF q
    <3>2. /\ Head(q) \in Turn /\ Tail(q) \in Seq(Turn) /\ Pending(q) = Head(q).amount + Pending(Tail(q))
          /\ q[1] = Head(q) /\ 1 \in 1..Len(q)
          /\ \A i \in 1..Len(Tail(q)) : Tail(q)[i] = q[i + 1] /\ i + 1 \in 1..Len(q)
      BY <3>1, PendingTail
    <3>3. Fair(Head(q), o.book, seller) /\ \A i \in 1..Len(Tail(q)) : Fair(Tail(q)[i], o.book, seller)
      BY <3>1, <3>2
    <3> QED  BY <3>2, <3>3 DEF q
  <2>2. t.member \in Members /\ t.lister \in Members /\ t.amount \in Nat /\ t.depth \in Nat
    <3> HIDE DEF t
    <3> QED  BY <2>1 DEF Turn
  <2>7. Tail(s.todo) \in Seq(Turn)
    BY <2>1
  <2> HIDE DEF t
  <2>3. Midway(rest, b, buyer)
    <3> DEFINE todo == Tail(s.todo)
               visited == s.visited
               z == [s EXCEPT !.todo = todo, !.visited = visited]
    <3>1. todo \in Seq(Turn) /\ visited \in SUBSET Members
      BY <1>1, <2>7
    <3>2. z = rest
      BY <1>1 DEF Cascades
    <3> HIDE DEF todo, visited
    <3>3. Midway(z, b, buyer)
      BY <3>1, AnotherTurn
    <3> HIDE DEF z, rest
    <3> QED  BY <3>2, <3>3
  <2>4. Midway(next, b, buyer)
    <3> DEFINE todo == rest.todo
               visited == rest.visited \cup {t.member}
               z == [rest EXCEPT !.todo = todo, !.visited = visited]
    <3> HIDE DEF rest
    <3>1. rest \in Cascades /\ todo \in Seq(Turn) /\ visited \in SUBSET Members
      BY <2>2, <2>3, MidwayParts
    <3>2. z = next
      BY <3>1 DEF Cascades
    <3> HIDE DEF todo, visited
    <3>3. Midway(z, b, buyer)
      BY <2>3, <3>1, AnotherTurn
    <3> HIDE DEF z, next
    <3> QED  BY <3>2, <3>3
  <2>5. CASE t.amount <= DustMinor \/ t.member \in s.visited
    <3>1. x = rest
      BY <1>3, <2>5 DEF DrainOne, t
    <3>2. /\ rest.visited = s.visited /\ rest.todo = last
          /\ rest.book = s.book /\ rest.assumed = s.assumed /\ rest.spent = s.spent
      BY <1>1 DEF Cascades
    <3> HIDE DEF rest, last
    <3>3. Moves(o, rest, rest.visited \ {buyer}, buyer, rest.spent)
      BY <3>2 DEF Draining, Moves
    <3>4. rest.spent + Pending(rest.todo) <= budget
      <4> DEFINE share == t.amount
                 more == Pending(last)
                 was == s.spent
      <4>1. share \in Nat /\ more \in Nat /\ was \in Nat
        BY <1>1, <2>1, <2>2, PendingType, CascadeTypes
      <4>2. was + (share + more) <= budget
        BY <2>1 DEF Draining
      <4>3. rest.spent = was /\ Pending(rest.todo) = more
        BY <3>2
      <4> HIDE DEF share, more, was
      <4> QED  BY <4>1, <4>2, <4>3
    <3>5. Draining(o, rest, buyer, seller, budget)
      BY <2>1, <3>2, <3>3, <3>4 DEF Draining
    <3> QED  BY <2>3, <3>1, <3>5
  <2>6. CASE ~(t.amount <= DustMinor \/ t.member \in s.visited)
    <3>1. PICK y \in ClearedDebts(next, t.member, buyer, t.amount, date) : x = [y EXCEPT !.todo = below(y) \o @]
      BY <1>3, <2>6 DEF DrainOne, t
    <3>10. /\ next.visited = s.visited \cup {t.member} /\ next.todo = last
           /\ next.book = s.book /\ next.assumed = s.assumed /\ next.spent = s.spent
      BY <1>1 DEF Cascades
    <3> HIDE DEF next
    <3>2. /\ Midway(y, b, buyer) /\ y.visited = next.visited /\ y.todo = next.todo
          /\ Moves(next, y, {t.member}, buyer, y.cleared) /\ y.cleared <= t.amount
      <4> DEFINE v == t.member
                 share == t.amount
      <4>1. v \in Members /\ share \in Int /\ share \in Nat /\ y \in ClearedDebts(next, v, buyer, share, date)
        BY <2>2, <3>1
      <4> HIDE DEF v, share
      <4>2. /\ Midway(y, b, buyer) /\ y.visited = next.visited /\ y.todo = next.todo
            /\ Moves(next, y, {v}, buyer, y.cleared) /\ (share \in Nat => y.cleared <= share)
        BY <2>4, <4>1, ClearedKeeps
      <4> QED  BY <4>1, <4>2 DEF v, share
    <3>3. y \in Cascades /\ y.todo \in Seq(Turn) /\ y.visited \in SUBSET Members /\ y.cleared \in Nat
      BY <3>2, MidwayParts
    <3>4. below(y) \in Seq(Turn)
      <4>1. t.amount - y.cleared \in Int /\ t.depth + 1 \in Nat
        BY <2>2, <3>3
      <4>2. Level(y, t.member, t.amount - y.cleared, t.depth + 1) \in Seq(Turn)
        BY <2>2, <3>2, <4>1, LevelType
      <4> QED  BY <4>2
    <3>8. Pending(below(y)) <= t.amount - y.cleared /\ \A i \in 1..Len(below(y)) : Fair(below(y)[i], o.book, seller)
      <4> DEFINE room == t.amount - y.cleared
                 depth == t.depth + 1
                 v == t.member
                 q == Level(y, v, room, depth)
      <4>1. room \in Nat /\ depth \in Nat /\ v \in Members
        BY <2>2, <3>2, <3>3
      <4>2. CASE t.member = t.lister
        <5>1. below(y) = <<>> /\ 1..Len(<<>>) = {}
          BY <4>2
        <5> HIDE DEF below
        <5>2. Pending(below(y)) = 0
          BY <3>4, <5>1, PendingType
        <5> QED  BY <4>1, <5>1, <5>2
      <4>3. CASE t.member # t.lister
        <5>1. below(y) = q
          BY <4>3
        <5> HIDE DEF below, room, depth, v
        <5>2. /\ Pending(q) <= room
              /\ \A i \in 1..Len(q) : q[i].lister = v /\ q[i].member \notin y.visited /\ Fair(q[i], y.book, v)
          BY <3>2, <4>1, LevelType
        <5>3. v \in y.visited
          BY <3>2, <3>10 DEF v
        <5>4. y.book.edges = o.book.edges
          BY <3>2, <3>10 DEF Draining, Moves
        <5> HIDE DEF q
        <5>5. \A i \in 1..Len(q) : Fair(q[i], o.book, seller)
          BY <5>2, <5>3, <5>4 DEF Fair, DrainCap, PairStake
        <5> QED  BY <5>1, <5>2, <5>5 DEF room
      <4> QED  BY <4>2, <4>3
    <3> DEFINE todo == below(y) \o y.todo
               visited == y.visited
               z == [y EXCEPT !.todo = todo, !.visited = visited]
    <3> HIDE DEF below
    <3>5. todo \in Seq(Turn) /\ visited \in SUBSET Members
      BY <3>3, <3>4
    <3>6. z = x
      BY <3>1, <3>3 DEF Cascades
    <3> HIDE DEF todo, visited
    <3>7. Midway(z, b, buyer)
      BY <3>2, <3>5, AnotherTurn
    <3>9. /\ z.visited = s.visited \cup {t.member} /\ z.book = y.book /\ z.assumed = y.assumed /\ z.spent = y.spent
          /\ z.todo = below(y) \o last
      BY <3>2, <3>3, <3>10 DEF Cascades, todo, visited
    <3> HIDE DEF z, last
    <3>11. Moves(s, y, {t.member}, buyer, y.cleared)
      BY <3>2, <3>10 DEF Moves
    <3>12. t.member \notin s.visited
      BY <2>6
    <3>13. Draining(o, z, buyer, seller, budget)
      <4> DEFINE down == below(y)
      <4>1. /\ down \in Seq(Turn) /\ Pending(down) <= t.amount - y.cleared /\ z.todo = down \o last
            /\ \A i \in 1..Len(down) : Fair(down[i], o.book, seller)
        BY <3>4, <3>8, <3>9
      <4> HIDE DEF down
      <4> QED  BY <1>1, <2>1, <3>2, <3>3, <3>9, <3>11, <3>12, <4>1, DrainedOnce
    <3> QED  BY <3>6, <3>7, <3>13
  <2> QED  BY <2>5, <2>6
<1> QED  BY <1>2, <1>3

LEMMA DrainedKeeps ==
    ASSUME NEW b, Ready, Weighed, Apart, epoch \in Nat, NEW buyer \in Members, NEW s, Midway(s, b, buyer),
           NEW date \in Nat, epoch <= date, NEW x \in Drained(s, buyer, date),
           NEW o \in Cascades, NEW seller, NEW budget \in Int, Draining(o, s, buyer, seller, budget)
    PROVE  Midway(x, b, buyer) /\ Draining(o, x, buyer, seller, budget)
<1> DEFINE n == Cardinality(Members) * Cardinality(Members)
           W == {y \in Cascades : Midway(y, b, buyer) /\ Draining(o, y, buyer, seller, budget)}
           V == SUBSET W
           step(Y) == UNION {DrainOne(y, buyer, date) : y \in Y}
           G == [k \in 1..n |-> [Y \in V |-> step(Y)]]
           Eq(f) == f = [q \in SUBSET (1..n) |-> IF q = {} THEN {s} ELSE step(f[q \ {Max(q)}])]
           it == CHOOSE f : Eq(f)
<1>1. n \in Nat
  <2>1. Cardinality(Members) \in Nat
    BY MembersAssumption, FS_CardinalityType
  <2> QED  BY <2>1, ProductIsNatural
<1>2. {s} \in V
  BY DEF Midway
<1>3. \A Y \in V : step(Y) \in V
  <2> SUFFICES ASSUME NEW Y \in V, NEW y \in Y, NEW z \in DrainOne(y, buyer, date)
               PROVE  z \in W
    OBVIOUS
  <2>1. Midway(y, b, buyer) /\ Draining(o, y, buyer, seller, budget)
    OBVIOUS
  <2>2. Midway(z, b, buyer) /\ Draining(o, z, buyer, seller, budget)
    BY <2>1, DrainOneKeeps
  <2> QED  BY <2>2 DEF Midway
<1> HIDE DEF W, step, n
<1>4. G \in [1..n -> [V -> V]]
  <2> HIDE DEF V
  <2> QED  BY <1>3
<1>5. PICK f \in [SUBSET (1..n) -> V] : Folds(f, {s}, G, n)
  <2> HIDE DEF G, V
  <2> QED  BY <1>1, <1>2, <1>4, FoldExists
<1>6. ASSUME NEW q \in SUBSET (1..n), q # {}
      PROVE  Max(q) \in 1..n /\ q \ {Max(q)} \in SUBSET (1..n)
  BY <1>1, <1>6, TopIsIn DEF Picks, Tops
<1>7. Eq(f)
  <2>1. \A q \in SUBSET (1..n) : f[q] = IF q = {} THEN {s} ELSE step(f[q \ {Max(q)}])
    <3> HIDE DEF V
    <3> QED  BY <1>5, <1>6 DEF Folds
  <2> HIDE DEF V
  <2> QED  BY <1>5, <2>1
<1>8. Eq(it)
  <2> HIDE DEF Eq
  <2> QED  BY <1>7
<1>9. Iterates(it, {s}, G, n, V)
  <2> HIDE DEF it, V
  <2> QED  BY <1>6, <1>8 DEF Iterates
<1>10. it[1..n] \in V
  <2> HIDE DEF it, G, V
  <2> QED  BY <1>1, <1>2, <1>4, <1>9, FoldStays
<1>11. Drained(s, buyer, date) = it[1..n]
  <2> DEFINE ks == [k \in 1..Cardinality(Members) * Cardinality(Members) |-> k]
  <2>1. DOMAIN ks = 1..n
    BY DEF n
  <2>2. Drained(s, buyer, date) = FoldLeft(LAMBDA Y, k : step(Y), {s}, ks)
    BY DEF Drained, step
  <2> HIDE DEF ks
  <2> QED  BY <2>1, <2>2 DEF FoldLeft, MapThenFoldSet
<1> HIDE DEF it
<1> QED  BY <1>10, <1>11 DEF W

LEMMA MovesWider ==
    ASSUME NEW s, NEW x, NEW D, NEW E, D \subseteq E, NEW buyer, NEW k, Moves(s, x, D, buyer, k)
    PROVE  Moves(s, x, E, buyer, k)
BY DEF Moves, SameTerms, Relieved

LEMMA UntouchedRows ==
    ASSUME NEW f \in RowFiles, NEW g \in RowFiles, NEW D, NEW buyer, SameTerms(f, g, D, buyer),
           NEW m, m \notin D, Ready
    PROVE  Full(f, DebtRows(f, m)) = Full(g, DebtRows(f, m))
<1> DEFINE R == DebtRows(f, m)
<1>1. R \subseteq DOMAIN f /\ \A i \in R : g[i] = f[i]
  BY DEF SameTerms, DebtRows
<1> HIDE DEF R
<1>2. [i \in R |-> Padded(f[i])] = [i \in R |-> Padded(g[i])]
  BY <1>1
<1> QED  BY <1>2 DEF Full, R

\* The state a cascade starts from, and what it has done by its end.
Started(b, buyer) == [book |-> b, assumed |-> <<>>, spent |-> 0, cleared |-> 0, visited |-> {buyer}, todo |-> <<>>]
Ended(b, x, buyer, seller, budget) ==
    /\ x.spent <= budget
    /\ Moves(Started(b, buyer), x, Members \ {buyer}, buyer, x.spent)
    /\ \A m \in Members \ {buyer, seller} :
          Full(b.rows, DebtRows(b.rows, m)) <= Full(x.book.rows, DebtRows(b.rows, m)) + MostDrained(b, m)

\* The whole cascade, from a book that is good.
LEMMA CascadedKeeps ==
    ASSUME NEW b, Good(b, epoch), Ready, Weighed, Apart, epoch \in Nat, NEW seller \in Members, NEW buyer \in Members,
           seller # buyer,
           NEW budget \in Nat, NEW date \in Nat, epoch <= date, NEW x \in Cascaded(b, seller, buyer, budget, date)
    PROVE  Midway(x, b, buyer) /\ Ended(b, x, buyer, seller, budget)
<1> DEFINE s == Started(b, buyer)
           level == Level(s, seller, budget, 1)
<1>1. b \in Books /\ Balanced(b) /\ RowsSound(b) /\ Filled(b) /\ \A i \in DOMAIN b.rows : ~Due(b.rows[i], epoch)
  BY DEF Good, Sound
<1>2. <<>> \in Slots /\ DOMAIN <<>> = {}
  <2>1. <<>> \in [{} -> Slot] /\ {} \in SUBSET (Nat \X Nat) /\ IsFiniteSet({})
    BY FS_EmptySet
  <2> QED  BY <2>1 DEF Slots
<1>3. s \in Cascades
  <2>1. <<>> \in Seq(Turn) /\ {buyer} \in SUBSET Members /\ 0 \in Nat
    OBVIOUS
  <2> QED  BY <1>1, <1>2, <2>1 DEF Cascades, Started
<1>4. FilledBut(b, <<>>, {})
  <2> SUFFICES ASSUME NEW k \in Places
               PROVE  Booked(b, k) = Total(b, k) + Aside(<<>>, {}, k) /\ Booked(b, k) <= Stock(b, k)
    BY DEF FilledBut
  <2>1. Booked(b, k) = Total(b, k) /\ Total(b, k) <= Stock(b, k)
    BY <1>1 DEF Filled
  <2>2. Aside(<<>>, {}, k) = 0
    BY SumOfNothing DEF Aside
  <2>3. Total(b, k) \in Nat
    BY <1>1, PlaceTypes DEF Ready, Books
  <2> QED  BY <2>1, <2>2, <2>3
<1>5. Midway(s, b, buyer)
  <2>1. Onward(b, b, epoch)
    BY <1>1, OnwardSelf
  <2>2. Between(b, b, <<>>, {}, buyer)
    BY <1>1, <1>4, <2>1 DEF Between
  <2> QED  BY <1>2, <1>3, <2>2 DEF Midway, Started
<1>9. s.book = b /\ s.assumed = <<>> /\ s.spent = 0 /\ s.visited = {buyer} /\ s.todo = <<>>
  BY DEF Started
<1>10. \A m \in Members : MostDrained(b, m) \in Nat
  BY <1>3, <1>9, CascadeTypes, DrainsType
<1>11. ASSUME NEW y \in Cascades, NEW D, D \subseteq Members, buyer \notin D, Moves(s, y, D, buyer, y.spent),
              y.spent <= budget,
              \A m \in D \ {seller} :
                  Full(b.rows, DebtRows(b.rows, m)) <= Full(y.book.rows, DebtRows(b.rows, m)) + MostDrained(b, m)
       PROVE  Ended(b, y, buyer, seller, budget)
  <2> HIDE DEF s
  <2>1. Moves(s, y, Members \ {buyer}, buyer, y.spent)
    <3> DEFINE k == y.spent
               E == Members \ {buyer}
    <3>1. D \subseteq E /\ Moves(s, y, D, buyer, k)
      BY <1>11
    <3> HIDE DEF k, E
    <3>2. Moves(s, y, E, buyer, k)
      BY <3>1, MovesWider
    <3> QED  BY <3>2 DEF k, E
  <2>2. b.rows \in RowFiles /\ y.book.rows \in RowFiles /\ SameTerms(b.rows, y.book.rows, D, buyer)
    <3>1. SameTerms(b.rows, y.book.rows, D, buyer)
      BY <1>9, <1>11 DEF Moves
    <3>2. s.book.rows \in RowFiles /\ y.book.rows \in RowFiles
      BY <1>3, CascadeTypes
    <3> QED  BY <1>9, <3>1, <3>2
  <2>3. ASSUME NEW m \in Members \ {buyer, seller}
        PROVE  Full(b.rows, DebtRows(b.rows, m)) <= Full(y.book.rows, DebtRows(b.rows, m)) + MostDrained(b, m)
    <3>1. CASE m \in D
      BY <1>11, <3>1
    <3>2. CASE m \notin D
      <4> DEFINE f == b.rows
                 g == y.book.rows
                 was == Full(f, DebtRows(f, m))
                 most == MostDrained(b, m)
      <4>1. f \in RowFiles /\ g \in RowFiles /\ SameTerms(f, g, D, buyer)
        BY <2>2
      <4>2. was \in Nat /\ most \in Nat
        <5>1. DebtRows(f, m) \subseteq DOMAIN f
          BY DEF DebtRows
        <5>2. DustMinor \in Nat
          BY DEF Ready
        <5> DEFINE R == DebtRows(f, m)
        <5>3. R \in SUBSET DOMAIN f
          BY <5>1
        <5> HIDE DEF f, R
        <5>4. Full(f, R) \in Nat
          BY <4>1, <5>2, <5>3, SizeType
        <5> QED  BY <1>10, <5>4 DEF R
      <4>3. Full(g, DebtRows(f, m)) = was
        <5> HIDE DEF f, g
        <5> QED  BY <3>2, <4>1, UntouchedRows
      <4>4. was <= was + most
        <5> HIDE DEF was, most
        <5> QED  BY <4>2
      <4> QED  BY <4>3, <4>4
    <3> QED  BY <3>1, <3>2
  <2> QED  BY <1>11, <2>1, <2>3 DEF Ended, s
<1>6. CASE budget <= DustMinor
  <2>1. x = s
    BY <1>6 DEF Cascaded, Started
  <2> HIDE DEF s
  <2>2. Moves(s, s, {}, buyer, s.spent)
    BY <1>3, <1>9, MovesSelf
  <2>3. s.spent <= budget
    BY <1>9
  <2>4. Ended(b, s, buyer, seller, budget)
    BY <1>3, <1>11, <2>2, <2>3
  <2> QED  BY <1>5, <2>1, <2>4
<1>7. CASE ~(budget <= DustMinor) /\ DOMAIN beneficiaries[seller] = {}
  <2>1. x \in ClearedDebts(s, seller, buyer, budget, date)
    BY <1>7 DEF Cascaded, Started
  <2> HIDE DEF s
  <2>2. Midway(x, b, buyer) /\ Moves(s, x, {seller}, buyer, x.cleared) /\ x.cleared <= budget
    <3>1. budget \in Int
      OBVIOUS
    <3>2. Midway(x, b, buyer) /\ Moves(s, x, {seller}, buyer, x.cleared) /\ (budget \in Nat => x.cleared <= budget)
      BY <1>5, <2>1, <3>1, ClearedKeeps
    <3> QED  BY <3>2
  <2>3. x \in Cascades /\ x.cleared \in Nat
    BY <2>2, MidwayParts
  <2>4. x.spent = x.cleared
    BY <1>9, <2>2, <2>3 DEF Moves
  <2>5. Ended(b, x, buyer, seller, budget)
    BY <1>11, <2>2, <2>3, <2>4
  <2> QED  BY <2>2, <2>5
<1>8. CASE ~(budget <= DustMinor) /\ DOMAIN beneficiaries[seller] # {}
  <2>1. x \in Drained([s EXCEPT !.todo = level], buyer, date)
    BY <1>8 DEF Cascaded, Started
  <2> HIDE DEF s
  <2>2. /\ level \in Seq(Turn) /\ Pending(level) <= budget
        /\ \A i \in 1..Len(level) : Fair(level[i], s.book, seller)
    <3>1. 1 \in Nat /\ budget \in Int
      OBVIOUS
    <3>2. /\ level \in Seq(Turn) /\ (budget \in Nat => Pending(level) <= budget)
          /\ \A i \in 1..Len(level) : Fair(level[i], s.book, seller)
      BY <1>5, <3>1, LevelType
    <3> QED  BY <3>2
  <2> HIDE DEF level
  <2> DEFINE visited == s.visited
             z == [s EXCEPT !.todo = level, !.visited = visited]
  <2>3. visited \in SUBSET Members
    BY <1>3 DEF Cascades
  <2>4. z = [s EXCEPT !.todo = level]
    BY <1>3 DEF Cascades
  <2> HIDE DEF visited
  <2>5. Midway(z, b, buyer)
    BY <1>5, <2>2, <2>3, AnotherTurn
  <2>7. /\ z.book = s.book /\ z.assumed = s.assumed /\ z.spent = s.spent /\ z.visited = s.visited /\ z.todo = level
        /\ z \in Cascades
    BY <1>3, <2>2, <2>3 DEF Cascades, visited
  <2> HIDE DEF z
  <2>6. x \in Drained(z, buyer, date)
    BY <2>1, <2>4
  <2>8. Draining(s, z, buyer, seller, budget)
    <3>1. z.visited \ {buyer} = {} /\ z.visited \ {buyer, seller} = {} /\ buyer \in z.visited
      BY <1>9, <2>7
    <3>2. Moves(s, z, {}, buyer, z.spent)
      BY <1>3, <1>9, <2>7, MovesSelf
    <3>3. z.spent + Pending(z.todo) <= budget
      <4>1. Pending(level) \in Nat
        BY <2>2, PendingType
      <4> QED  BY <1>9, <2>2, <2>7, <4>1
    <3> QED  BY <1>9, <2>2, <2>7, <3>1, <3>2, <3>3 DEF Draining
  <2>9. Midway(x, b, buyer) /\ Draining(s, x, buyer, seller, budget)
    BY <1>3, <2>5, <2>6, <2>8, DrainedKeeps
  <2>10. x \in Cascades /\ x.todo \in Seq(Turn) /\ x.visited \in SUBSET Members
    BY <2>9, MidwayParts
  <2>11. x.spent <= budget
    <3> DEFINE p == Pending(x.todo)
               k == x.spent
    <3>1. p \in Nat /\ k \in Nat
      BY <2>10, PendingType, CascadeTypes
    <3>2. k + p <= budget
      BY <2>9 DEF Draining
    <3> HIDE DEF p, k
    <3>3. k <= budget
      BY <3>1, <3>2
    <3> QED  BY <3>3 DEF k
  <2>12. Ended(b, x, buyer, seller, budget)
    <3> DEFINE D == x.visited \ {buyer}
    <3>1. D \subseteq Members /\ buyer \notin D /\ Moves(s, x, D, buyer, x.spent)
      BY <2>9, <2>10 DEF Draining
    <3>2. \A m \in D \ {seller} :
              Full(b.rows, DebtRows(b.rows, m)) <= Full(x.book.rows, DebtRows(b.rows, m)) + MostDrained(b, m)
      BY <1>9, <2>9 DEF Draining
    <3> HIDE DEF D
    <3> QED  BY <1>11, <2>10, <2>11, <3>1, <3>2
  <2> QED  BY <2>9, <2>12
<1> QED  BY <1>6, <1>7, <1>8

\* The keys of what was assumed, each of them once.
LEMMA InOrderLists ==
    ASSUME NEW A \in Slots
    PROVE  /\ Cardinality(DOMAIN A) \in Nat
           /\ InOrder(A) \in [1..Cardinality(DOMAIN A) -> DOMAIN A]
           /\ \A i, j \in 1..Cardinality(DOMAIN A) : InOrder(A)[i] = InOrder(A)[j] => i = j
           /\ \A x \in DOMAIN A : \E i \in 1..Cardinality(DOMAIN A) : InOrder(A)[i] = x
<1> DEFINE S == DOMAIN A
           n == Cardinality(S)
           rank == Rank(A)
<1>1. IsFiniteSet(S) /\ S \in SUBSET (Nat \X Nat) /\ n \in Nat
  BY SlotTypes, FS_CardinalityType
<1>2. \A r \in S : r \in Seq(Nat) /\ Len(r) = 2
  <2> SUFFICES ASSUME NEW r \in S
               PROVE  r \in Seq(Nat) /\ Len(r) = 2
    OBVIOUS
  <2>1. PICK x \in Nat, y \in Nat : r = <<x, y>>
    <3> HIDE DEF S
    <3>1. r \in Nat \X Nat
      BY <1>1
    <3> QED  BY <3>1
  <2>2. <<x, y>> \in Seq(Nat) /\ Len(<<x, y>>) = 2
    OBVIOUS
  <2> QED  BY <2>1, <2>2
<1>3. \A r, s \in S : ~Begins(r, s)
  BY <1>2 DEF Begins
<1>4. /\ rank \in [S -> Nat] /\ \A r, s \in S : rank[r] = rank[s] => r = s
      /\ \A r \in S : rank[r] < n
  BY <1>1, <1>2, <1>3, RanksApart
<1>5. InOrder(A) = [i \in 1..n |-> CHOOSE k \in S : rank[k] = i - 1]
  BY DEF InOrder
<1> HIDE DEF rank, S
<1>6. rank \in [S -> 0..n - 1]
  <2> SUFFICES ASSUME NEW r \in S
               PROVE  rank[r] \in 0..n - 1
    BY <1>4
  <2> HIDE DEF n
  <2> QED  BY <1>1, <1>4
<1>7. \A i \in 0..n - 1 : \E x \in S : rank[x] = i
  <2>1. rank \in Injection(S, 0..n - 1)
    BY <1>4, <1>6 DEF Injection, IsInjective
  <2>2. IsFiniteSet(0..n - 1) /\ Cardinality(0..n - 1) = n
    <3>1. 0 \in Int /\ n - 1 \in Int
      BY <1>1
    <3> QED  BY <1>1, <3>1, FS_Interval
  <2>3. rank \in Surjection(S, 0..n - 1)
    BY <1>1, <2>1, <2>2, FS_Injection
  <2> QED  BY <2>3 DEF Surjection
<1> DEFINE order == InOrder(A)
<1>8. ASSUME NEW i \in 1..n
      PROVE  order[i] \in S /\ rank[order[i]] = i - 1
  <2>1. order[i] = CHOOSE k \in S : rank[k] = i - 1
    BY <1>5
  <2>2. \E k \in S : rank[k] = i - 1
    <3>1. i - 1 \in 0..n - 1
      BY <1>1
    <3> QED  BY <1>7, <3>1
  <2> QED  BY <2>1, <2>2
<1>9. order \in [1..n -> S]
  <2>1. order = [i \in 1..n |-> order[i]]
    BY <1>5
  <2> HIDE DEF order
  <2> QED  BY <1>8, <2>1
<1> HIDE DEF order
<1>10. \A i, j \in 1..n : order[i] = order[j] => i = j
  <2> SUFFICES ASSUME NEW i \in 1..n, NEW j \in 1..n, order[i] = order[j]
               PROVE  i = j
    OBVIOUS
  <2>1. i - 1 = j - 1
    BY <1>8
  <2> QED  BY <1>1, <2>1
<1>11. ASSUME NEW x \in S
       PROVE  \E i \in 1..n : order[i] = x
  <2>1. rank[x] \in 0..n - 1
    BY <1>6
  <2>2. rank[x] + 1 \in 1..n /\ (rank[x] + 1) - 1 = rank[x]
    BY <1>1, <2>1
  <2>3. order[rank[x] + 1] = x
    BY <1>4, <1>8, <2>2
  <2> QED  BY <2>2, <2>3
<1> QED  BY <1>1, <1>9, <1>10, <1>11 DEF S, order

\* One successor booked, or what was held for dust given back.
Booking(y, A, k, buyer) ==
    IF A[k].amount <= DustMinor THEN Release(y, A[k].held)
    ELSE Opened(y, Row(buyer, k[1], A[k].amount, k[2], [insured |-> TRUE, held |-> A[k].held], epoch, A[k].accepted))

LEMMA BookingKeeps ==
    ASSUME NEW b, Ready, epoch \in Nat, NEW buyer \in Members, NEW A \in Slots, NEW S \in SUBSET DOMAIN A,
           NEW k \in S, NEW y, Between(b, y, A, S, buyer)
    PROVE  Between(b, Booking(y, A, k, buyer), A, S \ {k}, buyer)
<1> DEFINE a == A[k]
           h == a.held
           x == Booking(y, A, k, buyer)
<1>1. /\ Onward(b, y, epoch) /\ Balanced(y) /\ RowsSound(y) /\ FilledBut(y, A, S)
      /\ \A i \in DOMAIN y.rows : ~Due(y.rows[i], epoch)
      /\ \A j \in S : SlotSound(j, A[j], buyer)
      /\ y \in Books /\ y \in BookSet
  BY DEF Between, Onward, Books
<1>2. /\ h \in HoldSet /\ a.amount \in Nat /\ a.accepted \in Nat /\ SlotSound(k, a, buyer)
      /\ k[1] \in Members /\ k[1] # buyer /\ k[2] \in Nat /\ epoch <= k[2]
  <2>1. k \in Nat \X Nat /\ SlotSound(k, a, buyer)
    BY <1>1, SlotTypes
  <2>2. k[2] \in Nat
    BY <2>1
  <2> QED  BY <2>1, <2>2, SlotTypes DEF SlotSound
<1>3. /\ x \in BookSet /\ Onward(y, x, epoch) /\ Balanced(x) /\ RowsSound(x)
      /\ \A p \in Places : /\ Booked(x, p) = Total(x, p) + Aside(A, S \ {k}, p)
                           /\ Booked(x, p) <= Stock(x, p)
  <2>1. ASSUME NEW p \in Places
        PROVE  /\ Booked(y, p) = Total(y, p) + (At(h, p) + Aside(A, S \ {k}, p)) /\ Booked(y, p) <= Stock(y, p)
               /\ Booked(y, p) \in Nat /\ Total(y, p) \in Nat /\ Stock(y, p) \in Nat
               /\ At(h, p) \in Nat /\ Aside(A, S \ {k}, p) \in Nat
    <3>1. Booked(y, p) = Total(y, p) + Aside(A, S, p) /\ Booked(y, p) <= Stock(y, p)
      BY <1>1 DEF FilledBut
    <3>2. Aside(A, S, p) = At(h, p) + Aside(A, S \ {k}, p)
      BY AsideLess
    <3>3. Booked(y, p) \in Nat /\ Total(y, p) \in Nat /\ Stock(y, p) \in Nat
      BY <1>1, PlaceTypes DEF Ready
    <3>4. At(h, p) \in Nat /\ Aside(A, S \ {k}, p) \in Nat
      <4>1. S \ {k} \in SUBSET DOMAIN A
        OBVIOUS
      <4> QED  BY <1>2, <4>1, AsideType, AtType
    <3> QED  BY <3>1, <3>2, <3>3, <3>4
  <2>2. CASE a.amount <= DustMinor
    <3>1. x = Release(y, h)
      BY <2>2 DEF Booking
    <3> HIDE DEF x, h
    <3>2. /\ x \in BookSet /\ x.rows = y.rows /\ x.next = y.next
          /\ x.agreed = y.agreed /\ x.charged = y.charged
          /\ x.debt = y.debt /\ x.default = y.default /\ x.edges = y.edges
          /\ \A p \in Places : Booked(x, p) = Minus(Booked(y, p), At(h, p))
      BY <1>1, <1>2, <3>1, ReleaseLater DEF h
    <3>3. Onward(y, x, epoch)
      BY <1>1, <3>2, RowsLeft
    <3>4. Balanced(x) /\ RowsSound(x)
      BY <1>1, <3>2 DEF Balanced, Cached, Tally, RowsSound
    <3>5. ASSUME NEW p \in Places
          PROVE  Booked(x, p) = Total(x, p) + Aside(A, S \ {k}, p) /\ Booked(x, p) <= Stock(x, p)
      <4>1. Total(x, p) = Total(y, p) /\ Stock(x, p) = Stock(y, p) /\ Booked(x, p) = Minus(Booked(y, p), At(h, p))
        BY <3>2 DEF Total, Tally, Stock
      <4> DEFINE was == Booked(y, p)
                 held == Total(y, p)
                 gone == At(h, p)
                 aside == Aside(A, S \ {k}, p)
                 there == Stock(y, p)
      <4>2. was = held + (gone + aside) /\ was <= there /\ was \in Nat /\ held \in Nat /\ there \in Nat /\ gone \in Nat /\ aside \in Nat
        BY <2>1 DEF h
      <4> HIDE DEF was, held, gone, aside, there
      <4>3. Minus(was, gone) = held + aside /\ Minus(was, gone) <= there
        BY <4>2 DEF Minus
      <4> QED  BY <4>1, <4>3 DEF was, held, gone, aside, there
    <3> QED  BY <3>2, <3>3, <3>4, <3>5
  <2>3. CASE ~(a.amount <= DustMinor)
    <3> DEFINE t == [insured |-> TRUE, held |-> h]
               r == Row(buyer, k[1], a.amount, k[2], t, epoch, a.accepted)
    <3>1. x = Opened(y, r)
      BY <2>3 DEF Booking
    <3>2. a.amount > DustMinor /\ a.amount # 0
      BY <1>2, <2>3 DEF Ready
    <3>3. /\ r \in RowSet /\ r.status = "Active" /\ r.debtor = buyer /\ r.creditor = k[1]
          /\ r.outstanding = a.amount /\ r.original = a.amount /\ r.maturity = k[2]
          /\ r.arb = NoTerms /\ r.insured = TRUE /\ r.held = h
      <4> DEFINE now == epoch
                 lender == k[1]
                 date == k[2]
                 amount == a.amount
                 since == a.accepted
                 q == Row(buyer, lender, amount, date, t, now, since)
      <4>1. t \in Holdings /\ t.insured = TRUE /\ t.held = h
        BY <1>2 DEF Holdings
      <4>2. now \in Nat /\ lender \in Members /\ date \in Nat /\ amount \in Nat /\ since \in Nat
        BY <1>2
      <4> HIDE DEF t, now, lender, date, amount, since
      <4>3. q \in RowSet
        BY <4>1, <4>2, RowType
      <4>4. /\ q.status = "Active" /\ q.debtor = buyer /\ q.creditor = lender
            /\ q.outstanding = amount /\ q.original = amount /\ q.maturity = date
            /\ q.arb = NoTerms /\ q.insured = TRUE /\ q.held = h
        BY <4>1 DEF Row
      <4> HIDE DEF q
      <4>5. q = r
        BY DEF q, now, lender, date, amount, since
      <4> HIDE DEF r
      <4> QED  BY <4>3, <4>4, <4>5 DEF lender, date, amount
    <3> HIDE DEF x, r, h
    <3>4. RowSound(r)
      <4>1. r.held.supply[r.debtor] = 0 /\ HeldAmount(r.held) = a.amount /\ r.debtor # r.creditor
        BY <1>2, <3>3 DEF SlotSound, h
      <4> QED  BY <3>2, <3>3, <4>1, RowBacked
    <3>5. /\ x \in BookSet /\ x.rows = Added(y.rows, y.next, r)
          /\ x.edges = y.edges /\ x.reserved = y.reserved /\ x.committed = y.committed
      BY <1>1, <3>1, <3>3, OpenedFields
    <3>6. Onward(y, x, epoch)
      <4>1. ~Due(r, epoch)
        BY <1>2, <3>3, NotYetDue
      <4>2. r.outstanding <= r.original
        BY <1>2, <3>3
      <4> QED  BY <1>1, <3>1, <3>3, <4>1, <4>2, OpenedLater
    <3>7. Balanced(x)
      <4> SUFFICES ASSUME NEW T \in Kinds, NEW m \in Members
                   PROVE  Cached(x, T)[m] = Tally(x, m, T)
        BY DEF Balanced
      <4>1. Together(y, x)
        BY <1>1, <3>1, <3>3, OpenedTogether
      <4>2. Cached(y, T)[m] + Tally(x, m, T) = Cached(x, T)[m] + Tally(y, m, T) /\ Cached(y, T)[m] = Tally(y, m, T)
        BY <1>1, <4>1 DEF Together, Balanced
      <4>3. Cached(x, T)[m] \in Nat /\ Tally(y, m, T) \in Nat /\ Tally(x, m, T) \in Nat
        BY <1>1, <3>5, CachedType, TallyType
      <4> QED  BY <4>2, <4>3
    <3>8. RowsSound(x)
      BY <1>1, <3>3, <3>4, <3>5, SoundAdded
    <3>9. ASSUME NEW p \in Places
          PROVE  Booked(x, p) = Total(x, p) + Aside(A, S \ {k}, p) /\ Booked(x, p) <= Stock(x, p)
      <4>1. Booked(x, p) = Booked(y, p) /\ Stock(x, p) = Stock(y, p)
        BY <3>5 DEF Booked, Stock
      <4>2. Total(x, p) = Total(y, p) + At(h, p)
        <5>1. Tally(x, p, "held") = Tally(y, p, "held") + Weight(r, p, "held")
          BY <1>1, <3>3, <3>5, TallyAdded
        <5>2. Weight(r, p, "held") = At(h, p)
          BY <3>3 DEF Weight
        <5> QED  BY <5>1, <5>2 DEF Total
      <4> DEFINE held == Total(y, p)
                 more == At(h, p)
                 aside == Aside(A, S \ {k}, p)
      <4>3. held \in Nat /\ more \in Nat /\ aside \in Nat /\ Booked(y, p) = held + (more + aside) /\ Booked(y, p) <= Stock(y, p)
        BY <2>1 DEF h
      <4> HIDE DEF held, more, aside
      <4>4. held + (more + aside) = (held + more) + aside
        BY <4>3
      <4> QED  BY <4>1, <4>2, <4>3, <4>4 DEF held, more, aside
    <3> QED  BY <3>5, <3>6, <3>7, <3>8, <3>9
  <2> QED  BY <2>2, <2>3
<1> HIDE DEF x
<1>4. Onward(b, x, epoch)
  BY <1>1, <1>3, OnwardTwice
<1>5. \A i \in DOMAIN x.rows : ~Due(x.rows[i], epoch)
  BY <1>1, <1>3 DEF Onward
<1>6. \A j \in S \ {k} : SlotSound(j, A[j], buyer)
  BY <1>1
<1>7. FilledBut(x, A, S \ {k})
  BY <1>3 DEF FilledBut
<1> QED  BY <1>3, <1>4, <1>5, <1>6, <1>7 DEF Between, x

LEMMA SizeAdded ==
    ASSUME DustMinor \in Nat, NEW f \in RowFiles, NEW g \in RowFiles, NEW k, k \notin DOMAIN f, DOMAIN g = DOMAIN f \cup {k},
           \A i \in DOMAIN f : g[i] = f[i], NEW R \in SUBSET DOMAIN f
    PROVE  Size(g, R) = Size(f, R) /\ Size(g, R \cup {k}) = Size(f, R) + g[k].outstanding
<1> DEFINE Q == R \cup {k}
           u == [i \in R |-> f[i].outstanding]
           v == [i \in R |-> g[i].outstanding]
           w == [i \in Q |-> g[i].outstanding]
<1>1. R \in SUBSET DOMAIN g /\ Q \in SUBSET DOMAIN g /\ k \notin R /\ k \in Q
  OBVIOUS
<1>2. IsFiniteSet(R) /\ \A i \in R : f[i].outstanding \in Nat
  BY SizeType
<1>3. IsFiniteSet(Q) /\ \A i \in Q : g[i].outstanding \in Nat
  <2> HIDE DEF Q
  <2> QED  BY <1>1, SizeType
<1>4. Q \ {k} = R
  BY <1>1
<1> HIDE DEF Q
<1>5. /\ \A i \in R : u[i] \in Nat /\ v[i] = u[i] /\ w[i] = u[i]
      /\ \A i \in Q : w[i] \in Nat
  BY <1>1, <1>2, <1>3, <1>4
<1>6. w[k] = g[k].outstanding
  BY <1>1
<1>7. Size(f, R) = SumFunctionOnSet(u, R) /\ Size(g, R) = SumFunctionOnSet(v, R) /\ Size(g, Q) = SumFunctionOnSet(w, Q)
  BY DEF Size
<1> HIDE DEF u, v, w
<1>8. SumFunctionOnSet(u, R) = SumFunctionOnSet(v, R) /\ SumFunctionOnSet(u, R) = SumFunctionOnSet(w, R)
  BY <1>2, <1>5, SumCongruent
<1>9. SumFunctionOnSet(w, Q) = w[k] + SumFunctionOnSet(w, R)
  BY <1>1, <1>3, <1>4, <1>5, SumSplit
<1>10. SumFunctionOnSet(u, R) \in Nat /\ w[k] \in Nat
  BY <1>1, <1>2, <1>5, SumIsNatural
<1> QED  BY <1>6, <1>7, <1>8, <1>9, <1>10 DEF Q

\* The rows g has beyond f, to the creditors and by the dates of T.
Fresh(f, g, T) == {i \in DOMAIN g \ DOMAIN f : <<g[i].creditor, g[i].maturity>> \in T}

\* From x to y the buyer comes to owe, on insured rows of its own, what A
\* promises under the keys S.
TakenOn(x, y, A, S, buyer) ==
    /\ y.edges = x.edges /\ y.rows \in RowFiles
    /\ DOMAIN x.rows \subseteq DOMAIN y.rows /\ \A i \in DOMAIN x.rows : y.rows[i] = x.rows[i]
    /\ \A i \in DOMAIN y.rows \ DOMAIN x.rows :
          y.rows[i].debtor = buyer /\ y.rows[i].insured /\ y.rows[i].status = "Active"
    /\ \A T \in SUBSET Pairs : Size(y.rows, Fresh(x.rows, y.rows, T)) = SumFunctionOnSet(Amounts(A), S \cap T)
    /\ \A m \in Members : y.debt[m] = x.debt[m] + IF m = buyer THEN SumFunctionOnSet(Amounts(A), S) ELSE 0

LEMMA TakenOnSelf ==
    ASSUME NEW x \in Books, NEW A, NEW buyer
    PROVE  TakenOn(x, x, A, {}, buyer)
<1>1. x.rows \in RowFiles /\ \A m \in Members : x.debt[m] \in Nat
  BY DEF Books, BookSet, Purses
<1>2. \A T : Fresh(x.rows, x.rows, T) = {} /\ {} \cap T = {}
  BY DEF Fresh
<1>3. Size(x.rows, {}) = 0
  BY SumOfNothing DEF Size
<1>4. SumFunctionOnSet(Amounts(A), {}) = 0
  BY SumOfNothing
<1> QED  BY <1>1, <1>2, <1>3, <1>4 DEF TakenOn

\* One successor booked.
LEMMA BookingOwes ==
    ASSUME Ready, epoch \in Nat, NEW A \in Slots, Heavy(A), NEW S \in SUBSET DOMAIN A, NEW k \in DOMAIN A, k \notin S,
           NEW x \in Books, NEW y \in Books, NEW buyer \in Members, TakenOn(x, y, A, S, buyer), SlotSound(k, A[k], buyer)
    PROVE  TakenOn(x, Booking(y, A, k, buyer), A, S \cup {k}, buyer)
<1> DEFINE amount == A[k].amount
           t == [insured |-> TRUE, held |-> A[k].held]
           lender == k[1]
           date == k[2]
           now == epoch
           since == A[k].accepted
           r == Row(buyer, lender, amount, date, t, now, since)
           z == Opened(y, r)
           f == x.rows
           g == y.rows
           h == z.rows
           id == y.next
           sum(Q) == SumFunctionOnSet(Amounts(A), Q)
<1>1. /\ amount \in Nat /\ amount > DustMinor /\ DustMinor \in Nat /\ t \in Holdings /\ lender \in Members
      /\ date \in Nat /\ since \in Nat /\ k \in Pairs /\ k = <<lender, date>> /\ t.insured = TRUE /\ now \in Nat
  <2>1. A[k] \in Slot /\ k \in Nat \X Nat /\ A[k].held \in HoldSet
    BY SlotTypes
  <2>2. A[k].amount \in Nat /\ A[k].accepted \in Nat
    BY <2>1 DEF Slot
  <2>3. k[2] \in Nat /\ k = <<k[1], k[2]>>
    BY <2>1
  <2> QED  BY <2>1, <2>2, <2>3 DEF Heavy, Ready, Holdings, SlotSound, Pairs
<1>2. Booking(y, A, k, buyer) = z
  BY <1>1 DEF Booking
<1> HIDE DEF amount, t, lender, date, since, now
<1>3. /\ r \in RowSet /\ r.debtor = buyer /\ r.insured = TRUE /\ r.status = "Active"
      /\ r.creditor = lender /\ r.maturity = date /\ r.outstanding = amount
  <2>1. r \in RowSet
    BY <1>1, RowType
  <2> QED  BY <1>1, <2>1 DEF Row
<1> HIDE DEF r
<1>4. /\ y \in BookSet /\ g \in RowFiles /\ id \in Nat /\ id \notin DOMAIN g /\ \A m \in Members : y.debt[m] \in Nat
  BY FileTypes DEF Books, BookSet, Purses
<1>5. /\ z \in BookSet /\ h = Added(g, id, r) /\ z.debt = [y.debt EXCEPT ![buyer] = @ + amount] /\ z.edges = y.edges
  BY <1>3, <1>4, OpenedFields
<1>6. h \in RowFiles /\ DOMAIN h = DOMAIN g \cup {id} /\ h[id] = r /\ \A i \in DOMAIN g : h[i] = g[i]
  <2>1. h \in RowFiles
    BY <1>5 DEF BookSet
  <2> HIDE DEF h, g, id
  <2>2. /\ DOMAIN Added(g, id, r) = DOMAIN g \cup {id} /\ Added(g, id, r)[id] = r
        /\ \A i \in DOMAIN g : i # id => Added(g, id, r)[i] = g[i]
    BY DEF Added
  <2> QED  BY <1>4, <1>5, <2>1, <2>2
<1>7. /\ y.edges = x.edges /\ DOMAIN f \subseteq DOMAIN g /\ \A i \in DOMAIN f : g[i] = f[i]
      /\ \A i \in DOMAIN g \ DOMAIN f : g[i].debtor = buyer /\ g[i].insured /\ g[i].status = "Active"
      /\ \A T \in SUBSET Pairs : Size(g, Fresh(f, g, T)) = sum(S \cap T)
      /\ \A m \in Members : y.debt[m] = x.debt[m] + IF m = buyer THEN sum(S) ELSE 0
  BY DEF TakenOn
<1>8. IsFiniteSet(DOMAIN A) /\ \A j \in DOMAIN A : Amounts(A)[j] \in Nat
  BY SlotTypes DEF Amounts
<1>9. ASSUME NEW Q \in SUBSET DOMAIN A, k \notin Q
      PROVE  sum(Q \cup {k}) = sum(Q) + amount /\ sum(Q) \in Nat
  <2> DEFINE P == Q \cup {k}
             a == Amounts(A)
  <2>1. IsFiniteSet(Q) /\ IsFiniteSet(P) /\ k \in P /\ P \ {k} = Q /\ \A j \in P : a[j] \in Nat
    BY <1>8, <1>9, FS_Subset
  <2>2. a[k] = amount
    BY DEF Amounts, amount
  <2> HIDE DEF P, a
  <2>3. SumFunctionOnSet(a, P) = a[k] + SumFunctionOnSet(a, Q)
    BY <2>1, SumSplit
  <2>4. SumFunctionOnSet(a, Q) \in Nat
    <3>1. \A j \in Q : a[j] \in Nat
      BY <2>1
    <3> QED  BY <2>1, <3>1, SumIsNatural
  <2>5. SumFunctionOnSet(a, P) = SumFunctionOnSet(a, Q) + amount
    BY <1>1, <2>2, <2>3, <2>4
  <2> QED  BY <2>4, <2>5 DEF P, a
<1> HIDE DEF sum, z, id, f, g, h
<1>10. ASSUME NEW T \in SUBSET Pairs
       PROVE  Size(h, Fresh(f, h, T)) = sum((S \cup {k}) \cap T)
  <2> DEFINE R == Fresh(f, g, T)
             Q == S \cap T
  <2>1. R \in SUBSET DOMAIN g /\ Q \in SUBSET DOMAIN A /\ k \notin Q /\ Size(g, R) = sum(Q)
    BY <1>7 DEF Fresh
  <2>2. Size(h, R) = Size(g, R) /\ Size(h, R \cup {id}) = Size(g, R) + amount
    <3> HIDE DEF R
    <3>1. Size(h, R) = Size(g, R) /\ Size(h, R \cup {id}) = Size(g, R) + h[id].outstanding
      BY <1>1, <1>4, <1>6, <2>1, SizeAdded
    <3>2. h[id].outstanding = amount
      BY <1>3, <1>6
    <3> QED  BY <3>1, <3>2
  <2>3. CASE k \in T
    <3>1. Fresh(f, h, T) = R \cup {id}
      BY <1>1, <1>3, <1>4, <1>6, <1>7, <2>3 DEF Fresh
    <3>2. (S \cup {k}) \cap T = Q \cup {k}
      BY <2>3
    <3>3. sum(Q \cup {k}) = sum(Q) + amount
      BY <1>9, <2>1
    <3> HIDE DEF R, Q
    <3> QED  BY <2>1, <2>2, <3>1, <3>2, <3>3
  <2>4. CASE k \notin T
    <3>1. Fresh(f, h, T) = R
      BY <1>1, <1>3, <1>4, <1>6, <1>7, <2>4 DEF Fresh
    <3>2. (S \cup {k}) \cap T = Q
      BY <2>4
    <3> HIDE DEF R, Q
    <3> QED  BY <2>1, <2>2, <3>1, <3>2
  <2> QED  BY <2>3, <2>4
<1>11. \A m \in Members : z.debt[m] = x.debt[m] + IF m = buyer THEN sum(S \cup {k}) ELSE 0
  <2> SUFFICES ASSUME NEW m \in Members
               PROVE  z.debt[m] = x.debt[m] + IF m = buyer THEN sum(S \cup {k}) ELSE 0
    OBVIOUS
  <2>1. z.debt[m] = y.debt[m] + IF m = buyer THEN amount ELSE 0
    <3>1. y.debt \in Purses
      BY <1>4 DEF BookSet
    <3>2. DOMAIN y.debt = Members /\ y.debt[m] \in Nat
      BY <3>1 DEF Purses
    <3> QED  BY <1>5, <3>2
  <2>2. sum(S \cup {k}) = sum(S) + amount /\ sum(S) \in Nat
    BY <1>9
  <2>3. y.debt[m] \in Nat /\ y.debt[m] = x.debt[m] + IF m = buyer THEN sum(S) ELSE 0
    BY <1>4, <1>7
  <2>4. x.debt[m] \in Nat
    BY DEF Books, BookSet, Purses
  <2> DEFINE was == x.debt[m]
             now1 == y.debt[m]
             then == z.debt[m]
             owed == sum(S)
             more == sum(S \cup {k})
  <2> HIDE DEF was, now1, then, owed, more
  <2>5. then = was + IF m = buyer THEN more ELSE 0
    BY <1>1, <2>1, <2>2, <2>3, <2>4 DEF was, now1, then, owed, more
  <2> QED  BY <2>5 DEF was, then, more
<1>12. \A i \in DOMAIN h \ DOMAIN f : h[i].debtor = buyer /\ h[i].insured /\ h[i].status = "Active"
  BY <1>3, <1>6, <1>7
<1>13. DOMAIN f \subseteq DOMAIN h /\ \A i \in DOMAIN f : h[i] = f[i]
  BY <1>6, <1>7
<1>14. z.edges = x.edges /\ h \in RowFiles
  BY <1>5, <1>6, <1>7
<1> QED  BY <1>2, <1>10, <1>11, <1>12, <1>13, <1>14 DEF TakenOn, sum, f, h

\* Every successor booked, the reservations are again what the rows hold.
LEMMA AssumedKeeps ==
    ASSUME NEW b, Ready, epoch \in Nat, NEW buyer \in Members, NEW s, Midway(s, b, buyer), Heavy(s.assumed)
    PROVE  LET y == Assumed(s, buyer)
           IN Onward(b, y, epoch) /\ Sound(y) /\ TakenOn(s.book, y, s.assumed, DOMAIN s.assumed, buyer)
<1> DEFINE A == s.assumed
           K == DOMAIN A
           n == Cardinality(K)
           ks == InOrder(A)
           x == s.book
           V == Books
           step(y, k) == Booking(y, A, k, buyer)
           G == [i \in 1..n |-> [y \in V |-> step(y, ks[i])]]
           Eq(f) == f = [q \in SUBSET (1..n) |-> IF q = {} THEN x ELSE step(f[q \ {Max(q)}], ks[Max(q)])]
           it == CHOOSE f : Eq(f)
<1>1. A \in Slots /\ x \in Books /\ Between(b, x, A, K, buyer) /\ Heavy(A)
  BY MidwayParts DEF Midway
<1> HIDE DEF A, x
<1>2. /\ n \in Nat /\ ks \in [1..n -> K]
      /\ \A i, j \in 1..n : ks[i] = ks[j] => i = j
      /\ \A k \in K : \E i \in 1..n : ks[i] = k
  BY <1>1, InOrderLists
<1> HIDE DEF ks, n
<1>3. ASSUME NEW y \in V, NEW k \in K
      PROVE  step(y, k) \in V
  <2> DEFINE h == A[k].held
             r == Row(buyer, k[1], A[k].amount, k[2], [insured |-> TRUE, held |-> h], epoch, A[k].accepted)
  <2>1. /\ h \in HoldSet /\ A[k].amount \in Nat /\ A[k].accepted \in Nat
        /\ SlotSound(k, A[k], buyer) /\ y \in BookSet
    BY <1>1, SlotTypes DEF Between, Books
  <2>2. k \in Nat \X Nat /\ k[1] \in Members /\ k[2] \in Nat /\ epoch <= k[2]
    <3>1. k \in Nat \X Nat
      BY <1>1, SlotTypes
    <3>2. k[2] \in Nat
      BY <3>1
    <3> QED  BY <2>1, <3>1, <3>2 DEF SlotSound
  <2>3. Release(y, h) \in V
    <3> DEFINE z == Release(y, h)
    <3>1. z \in BookSet /\ z.rows = y.rows /\ z.next = y.next
      BY <2>1, ReleaseLater
    <3> HIDE DEF z
    <3>2. z \in V
      BY <3>1 DEF Books
    <3> QED  BY <3>2 DEF z
  <2>4. Opened(y, r) \in V
    <3> DEFINE t == [insured |-> TRUE, held |-> h]
               now == epoch
               lender == k[1]
               date == k[2]
               amount == A[k].amount
               since == A[k].accepted
               q == Row(buyer, lender, amount, date, t, now, since)
    <3>1. t \in Holdings /\ now \in Nat /\ lender \in Members /\ date \in Nat /\ amount \in Nat /\ since \in Nat /\ now <= date
      BY <2>1, <2>2 DEF Holdings
    <3> HIDE DEF t, now, lender, date, amount, since
    <3>2. q \in RowSet
      BY <3>1, RowType
    <3>3. q.outstanding = amount /\ q.original = amount /\ q.arb = NoTerms /\ q.maturity = date
      BY DEF Row
    <3>4. q = r
      BY DEF t, now, lender, date, amount, since
    <3> HIDE DEF q, r
    <3>5. ~Due(q, now)
      BY <3>1, <3>2, <3>3, NotYetDue
    <3>6. q.outstanding <= q.original
      BY <3>1, <3>3
    <3>7. Onward(y, Opened(y, q), now)
      BY <3>1, <3>2, <3>3, <3>5, <3>6, OpenedLater
    <3> QED  BY <3>4, <3>7 DEF Onward
  <2> HIDE DEF r, h
  <2> QED  BY <2>3, <2>4 DEF Booking, h, r
<1> HIDE DEF step, K
<1>4. G \in [1..n -> [V -> V]]
  <2> HIDE DEF V
  <2> QED  BY <1>2, <1>3
<1>5. PICK f \in [SUBSET (1..n) -> V] : Folds(f, x, G, n)
  <2> HIDE DEF G, V
  <2> QED  BY <1>1, <1>2, <1>4, FoldExists DEF V
<1>6. ASSUME NEW q \in SUBSET (1..n), q # {}
      PROVE  Max(q) \in 1..n /\ q \ {Max(q)} \in SUBSET (1..n)
  BY <1>2, <1>6, TopIsIn DEF Picks, Tops
<1>7. Eq(f)
  <2>1. \A q \in SUBSET (1..n) : f[q] = IF q = {} THEN x ELSE step(f[q \ {Max(q)}], ks[Max(q)])
    <3> HIDE DEF V
    <3> QED  BY <1>5, <1>6 DEF Folds
  <2> HIDE DEF V
  <2> QED  BY <1>5, <2>1
<1>8. Eq(it)
  <2> HIDE DEF Eq
  <2> QED  BY <1>7
<1>9. Iterates(it, x, G, n, V)
  <2> HIDE DEF it, V
  <2> QED  BY <1>6, <1>8 DEF Iterates
<1>10. PICK t \in [0..n -> V] : Through(t, x, G, n) /\ it[1..n] = t[n]
  <2> HIDE DEF it, G, V, Eq
  <2>1. Ends(it, x, G, n, V)
    BY <1>1, <1>2, <1>4, <1>9, FoldEnds DEF V
  <2> QED  BY <2>1 DEF Ends
<1>11. Assumed(s, buyer) = it[1..n]
  <2>1. DOMAIN ks = 1..n
    BY <1>2
  <2>2. Assumed(s, buyer) = FoldLeft(LAMBDA y, k : step(y, k), x, ks)
    BY DEF Assumed, step, Booking, x, ks, A
  <2> QED  BY <2>1, <2>2 DEF FoldLeft, MapThenFoldSet
<1> HIDE DEF it
<1> DEFINE left(i) == {ks[j] : j \in i + 1..n}
           P == {i \in Nat : i <= n => /\ Between(b, t[i], A, left(i), buyer)
                                /\ TakenOn(x, t[i], A, K \ left(i), buyer)}
<1>12. 0 \in P
  <2>1. t[0] = x
    BY <1>10 DEF Through
  <2>2. left(0) = K
    <3>1. left(0) \subseteq K
      BY <1>2
    <3>2. K \subseteq left(0)
      BY <1>2
    <3> QED  BY <3>1, <3>2
  <2> HIDE DEF left
  <2>3. K \ left(0) = {} /\ TakenOn(x, x, A, {}, buyer)
    BY <1>1, <2>2, TakenOnSelf
  <2> QED  BY <1>1, <2>1, <2>2, <2>3 DEF K
<1>13. ASSUME NEW i \in Nat, i \in P
       PROVE  i + 1 \in P
  <2>1. SUFFICES ASSUME i + 1 <= n
                 PROVE  /\ Between(b, t[i + 1], A, left(i + 1), buyer)
                        /\ TakenOn(x, t[i + 1], A, K \ left(i + 1), buyer)
    BY <1>13
  <2>2. /\ i + 1 \in 1..n /\ i \in 0..n /\ i + 1 \in 0..n /\ (i + 1) - 1 = i
        /\ Between(b, t[i], A, left(i), buyer) /\ TakenOn(x, t[i], A, K \ left(i), buyer)
    BY <1>2, <1>13, <2>1
  <2> DEFINE k == ks[i + 1]
  <2>3. k \in left(i) /\ k \in K /\ left(i) \in SUBSET K
    BY <1>2, <2>2
  <2>4. left(i + 1) = left(i) \ {k}
    <3>1. left(i + 1) \subseteq left(i) \ {k}
      <4> SUFFICES ASSUME NEW j \in (i + 1) + 1..n
                   PROVE  ks[j] \in left(i) /\ ks[j] # k
        OBVIOUS
      <4>1. j \in i + 1..n /\ j \in 1..n /\ j # i + 1
        BY <1>2, <2>2
      <4> QED  BY <1>2, <2>2, <4>1
    <3>2. left(i) \ {k} \subseteq left(i + 1)
      <4> SUFFICES ASSUME NEW j \in i + 1..n, ks[j] # k
                   PROVE  ks[j] \in left(i + 1)
        OBVIOUS
      <4>1. j # i + 1
        OBVIOUS
      <4>2. j \in (i + 1) + 1..n
        BY <1>2, <4>1
      <4> QED  BY <4>2
    <3> HIDE DEF left
    <3> QED  BY <3>1, <3>2
  <2>5. t[i + 1] = step(t[i], k)
    <3>1. t[i] \in V
      BY <2>2
    <3> HIDE DEF V
    <3> QED  BY <1>10, <2>2, <3>1 DEF Through
  <2> HIDE DEF left, k
  <2>6. Between(b, Booking(t[i], A, k, buyer), A, left(i) \ {k}, buyer)
    BY <1>1, <2>2, <2>3, BookingKeeps DEF K
  <2>7. TakenOn(x, Booking(t[i], A, k, buyer), A, K \ left(i + 1), buyer)
    <3> DEFINE S == K \ left(i)
               y == t[i]
    <3>1. S \in SUBSET K /\ k \notin S /\ S \cup {k} = K \ left(i + 1)
      BY <2>3, <2>4
    <3>2. y \in Books /\ SlotSound(k, A[k], buyer) /\ TakenOn(x, y, A, S, buyer)
      BY <2>2, <2>3 DEF Between, Onward
    <3> HIDE DEF S, y
    <3>3. TakenOn(x, Booking(y, A, k, buyer), A, S \cup {k}, buyer)
      BY <1>1, <2>3, <3>1, <3>2, BookingOwes DEF K
    <3> QED  BY <3>1, <3>3 DEF y
  <2> QED  BY <2>4, <2>5, <2>6, <2>7 DEF step
<1>14. n \in P
  <2> HIDE DEF P
  <2> QED  BY <1>2, <1>12, <1>13, NumberInduction
<1> DEFINE y == Assumed(s, buyer)
<1>15. Between(b, y, A, {}, buyer) /\ TakenOn(x, y, A, K, buyer)
  <2>1. left(n) = {}
    BY <1>2
  <2>2. Between(b, t[n], A, left(n), buyer) /\ TakenOn(x, t[n], A, K \ left(n), buyer)
    BY <1>2, <1>14
  <2> HIDE DEF left
  <2>3. K \ left(n) = K
    BY <2>1
  <2> QED  BY <1>10, <1>11, <2>1, <2>2, <2>3
<1> HIDE DEF y
<1>16. Filled(y)
  <2> SUFFICES ASSUME NEW k \in Places
               PROVE  Booked(y, k) = Total(y, k) /\ Total(y, k) <= Stock(y, k)
    BY DEF Filled
  <2>1. Booked(y, k) = Total(y, k) + Aside(A, {}, k) /\ Booked(y, k) <= Stock(y, k)
    BY <1>15 DEF Between, FilledBut
  <2>2. Aside(A, {}, k) = 0
    BY SumOfNothing DEF Aside
  <2>3. Total(y, k) \in Nat
    BY <1>15, PlaceTypes DEF Between, Onward, Books, Ready
  <2> QED  BY <2>1, <2>2, <2>3
<1> QED  BY <1>15, <1>16 DEF Between, Sound, y, x, A, K

LEMMA SizeMoves ==
    ASSUME DustMinor \in Nat, NEW f \in RowFiles, NEW g \in RowFiles, NEW id \in DOMAIN f, DOMAIN g = DOMAIN f,
           \A i \in DOMAIN f : i # id => g[i] = f[i], NEW R \in SUBSET DOMAIN f, id \in R
    PROVE  Size(f, R) + g[id].outstanding = Size(g, R) + f[id].outstanding
<1> DEFINE u == [i \in R |-> f[i].outstanding]
           v == [i \in R |-> g[i].outstanding]
<1>1. IsFiniteSet(R) /\ \A i \in R : u[i] \in Nat /\ v[i] \in Nat
  BY SizeType
<1>2. \A i \in R : i # id => u[i] = v[i]
  OBVIOUS
<1>3. Size(f, R) = SumFunctionOnSet(u, R) /\ Size(g, R) = SumFunctionOnSet(v, R)
  BY DEF Size
<1>4. u[id] = f[id].outstanding /\ v[id] = g[id].outstanding
  OBVIOUS
<1> HIDE DEF u, v
<1>5. SumFunctionOnSet(v, R) + u[id] = SumFunctionOnSet(u, R) + v[id]
  BY <1>1, <1>2, SumUpdate DEF Weighs, AgreeOff
<1> QED  BY <1>3, <1>4, <1>5

\* The rows on which one member owes another.
Lien(f, d, c) == {i \in DOMAIN f : f[i].debtor = d /\ f[i].creditor = c}

\* From b to y, n of what the seller owes the buyer is set off, and of the rows
\* it closes the dust.
SetOff(b, y, seller, buyer, n) ==
    /\ y \in Books /\ DOMAIN y.rows = DOMAIN b.rows
    /\ \A i \in DOMAIN b.rows : /\ y.rows[i].debtor = b.rows[i].debtor /\ y.rows[i].creditor = b.rows[i].creditor
                                /\ i \notin Lien(b.rows, seller, buyer) => y.rows[i] = b.rows[i]
    /\ Full(b.rows, Lien(b.rows, seller, buyer)) <= Full(y.rows, Lien(b.rows, seller, buyer)) + n
    /\ Size(y.rows, Lien(b.rows, seller, buyer)) + n <= Size(b.rows, Lien(b.rows, seller, buyer))
    /\ \A m \in Members : m # seller => y.debt[m] = b.debt[m]
    /\ \A a \in Arcs : a # <<buyer, seller>> => y.edges[a] = b.edges[a]

LEMMA SetOffSelf ==
    ASSUME Ready, NEW b \in Books, NEW seller, NEW buyer
    PROVE  SetOff(b, b, seller, buyer, 0)
<1> DEFINE f == b.rows
           R == Lien(f, seller, buyer)
<1>1. f \in RowFiles /\ DustMinor \in Nat /\ R \in SUBSET DOMAIN f
  BY DEF Books, BookSet, Ready, Lien
<1> HIDE DEF R
<1>2. Full(f, R) \in Nat /\ Size(f, R) \in Nat
  <2> HIDE DEF f
  <2> QED  BY <1>1, SizeType
<1>3. Full(f, R) <= Full(f, R) + 0 /\ Size(f, R) + 0 <= Size(f, R)
  BY <1>2
<1> QED  BY <1>3 DEF SetOff, R

\* From y to z, the row id alone is paid down.
NextOff(b, y, z, seller, buyer, n, id) ==
    /\ SetOff(b, z, seller, buyer, n)
    /\ \A i \in DOMAIN b.rows : i # id => z.rows[i] = y.rows[i]

LEMMA SetOffOnce ==
    ASSUME Ready, NEW b \in Books, NEW seller, NEW buyer, NEW n \in Nat, NEW y, SetOff(b, y, seller, buyer, n),
           NEW id \in Lien(b.rows, seller, buyer), NEW take \in Nat, take > DustMinor, take <= y.rows[id].outstanding,
           NEW z, z = Discharged(y, id, take)
    PROVE  NextOff(b, y, z, seller, buyer, n + take, id)
<1> DEFINE f == b.rows
           g == y.rows
           h == z.rows
           R == Lien(f, seller, buyer)
           o == g[id].outstanding
           rest == h[id].outstanding
<1>1. /\ y \in Books /\ DOMAIN g = DOMAIN f /\ id \in DOMAIN g /\ f \in RowFiles /\ g \in RowFiles /\ R \in SUBSET DOMAIN f
      /\ g[id].debtor = seller /\ g[id].creditor = buyer /\ DustMinor \in Nat
  BY DEF SetOff, Lien, Books, BookSet, Ready
<1>2. Onward(y, z, epoch) /\ OneRow(y, z, id) /\ Paid(g[id], h[id], take)
  BY <1>1, DischargedLater
<1>3. /\ \A m \in Members : m # g[id].debtor => z.debt[m] = y.debt[m]
      /\ \A a \in Arcs : a # <<g[id].creditor, g[id].debtor>> => z.edges[a] = y.edges[a]
  BY <1>1, DischargedTouches
<1>4. z \in Books /\ h \in RowFiles /\ DOMAIN h = DOMAIN f /\ \A i \in DOMAIN f : i # id => h[i] = g[i]
  <2>1. z \in Books
    BY <1>2 DEF Onward
  <2> QED  BY <1>1, <1>2, <2>1 DEF OneRow, OthersLeft, Books, BookSet
<1> HIDE DEF g, h
<1>5. /\ o \in Nat /\ h[id].debtor = seller /\ h[id].creditor = buyer
      /\ rest = IF o - take <= DustMinor THEN 0 ELSE o - take
  BY <1>1, <1>2, FileTypes DEF Paid, RowSet
<1>6. Padded(g[id]) <= Padded(h[id]) + take /\ rest + take <= o
  <2>1. take <= o
    BY DEF g
  <2> HIDE DEF o, rest
  <2> QED  BY <1>1, <1>5, <2>1 DEF Padded, o, rest
<1>7. \A i \in DOMAIN f : /\ g[i].debtor = f[i].debtor /\ g[i].creditor = f[i].creditor
                          /\ i \notin R => g[i] = f[i]
  BY DEF SetOff, g
<1>8. \A i \in DOMAIN f : /\ h[i].debtor = f[i].debtor /\ h[i].creditor = f[i].creditor
                          /\ i \notin R => h[i] = f[i]
  <2>1. id \in R /\ f[id].debtor = seller /\ f[id].creditor = buyer
    BY DEF Lien
  <2> HIDE DEF R, f
  <2> QED  BY <1>4, <1>5, <1>7, <2>1
<1>9. Full(f, R) <= Full(g, R) + n /\ Size(g, R) + n <= Size(f, R)
  BY DEF SetOff, g
<1>10. id \in R
  OBVIOUS
<1> HIDE DEF R, f
<1>11. Full(g, R) + Padded(h[id]) = Full(h, R) + Padded(g[id])
  <2>1. R \in SUBSET DOMAIN g
    BY <1>1
  <2>2. IF id \in R THEN Full(g, R) + Padded(h[id]) = Full(h, R) + Padded(g[id]) ELSE Full(g, R) = Full(h, R)
    BY <1>1, <1>4, <2>1, FullMoves
  <2> QED  BY <1>10, <2>2
<1>12. Size(g, R) + rest = Size(h, R) + o
  <2>1. R \in SUBSET DOMAIN g
    BY <1>1
  <2> QED  BY <1>1, <1>4, <1>10, <2>1, SizeMoves
<1>13. /\ Full(f, R) \in Nat /\ Full(g, R) \in Nat /\ Full(h, R) \in Nat
       /\ Size(f, R) \in Nat /\ Size(g, R) \in Nat /\ Size(h, R) \in Nat
  <2>1. R \in SUBSET DOMAIN f /\ R \in SUBSET DOMAIN g /\ R \in SUBSET DOMAIN h
    BY <1>1, <1>4
  <2>2. Full(f, R) \in Nat /\ Size(f, R) \in Nat
    BY <1>1, <2>1, SizeType
  <2>3. Full(g, R) \in Nat /\ Size(g, R) \in Nat
    BY <1>1, <2>1, SizeType
  <2>4. Full(h, R) \in Nat /\ Size(h, R) \in Nat
    BY <1>1, <1>4, <2>1, SizeType
  <2> QED  BY <2>2, <2>3, <2>4
<1>14. Padded(g[id]) \in Nat /\ Padded(h[id]) \in Nat /\ rest \in Nat
  <2>1. rest \in Nat
    BY <1>1, <1>4, FileTypes DEF RowSet
  <2> QED  BY <1>1, <1>5, <2>1 DEF Padded
<1> DEFINE p == Padded(g[id])
           q == Padded(h[id])
           ff == Full(f, R)
           fg == Full(g, R)
           fh == Full(h, R)
           sf == Size(f, R)
           sg == Size(g, R)
           sh == Size(h, R)
<1>15. ff <= fh + (n + take)
  <2> HIDE DEF p, q, ff, fg, fh
  <2> QED  BY <1>6, <1>9, <1>11, <1>13, <1>14 DEF p, q, ff, fg, fh
<1>16. sh + (n + take) <= sf
  <2> HIDE DEF sf, sg, sh, o, rest
  <2> QED  BY <1>5, <1>6, <1>9, <1>12, <1>13, <1>14 DEF sf, sg, sh
<1>17. \A m \in Members : m # seller => z.debt[m] = b.debt[m]
  BY <1>1, <1>3 DEF SetOff, g
<1>18. \A a \in Arcs : a # <<buyer, seller>> => z.edges[a] = b.edges[a]
  BY <1>1, <1>3 DEF SetOff, g
<1>19. SetOff(b, z, seller, buyer, n + take)
  BY <1>4, <1>8, <1>15, <1>16, <1>17, <1>18 DEF SetOff, R, f, h
<1> QED  BY <1>4, <1>19 DEF g, h, f, NextOff

\* What would be set off, one row at a time.
Nets(u, f, ids, n, x) ==
    /\ u[0] = 0
    /\ \A k \in 1..n : u[k] = IF Minus(x, u[k - 1]) <= DustMinor THEN u[k - 1]
                              ELSE u[k - 1] + Less(f[ids[k]].outstanding, Minus(x, u[k - 1]))

LEMMA NettableEnds ==
    ASSUME NEW b \in Books, Ready, NEW seller, NEW buyer, NEW x \in Nat, NEW ids, NEW n \in Nat,
           ids = NetCandidates(b, seller, buyer), ids \in [1..n -> DOMAIN b.rows],
           NEW net, net = Nettable(b, seller, buyer, x)
    PROVE  \E u \in [0..n -> Nat] : Nets(u, b.rows, ids, n, x) /\ net = u[n]
<1> DEFINE owed(id) == b.rows[id].outstanding
           step(w, id) == IF Minus(x, w) <= DustMinor THEN w ELSE w + Less(owed(id), Minus(x, w))
           V == Nat
           G == [k \in 1..n |-> [w \in V |-> step(w, ids[k])]]
           Eq(f) == f = [q \in SUBSET (1..n) |-> IF q = {} THEN 0 ELSE step(f[q \ {Max(q)}], ids[Max(q)])]
           it == CHOOSE f : Eq(f)
<1>1. 0 \in V /\ \A id \in DOMAIN b.rows : owed(id) \in Nat
  BY FileTypes DEF Books, BookSet, RowSet
<1> HIDE DEF owed
<1>2. ASSUME NEW w \in V, NEW id \in DOMAIN b.rows
      PROVE  step(w, id) \in V
  <2>1. Minus(x, w) \in Nat
    BY DEF Minus
  <2>2. Less(owed(id), Minus(x, w)) \in Nat
    BY <1>1, <2>1 DEF Less
  <2> QED  BY <2>2
<1> HIDE DEF step
<1>4. G \in [1..n -> [V -> V]]
  BY <1>2
<1> HIDE DEF V
<1>5. PICK f \in [SUBSET (1..n) -> V] : Folds(f, 0, G, n)
  <2> HIDE DEF G
  <2> QED  BY <1>1, <1>4, FoldExists
<1>6. ASSUME NEW q \in SUBSET (1..n), q # {}
      PROVE  Max(q) \in 1..n /\ q \ {Max(q)} \in SUBSET (1..n)
  BY <1>6, TopIsIn DEF Picks, Tops
<1>7. Eq(f)
  <2>1. \A q \in SUBSET (1..n) : f[q] = IF q = {} THEN 0 ELSE step(f[q \ {Max(q)}], ids[Max(q)])
    BY <1>5, <1>6 DEF Folds
  <2> QED  BY <1>5, <2>1
<1>8. Eq(it)
  <2> HIDE DEF Eq
  <2> QED  BY <1>7
<1>9. Iterates(it, 0, G, n, V)
  <2> HIDE DEF it
  <2> QED  BY <1>6, <1>8 DEF Iterates
<1>10. PICK u \in [0..n -> V] : Through(u, 0, G, n) /\ it[1..n] = u[n]
  <2> HIDE DEF it, G, Eq
  <2>1. Ends(it, 0, G, n, V)
    BY <1>1, <1>4, <1>9, FoldEnds
  <2> QED  BY <2>1 DEF Ends
<1>11. Nettable(b, seller, buyer, x) = it[1..n]
  <2>1. DOMAIN ids = 1..n
    OBVIOUS
  <2>2. Nettable(b, seller, buyer, x) = FoldLeft(LAMBDA w, id : step(w, id), 0, ids)
    BY DEF Nettable, step, owed
  <2> QED  BY <2>1, <2>2 DEF FoldLeft, MapThenFoldSet
<1> HIDE DEF it
<1>12. \A k \in 1..n : u[k] = step(u[k - 1], ids[k])
  <2> SUFFICES ASSUME NEW k \in 1..n
               PROVE  u[k] = step(u[k - 1], ids[k])
    OBVIOUS
  <2>1. k - 1 \in 0..n
    OBVIOUS
  <2>2. u[k - 1] \in V
    BY <2>1
  <2> QED  BY <1>10, <2>2 DEF Through
<1>13. u[0] = 0
  BY <1>10 DEF Through
<1>14. Nets(u, b.rows, ids, n, x)
  BY <1>12, <1>13 DEF Nets, step, owed
<1> QED  BY <1>10, <1>11, <1>14 DEF V

\* What the seller owes the buyer, set off.
LEMMA NetMutualKeeps ==
    ASSUME NEW b \in Books, Ready, NEW seller, NEW buyer, NEW x \in Nat, NEW e
    PROVE  LET net == NetMutual(b, seller, buyer, x)
           IN /\ Later(b, net.book, e) /\ net.netted \in Nat /\ net.netted <= x
              /\ SetOff(b, net.book, seller, buyer, net.netted)
              /\ Nettable(b, seller, buyer, x) = net.netted
<1> DEFINE due == {id \in DOMAIN b.rows : /\ Live(b.rows[id]) /\ b.rows[id].outstanding > DustMinor
                                          /\ b.rows[id].debtor = seller /\ b.rows[id].creditor = buyer}
           n == Cardinality(due)
           ids == NetCandidates(b, seller, buyer)
           z == [book |-> b, netted |-> 0]
           V == {s \in [book : Books, netted : Nat] : Later(b, s.book, e)}
           left(s) == Minus(x, s.netted)
           take(s, id) == Less(left(s), s.book.rows[id].outstanding)
           step(s, id) == IF left(s) <= DustMinor THEN s
                          ELSE [book |-> Hop(s.book, id, left(s)),
                                netted |-> s.netted + IF take(s, id) <= DustMinor THEN 0 ELSE take(s, id)]
           G == [k \in 1..n |-> [s \in V |-> step(s, ids[k])]]
           Eq(f) == f = [q \in SUBSET (1..n) |-> IF q = {} THEN z ELSE step(f[q \ {Max(q)}], ids[Max(q)])]
           it == CHOOSE f : Eq(f)
<1>1. /\ n \in Nat /\ ids \in [1..n -> due] /\ ids = NetCandidates(b, seller, buyer)
      /\ \A i, j \in 1..n : ids[i] = ids[j] => i = j
  <2>1. b.rows \in RowFiles
    BY DEF Books, BookSet
  <2>2. due \in SUBSET Nat /\ IsFiniteSet(due)
    BY <2>1, FileTypes, FS_Subset
  <2>3. ids = Ascending(due)
    BY DEF NetCandidates
  <2>4. ids = NetCandidates(b, seller, buyer)
    OBVIOUS
  <2> HIDE DEF due, ids
  <2> QED  BY <2>2, <2>3, <2>4, AscendingLists
<1> HIDE DEF n, ids
<1>2. z \in V
  BY LaterSelf
<1>3. ASSUME NEW s \in V, NEW id \in due
      PROVE  step(s, id) \in V
  <2> DEFINE want == left(s)
             taken == take(s, id)
             w == Hop(s.book, id, want)
  <2>1. s.book \in Books /\ s.netted \in Nat /\ Later(b, s.book, e)
    OBVIOUS
  <2>2. id \in DOMAIN s.book.rows
    BY <2>1 DEF Later, Onward
  <2>3. want \in Nat
    BY <2>1 DEF Minus
  <2>4. taken \in Nat
    <3>1. s.book.rows[id].outstanding \in Nat
      BY <2>1, <2>2, FileTypes DEF Books, BookSet, RowSet
    <3> HIDE DEF want
    <3> QED  BY <2>3, <3>1, LessType DEF want
  <2> HIDE DEF want, taken
  <2>5. Later(s.book, w, e)
    BY <2>1, <2>2, <2>3, HopLater
  <2> HIDE DEF w
  <2>6. Later(b, w, e) /\ w \in Books
    <3>1. w \in Books
      BY <2>5 DEF Later, Onward
    <3>2. Later(b, w, e)
      BY <2>1, <2>5, LaterTwice
    <3> QED  BY <3>1, <3>2
  <2> DEFINE sum == s.netted + IF taken <= DustMinor THEN 0 ELSE taken
  <2>7. sum \in Nat
    BY <2>1, <2>4
  <2>8. step(s, id) = IF want <= DustMinor THEN s ELSE [book |-> w, netted |-> sum]
    BY DEF want, taken, w
  <2> HIDE DEF sum, step
  <2> QED  BY <2>6, <2>7, <2>8
<1> HIDE DEF z, step
<1>4. G \in [1..n -> [V -> V]]
  <2> HIDE DEF V, due
  <2> QED  BY <1>1, <1>3
<1>5. PICK f \in [SUBSET (1..n) -> V] : Folds(f, z, G, n)
  <2> HIDE DEF G, V
  <2> QED  BY <1>1, <1>2, <1>4, FoldExists
<1>6. ASSUME NEW q \in SUBSET (1..n), q # {}
      PROVE  Max(q) \in 1..n /\ q \ {Max(q)} \in SUBSET (1..n)
  BY <1>1, <1>6, TopIsIn DEF Picks, Tops
<1>7. Eq(f)
  <2>1. \A q \in SUBSET (1..n) : f[q] = IF q = {} THEN z ELSE step(f[q \ {Max(q)}], ids[Max(q)])
    <3> HIDE DEF V
    <3> QED  BY <1>5, <1>6 DEF Folds
  <2> HIDE DEF V
  <2> QED  BY <1>5, <2>1
<1>8. Eq(it)
  <2> HIDE DEF Eq
  <2> QED  BY <1>7
<1>9. Iterates(it, z, G, n, V)
  <2> HIDE DEF it, V
  <2> QED  BY <1>6, <1>8 DEF Iterates
<1>10. PICK t \in [0..n -> V] : Through(t, z, G, n) /\ it[1..n] = t[n]
  <2> HIDE DEF it, G, V, Eq
  <2>1. Ends(it, z, G, n, V)
    BY <1>1, <1>2, <1>4, <1>9, FoldEnds
  <2> QED  BY <2>1 DEF Ends
<1>11. NetMutual(b, seller, buyer, x) = it[1..n]
  <2>1. DOMAIN ids = 1..n
    BY <1>1
  <2>2. NetMutual(b, seller, buyer, x) = FoldLeft(LAMBDA s, id : step(s, id), z, ids)
    BY DEF NetMutual, step, z, ids
  <2> QED  BY <2>1, <2>2 DEF FoldLeft, MapThenFoldSet
<1> HIDE DEF it
<1> DEFINE R == Lien(b.rows, seller, buyer)
           owed(id) == b.rows[id].outstanding
<1>12. \A id \in due : id \in R /\ id \in DOMAIN b.rows /\ owed(id) \in Nat /\ owed(id) > DustMinor
  BY FileTypes DEF Lien, Books, BookSet, RowSet
<1>13. PICK u \in [0..n -> Nat] :
          Nets(u, b.rows, ids, n, x) /\ Nettable(b, seller, buyer, x) = u[n]
  <2>1. ids \in [1..n -> DOMAIN b.rows] /\ n \in Nat /\ ids = NetCandidates(b, seller, buyer)
    <3> HIDE DEF due
    <3> QED  BY <1>1, <1>12
  <2> DEFINE net == Nettable(b, seller, buyer, x)
  <2>2. net = Nettable(b, seller, buyer, x)
    OBVIOUS
  <2> HIDE DEF net, V
  <2>3. \E u \in [0..n -> Nat] : Nets(u, b.rows, ids, n, x) /\ net = u[n]
    BY <2>1, <2>2, NettableEnds
  <2> QED  BY <2>3 DEF net
<1> HIDE DEF due, owed, R
<1> DEFINE P == {i \in Nat : i <= n =>
                    /\ u[i] = t[i].netted /\ t[i].netted <= x
                    /\ SetOff(b, t[i].book, seller, buyer, t[i].netted)
                    /\ \A j \in i + 1..n : t[i].book.rows[ids[j]] = b.rows[ids[j]]}
<1>14. 0 \in P
  <2>1. t[0] = z
    BY <1>10 DEF Through
  <2>2. t[0].book = b /\ t[0].netted = 0
    BY <2>1 DEF z
  <2>3. SetOff(b, b, seller, buyer, 0)
    BY SetOffSelf
  <2>4. u[0] = 0
    BY <1>13 DEF Nets
  <2> QED  BY <2>2, <2>3, <2>4
<1>15. ASSUME NEW i \in Nat, i \in P
       PROVE  i + 1 \in P
  <2> DEFINE s == t[i]
             w == t[i + 1]
             k == ids[i + 1]
             m == s.netted
             more == left(s)
             cut == take(s, k)
             y == s.book
             h == Hop(y, k, more)
  <2>1. SUFFICES ASSUME i + 1 <= n
                 PROVE  /\ u[i + 1] = w.netted /\ w.netted <= x
                        /\ SetOff(b, w.book, seller, buyer, w.netted)
                        /\ \A j \in (i + 1) + 1..n : w.book.rows[ids[j]] = b.rows[ids[j]]
    BY <1>15
  <2>2. /\ i + 1 \in 1..n /\ i \in 0..n /\ i + 1 \in 0..n /\ (i + 1) - 1 = i /\ i + 1 \in i + 1..n
        /\ u[i] = m /\ m <= x /\ SetOff(b, y, seller, buyer, m)
        /\ \A j \in i + 1..n : y.rows[ids[j]] = b.rows[ids[j]]
    BY <1>1, <1>15, <2>1
  <2>3. s \in V /\ w = step(s, k)
    <3>1. s \in V
      BY <2>2
    <3> HIDE DEF V
    <3> QED  BY <1>10, <2>2, <3>1 DEF Through
  <2>4. m \in Nat /\ more = Minus(x, m) /\ more \in Nat
    <3>1. m \in Nat
      BY <2>3
    <3> QED  BY <3>1 DEF Minus
  <2>5. k \in due /\ k \in R /\ k \in DOMAIN b.rows
    BY <1>1, <1>12, <2>2
  <2>6. y.rows[k].outstanding = owed(k) /\ owed(k) \in Nat /\ owed(k) > DustMinor /\ DustMinor \in Nat
    BY <1>12, <2>2, <2>5 DEF owed, Ready
  <2>7. u[i + 1] = IF more <= DustMinor THEN m ELSE m + Less(owed(k), more)
    BY <1>13, <2>2, <2>4 DEF Nets, owed
  <2>8. cut = Less(more, owed(k))
    BY <2>6
  <2>9. w = IF more <= DustMinor THEN s
            ELSE [book |-> h, netted |-> m + IF cut <= DustMinor THEN 0 ELSE cut]
    BY <2>3 DEF step
  <2> HIDE DEF s, w, more, cut, h, m, k, V, P, y
  <2>10. CASE more <= DustMinor
    <3>1. w = s
      BY <2>9, <2>10
    <3>2. \A j \in (i + 1) + 1..n : j \in i + 1..n
      BY <1>1
    <3> QED  BY <2>2, <2>7, <2>10, <3>1, <3>2 DEF m, y
  <2>11. CASE ~(more <= DustMinor)
    <3> DEFINE d == Discharged(y, k, cut)
    <3>1. /\ cut \in Nat /\ cut > DustMinor /\ cut <= owed(k) /\ cut <= more /\ Less(owed(k), more) = cut
      BY <2>4, <2>6, <2>8, <2>11 DEF Less
    <3>2. h = d
      BY <2>6, <2>8, <3>1 DEF h, Hop
    <3>3. w.book = d /\ w.netted = m + cut
      BY <2>6, <2>9, <2>11, <3>1, <3>2
    <3>4. SetOff(b, d, seller, buyer, m + cut) /\ \A j \in DOMAIN b.rows : j # k => d.rows[j] = y.rows[j]
      <4>1. /\ SetOff(b, y, seller, buyer, m) /\ m \in Nat /\ k \in Lien(b.rows, seller, buyer)
            /\ cut \in Nat /\ cut > DustMinor /\ cut <= y.rows[k].outstanding
        BY <2>2, <2>4, <2>5, <2>6, <3>1 DEF R
      <4>2. d = Discharged(y, k, cut)
        OBVIOUS
      <4> HIDE DEF d
      <4>3. NextOff(b, y, d, seller, buyer, m + cut, k)
        BY <4>1, <4>2, SetOffOnce
      <4> QED  BY <4>3 DEF NextOff
    <3> HIDE DEF d
    <3>5. m + cut <= x
      BY <2>2, <2>4, <3>1 DEF Minus
    <3>6. \A j \in (i + 1) + 1..n : d.rows[ids[j]] = b.rows[ids[j]]
      <4> SUFFICES ASSUME NEW j \in (i + 1) + 1..n
                   PROVE  d.rows[ids[j]] = b.rows[ids[j]]
        OBVIOUS
      <4>1. j \in i + 1..n /\ j \in 1..n /\ j # i + 1
        BY <1>1, <2>2
      <4>2. ids[j] # k /\ ids[j] \in DOMAIN b.rows
        BY <1>1, <1>12, <2>2, <4>1 DEF k
      <4> QED  BY <2>2, <3>4, <4>1, <4>2
    <3> QED  BY <2>7, <2>11, <3>1, <3>3, <3>4, <3>5, <3>6
  <2> QED  BY <2>10, <2>11
<1>16. n \in P
  <2> HIDE DEF P
  <2> QED  BY <1>1, <1>14, <1>15, NumberInduction
<1>17. /\ t[n].netted <= x /\ SetOff(b, t[n].book, seller, buyer, t[n].netted)
       /\ Nettable(b, seller, buyer, x) = t[n].netted
  BY <1>1, <1>13, <1>16
<1>18. t[n] \in V
  <2> HIDE DEF V
  <2> QED  BY <1>1
<1> QED  BY <1>10, <1>11, <1>17, <1>18

\* From b to y the buyer comes to owe x more, or nothing where x is dust.
Lent(b, y, buyer, x) ==
    /\ y.rows \in RowFiles /\ DOMAIN b.rows \subseteq DOMAIN y.rows
    /\ \A i \in DOMAIN b.rows : y.rows[i] = b.rows[i]
    /\ \A i \in DOMAIN y.rows \ DOMAIN b.rows : y.rows[i].debtor = buyer
    /\ \A m \in Members : y.debt[m] = b.debt[m] + IF m = buyer /\ x > DustMinor THEN x ELSE 0

\* What no cascade could place: one more row, on a reservation or on none.
LEMMA SaleRowGood ==
    ASSUME NEW b, Good(b, epoch), Ready, epoch \in Nat, NEW buyer \in Members, NEW seller \in Members,
           buyer # seller, NEW x \in Int, NEW date \in Nat, epoch <= date,
           NEW y \in Genesis(b, buyer, seller, x, date)
    PROVE  Good(y, epoch) /\ Lent(b, y, buyer, x)
<1>1. b \in Books /\ DustMinor \in Nat
  BY DEF Good, Ready
<1>2. CASE x <= DustMinor
  <2>1. y = b
    BY <1>2 DEF Genesis
  <2>2. b.rows \in RowFiles /\ \A m \in Members : b.debt[m] \in Nat
    BY <1>1 DEF Books, BookSet, Purses
  <2>3. ~(x > DustMinor)
    BY <1>1, <1>2
  <2> QED  BY <2>1, <2>2, <2>3 DEF Lent
<1>3. CASE ~(x <= DustMinor)
  <2>1. PICK t \in IF date <= epoch + InsuredHorizon THEN Taken(b, buyer, x) ELSE {Uninsured} :
           y = Opened(Reserve(b, t.held), Row(buyer, seller, x, date, t, epoch, epoch))
    BY <1>3 DEF Genesis
  <2>2. t \in Taken(b, buyer, x) \cup {Uninsured} /\ x \in Nat
    BY <1>1, <1>3, <2>1
  <2>3. /\ t \in Holdings /\ t.held.supply[buyer] = 0
        /\ HeldAmount(t.held) = IF t.insured THEN x ELSE 0
        /\ HeldAmount(t.held) = 0 => t.held = Nothing
        /\ Filled(b) => \A k \in Places : Booked(b, k) + At(t.held, k) <= Stock(b, k)
    BY <1>1, <2>2, TakenWhole
  <2> DEFINE now == epoch
             h == t.held
             r == Row(buyer, seller, x, date, t, now, now)
  <2>4. now \in Nat
    OBVIOUS
  <2>5. y = Opened(Reserve(b, h), r)
    BY <2>1
  <2>6. /\ h = t.held /\ now = epoch
    OBVIOUS
  <2> HIDE DEF now, h
  <2>7. /\ r \in RowSet
        /\ r.outstanding = x /\ r.original = x /\ r.maturity = date /\ r.arb = NoTerms
        /\ r.debtor = buyer /\ r.creditor = seller /\ r.status = "Active"
        /\ r.insured = t.insured /\ r.held = t.held
    <3>1. r \in RowSet
      BY <2>2, <2>3, <2>4, RowType
    <3> QED  BY <3>1 DEF Row
  <2> HIDE DEF r
  <2>8. ~Due(r, epoch) /\ r.outstanding <= r.original
    <3>1. r.maturity = date /\ epoch <= r.maturity
      BY <2>7
    <3> QED  BY <2>2, <2>7, <3>1, NotYetDue
  <2>9. RowSound(r)
    BY <2>3, <2>7, RowBacked
  <2>10. r.held = h /\ (Filled(b) => \A k \in Places : Booked(b, k) + At(r.held, k) <= Stock(b, k))
    BY <2>3, <2>6, <2>7
  <2>11. Good(Opened(Reserve(b, r.held), r), epoch)
    BY <2>7, <2>8, <2>9, <2>10, BareRowGood
  <2>12. Lent(b, y, buyer, x)
    <3> DEFINE c == Reserve(b, h)
               k == c.next
               f == b.rows
    <3>1. h \in HoldSet
      BY <2>3, <2>6 DEF Holdings
    <3>2. c \in BookSet /\ c.rows = b.rows /\ c.debt = b.debt
      BY <1>1, <3>1, ReserveLater
    <3>3. b.debt \in Purses /\ f \in RowFiles
      BY <1>1 DEF Books, BookSet
    <3> HIDE DEF c, h
    <3>4. y \in BookSet /\ y.rows = Added(f, k, r) /\ y.debt = [b.debt EXCEPT ![buyer] = @ + x]
      BY <2>5, <2>7, <3>2, OpenedFields DEF c
    <3>5. k \notin DOMAIN f
      <4>1. c.next = b.next
        BY <1>1, <3>1, ReserveLater DEF c
      <4>2. \A i \in DOMAIN f : i < b.next /\ i \in Nat /\ b.next \in Nat
        BY <1>1, <3>3, FileTypes DEF Books, BookSet
      <4> QED  BY <4>1, <4>2
    <3> HIDE DEF k, f
    <3>6. /\ DOMAIN Added(f, k, r) = DOMAIN f \cup {k} /\ Added(f, k, r)[k] = r
          /\ \A i \in DOMAIN f : Added(f, k, r)[i] = f[i]
      BY <3>5 DEF Added
    <3>7. y.rows \in RowFiles
      BY <3>4 DEF BookSet
    <3>8. x > DustMinor
      BY <1>1, <1>3
    <3>9. \A m \in Members : y.debt[m] = b.debt[m] + IF m = buyer /\ x > DustMinor THEN x ELSE 0
      <4> SUFFICES ASSUME NEW m \in Members
                   PROVE  y.debt[m] = b.debt[m] + IF m = buyer /\ x > DustMinor THEN x ELSE 0
        OBVIOUS
      <4>1. DOMAIN b.debt = Members /\ b.debt[m] \in Nat
        BY <3>3 DEF Purses
      <4> QED  BY <2>2, <3>4, <3>8, <4>1
    <3>10. \A i \in DOMAIN y.rows \ DOMAIN f : y.rows[i].debtor = buyer
      BY <2>7, <3>4, <3>6
    <3> QED  BY <3>4, <3>6, <3>7, <3>9, <3>10 DEF Lent, f
  <2> QED  BY <2>5, <2>10, <2>11, <2>12
<1> QED  BY <1>2, <1>3

\* What a sale of x makes of b: n is set off, and the rest is cleared of what
\* others owe and assumed by the buyer, or newly owed.
Deal(b, y, seller, buyer, x) ==
    \E c \in Books, n \in 0..x :
       /\ Good(c, epoch) /\ SetOff(b, c, seller, buyer, n)
       /\ \/ y = c /\ x <= n + DustMinor
          \/ \E s \in Cascades, a \in Books :
                /\ Midway(s, c, buyer) /\ Ended(c, s, buyer, seller, x - n)
                /\ TakenOn(s.book, a, s.assumed, DOMAIN s.assumed, buyer)
                /\ Lent(a, y, buyer, x - n - s.spent)

\* The whole sale: what is netted, cleared, assumed and newly owed.
LEMMA SellGood ==
    ASSUME Good(book, epoch), Ready, Weighed, Apart, epoch \in Nat, NEW seller \in Members, NEW buyer \in Members,
           NEW x \in Nat, NEW term \in MinMaturity..MaxHorizon, NEW S, Sell(seller, buyer, x, term, S)
    PROVE  Good(book', epoch) /\ Deal(book, book', seller, buyer, x)
<1> DEFINE net == NetMutual(book, seller, buyer, x)
           b == net.book
           budget == x - net.netted
           date == epoch + term
           n == net.netted
<1>1. /\ Later(book, b, epoch) /\ n \in Nat /\ n <= x /\ SetOff(book, b, seller, buyer, n)
      /\ Nettable(book, seller, buyer, x) = n
  BY NetMutualKeeps DEF Good
<1>2. /\ seller # buyer
      /\ \/ book' = b /\ x <= n + DustMinor
         \/ \E s \in Cascaded(b, seller, buyer, budget, date) :
               book' \in Genesis(Assumed(s, buyer), buyer, seller, Remaining(s, budget), date)
  BY <1>1 DEF Sell
<1>3. date \in Nat /\ epoch <= date
  BY LedgerAssumption
<1>4. budget \in Nat /\ budget = x - n
  BY <1>1
<1> HIDE DEF budget, date
<1> HIDE DEF net, n
<1>5. Good(b, epoch)
  BY <1>1, LaterGood
<1>8. b \in Books /\ n \in 0..x
  BY <1>1, <1>5 DEF Good
<1>6. CASE book' = b /\ x <= n + DustMinor
  BY <1>1, <1>5, <1>6, <1>8 DEF Deal
<1>7. ASSUME NEW s \in Cascaded(b, seller, buyer, budget, date),
             book' \in Genesis(Assumed(s, buyer), buyer, seller, Remaining(s, budget), date)
      PROVE  Good(book', epoch) /\ Deal(book, book', seller, buyer, x)
  <2> DEFINE a == Assumed(s, buyer)
             rest == Remaining(s, budget)
             y == book'
  <2>1. Midway(s, b, buyer) /\ Ended(b, s, buyer, seller, budget)
    BY <1>2, <1>3, <1>4, <1>5, <1>7, CascadedKeeps
  <2>7. Heavy(s.assumed)
    <3>1. Heavy(Started(b, buyer).assumed)
      BY DEF Heavy, Started
    <3> QED  BY <2>1, <3>1 DEF Ended, Moves
  <2>2. Onward(b, a, epoch) /\ Sound(a) /\ TakenOn(s.book, a, s.assumed, DOMAIN s.assumed, buyer)
    BY <2>1, <2>7, AssumedKeeps
  <2>3. rest \in Int /\ rest = budget - s.spent
    BY <1>4, <2>1, MidwayParts DEF Remaining
  <2>4. y \in Genesis(a, buyer, seller, rest, date)
    BY <1>7
  <2> HIDE DEF a, rest
  <2>5. Good(a, epoch)
    BY <1>5, <2>2, OnwardGood
  <2> HIDE DEF y
  <2>6. Good(y, epoch) /\ Lent(a, y, buyer, rest)
    BY <1>2, <1>3, <2>3, <2>4, <2>5, SaleRowGood
  <2>8. s \in Cascades /\ a \in Books
    BY <2>1, <2>5, MidwayParts DEF Good
  <2>9. Deal(book, y, seller, buyer, x)
    BY <1>1, <1>4, <1>5, <1>8, <2>1, <2>2, <2>3, <2>6, <2>8 DEF Deal
  <2> QED  BY <2>6, <2>9 DEF y
<1> QED  BY <1>2, <1>6, <1>7

-----------------------------------------------------------------------------
(* What a sale leaves of what was owed *)

LEMMA SizePart ==
    ASSUME DustMinor \in Nat, NEW f \in RowFiles, NEW W \in SUBSET DOMAIN f, NEW R \in SUBSET W
    PROVE  Size(f, R) <= Size(f, W)
<1> DEFINE w == [i \in W |-> f[i].outstanding]
           u == [i \in R |-> f[i].outstanding]
<1>1. IsFiniteSet(W) /\ \A i \in W : w[i] \in Nat
  BY SizeType
<1>2. IsFiniteSet(R) /\ \A i \in R : u[i] \in Nat /\ u[i] = w[i]
  BY <1>1, FS_Subset
<1>3. Size(f, W) = SumFunctionOnSet(w, W) /\ Size(f, R) = SumFunctionOnSet(u, R)
  BY DEF Size
<1> HIDE DEF u, w
<1>4. SumFunctionOnSet(u, R) = SumFunctionOnSet(w, R)
  BY <1>2, SumCongruent
<1>5. SumFunctionOnSet(w, R) <= SumFunctionOnSet(w, W)
  BY <1>1, SumOfPart
<1> QED  BY <1>3, <1>4, <1>5

LEMMA SizesApart ==
    ASSUME DustMinor \in Nat, NEW f \in RowFiles, NEW R \in SUBSET DOMAIN f, NEW N \in SUBSET DOMAIN f, R \cap N = {}
    PROVE  Size(f, R \cup N) = Size(f, R) + Size(f, N)
<1> DEFINE W == R \cup N
           o(i) == f[i].outstanding
           r == [i \in R |-> o(i)]
           n == [i \in N |-> o(i)]
           u == [i \in W |-> IF i \in R THEN o(i) ELSE 0]
           v == [i \in W |-> IF i \in R THEN 0 ELSE o(i)]
           w == [i \in W |-> o(i)]
<1>1. IsFiniteSet(W) /\ \A i \in W : o(i) \in Nat
  BY SizeType
<1>2. \A i \in W : u[i] \in Nat /\ v[i] \in Nat /\ w[i] = u[i] + v[i]
  <2> HIDE DEF W, o
  <2> QED  BY <1>1
<1>3. R \in SUBSET W /\ N \in SUBSET W /\ IsFiniteSet(R) /\ IsFiniteSet(N)
  BY <1>1, FS_Subset
<1>4. /\ \A i \in R : r[i] \in Nat /\ r[i] = u[i]
      /\ \A i \in N : n[i] \in Nat /\ n[i] = v[i]
      /\ \A i \in W \ R : u[i] = 0
      /\ \A i \in W \ N : v[i] = 0
  <2> HIDE DEF o
  <2> QED  BY <1>1
<1>5. Size(f, R) = SumFunctionOnSet(r, R) /\ Size(f, N) = SumFunctionOnSet(n, N) /\ Size(f, W) = SumFunctionOnSet(w, W)
  BY DEF Size
<1> HIDE DEF W, o, r, n, u, v, w
<1>6. SumFunctionOnSet(w, W) = SumFunctionOnSet(u, W) + SumFunctionOnSet(v, W)
  BY <1>1, <1>2, SumPlus
<1>7. SumFunctionOnSet(u, W) = SumFunctionOnSet(u, R)
  BY <1>1, <1>2, <1>3, <1>4, SumOnSupport
<1>8. SumFunctionOnSet(v, W) = SumFunctionOnSet(v, N)
  BY <1>1, <1>2, <1>3, <1>4, SumOnSupport
<1>9. SumFunctionOnSet(r, R) = SumFunctionOnSet(u, R)
  BY <1>3, <1>4, SumCongruent
<1>10. SumFunctionOnSet(n, N) = SumFunctionOnSet(v, N)
  BY <1>3, <1>4, SumCongruent
<1> QED  BY <1>5, <1>6, <1>7, <1>8, <1>9, <1>10 DEF W

LEMMA SizeAlike ==
    ASSUME NEW f, NEW g, NEW R, \A i \in R : g[i] = f[i]
    PROVE  Size(g, R) = Size(f, R) /\ Full(g, R) = Full(f, R)
<1>1. [i \in R |-> g[i].outstanding] = [i \in R |-> f[i].outstanding]
  OBVIOUS
<1>2. [i \in R |-> Padded(g[i])] = [i \in R |-> Padded(f[i])]
  OBVIOUS
<1> QED  BY <1>1, <1>2 DEF Size, Full

OwedIn(b, R) == Sum([id \in R |-> b.rows[id].outstanding])

\* Rows that do not live owe nothing.
LEMMA OwedIs ==
    ASSUME DustMinor \in Nat, NEW b \in BookSet, RowsSound(b), NEW R \in SUBSET DOMAIN b.rows, NEW L,
           L = {i \in R : Live(b.rows[i])}
    PROVE  OwedIn(b, L) = Size(b.rows, R)
<1> DEFINE f == b.rows
           u == [id \in L |-> f[id].outstanding]
           v == [id \in R |-> f[id].outstanding]
<1>1. f \in RowFiles /\ L \in SUBSET R
  BY DEF BookSet
<1>2. IsFiniteSet(R) /\ \A i \in R : v[i] \in Nat
  BY <1>1, SizeType
<1>3. /\ \A i \in R \ L : v[i] = 0
      /\ IsFiniteSet(L) /\ \A i \in L : u[i] \in Nat /\ u[i] = v[i]
  BY <1>1, <1>2, FS_Subset DEF RowsSound, RowSound
<1>4. DOMAIN u = L /\ Size(f, R) = SumFunctionOnSet(v, R)
  BY DEF Size
<1> HIDE DEF u, v
<1>5. SumFunctionOnSet(v, R) = SumFunctionOnSet(v, L)
  BY <1>1, <1>2, <1>3, SumOnSupport
<1>6. SumFunctionOnSet(u, L) = SumFunctionOnSet(v, L)
  BY <1>3, SumCongruent
<1>7. Sum(u) = SumFunctionOnSet(u, L)
  BY <1>4, SumIs
<1> QED  BY <1>4, <1>5, <1>6, <1>7 DEF u, f, OwedIn

\* What a member owes, by its rows.
LEMMA DebtIsSize ==
    ASSUME DustMinor \in Nat, NEW b \in BookSet, Balanced(b), RowsSound(b), NEW m \in Members
    PROVE  b.debt[m] = Size(b.rows, DebtRows(b.rows, m))
<1> DEFINE R == DebtRows(b.rows, m)
           L == {i \in DOMAIN b.rows : b.rows[i].debtor = m /\ b.rows[i].status \in Counting("debt")}
<1>1. R \in SUBSET DOMAIN b.rows /\ L = {i \in R : Live(b.rows[i])}
  BY DEF DebtRows, Live, Counting
<1>2. OwedIn(b, L) = Tally(b, m, "debt")
  BY CountedIsTally DEF OwedIn
<1>3. b.debt[m] = Tally(b, m, "debt")
  BY DEF Balanced, Kinds, Cached
<1> HIDE DEF R, L
<1>4. OwedIn(b, L) = Size(b.rows, R)
  BY <1>1, OwedIs
<1> QED  BY <1>2, <1>3, <1>4 DEF R

\* The rows and the debts of a sale, from the netted book c to its end.
Dealt(c, s, y, buyer, rest) ==
    /\ SameTerms(c.rows, s.book.rows, Members \ {buyer}, buyer)
    /\ c.rows \in RowFiles /\ s.book.rows \in RowFiles /\ y.rows \in RowFiles
    /\ DOMAIN c.rows \subseteq DOMAIN y.rows /\ \A i \in DOMAIN c.rows : y.rows[i] = s.book.rows[i]
    /\ \A i \in DOMAIN y.rows \ DOMAIN c.rows : y.rows[i].debtor = buyer
    /\ \A m \in Members \ {buyer} : y.debt[m] = s.book.debt[m] /\ y.debt[m] <= c.debt[m]
    /\ y.debt[buyer] = c.debt[buyer] + s.spent + IF rest > DustMinor THEN rest ELSE 0

LEMMA DealRows ==
    ASSUME Ready, epoch \in Nat, NEW c \in Books,
           NEW seller \in Members, NEW buyer \in Members, seller # buyer,
           NEW s, Midway(s, c, buyer),
           NEW budget \in Nat, Ended(c, s, buyer, seller, budget), NEW a \in Books,
           TakenOn(s.book, a, s.assumed, DOMAIN s.assumed, buyer), NEW y,
           NEW rest, rest = budget - s.spent, Lent(a, y, buyer, rest)
    PROVE  Dealt(c, s, y, buyer, rest)
<1> DEFINE o == Started(c, buyer)
           A == s.assumed
           more == IF rest > DustMinor THEN rest ELSE 0
<1>1. /\ o.book = c /\ o.assumed = <<>> /\ o.spent = 0 /\ Moves(o, s, Members \ {buyer}, buyer, s.spent)
  BY DEF Started, Ended
<1>2. /\ s.book \in Books /\ A \in Slots /\ s.spent \in Nat
  BY MidwayParts
<1>3. /\ c.rows \in RowFiles /\ s.book.rows \in RowFiles /\ y.rows \in RowFiles
      /\ \A m \in Members : s.book.debt[m] \in Nat /\ c.debt[m] \in Nat
  BY <1>2 DEF Books, BookSet, Purses, Lent
<1>4. /\ SameTerms(c.rows, s.book.rows, Members \ {buyer}, buyer)
      /\ Relieved(c, s.book, Members \ {buyer}) /\ Promised(A, Pairs) = Promised(<<>>, Pairs) + s.spent
  BY <1>1 DEF Moves
<1>5. Promised(A, Pairs) = s.spent
  <2>1. DOMAIN <<>> \cap Pairs = {}
    OBVIOUS
  <2>2. Promised(<<>>, Pairs) = 0
    BY <2>1, SumOfNothing DEF Promised
  <2> QED  BY <1>2, <1>4, <2>2
<1>6. SumFunctionOnSet(Amounts(A), DOMAIN A) = s.spent
  <2>1. DOMAIN A \cap Pairs = DOMAIN A
    BY <1>2, SlotTypes DEF Pairs
  <2> QED  BY <1>5, <2>1 DEF Promised
<1>7. /\ DOMAIN c.rows = DOMAIN s.book.rows
      /\ DOMAIN s.book.rows \subseteq DOMAIN a.rows /\ \A i \in DOMAIN s.book.rows : a.rows[i] = s.book.rows[i]
      /\ \A i \in DOMAIN a.rows \ DOMAIN s.book.rows : a.rows[i].debtor = buyer
      /\ \A m \in Members : a.debt[m] = s.book.debt[m] + IF m = buyer THEN s.spent ELSE 0
  BY <1>4, <1>6 DEF TakenOn, SameTerms
<1>8. /\ DOMAIN a.rows \subseteq DOMAIN y.rows /\ \A i \in DOMAIN a.rows : y.rows[i] = a.rows[i]
      /\ \A i \in DOMAIN y.rows \ DOMAIN a.rows : y.rows[i].debtor = buyer
      /\ \A m \in Members : y.debt[m] = a.debt[m] + IF m = buyer /\ rest > DustMinor THEN rest ELSE 0
  BY DEF Lent
<1>9. DOMAIN c.rows \subseteq DOMAIN y.rows /\ \A i \in DOMAIN c.rows : y.rows[i] = s.book.rows[i]
  BY <1>7, <1>8
<1>10. \A i \in DOMAIN y.rows \ DOMAIN c.rows : y.rows[i].debtor = buyer
  BY <1>7, <1>8
<1>11. \A m \in Members \ {buyer} : y.debt[m] = s.book.debt[m] /\ y.debt[m] <= c.debt[m]
  BY <1>3, <1>4, <1>7, <1>8 DEF Relieved
<1>12. y.debt[buyer] = c.debt[buyer] + s.spent + more
  <2>1. s.book.debt[buyer] = c.debt[buyer]
    BY <1>4 DEF Relieved
  <2>2. a.debt[buyer] = c.debt[buyer] + s.spent
    BY <1>7, <2>1
  <2>3. y.debt[buyer] = a.debt[buyer] + more
    BY <1>8
  <2> QED  BY <2>2, <2>3
<1> QED  BY <1>3, <1>4, <1>9, <1>10, <1>11, <1>12 DEF Dealt

LEMMA DealExact ==
    ASSUME Ready, epoch \in Nat, NEW b \in Books, NEW seller \in Members, NEW buyer \in Members, seller # buyer,
           NEW x \in Nat, NEW y \in Books, Deal(b, y, seller, buyer, x),
           NEW R, R = Lien(b.rows, seller, buyer), NEW Q, Q = Lien(y.rows, seller, buyer)
    PROVE  /\ Size(b.rows, R) + y.debt[buyer] <= Size(y.rows, Q) + b.debt[buyer] + x + DustMinor * Cardinality(R)
           /\ Size(y.rows, Q) + b.debt[buyer] + x <= Size(b.rows, R) + y.debt[buyer] + DustMinor
<1>1. PICK c \in Books, n \in 0..x :
         /\ Good(c, epoch) /\ SetOff(b, c, seller, buyer, n)
         /\ \/ y = c /\ x <= n + DustMinor
            \/ \E s \in Cascades, a \in Books :
                  /\ Midway(s, c, buyer) /\ Ended(c, s, buyer, seller, x - n)
                  /\ TakenOn(s.book, a, s.assumed, DOMAIN s.assumed, buyer)
                  /\ Lent(a, y, buyer, x - n - s.spent)
  BY DEF Deal
<1> DEFINE f == b.rows
           h == c.rows
           g == y.rows
           was == Size(f, R)
           mid == Size(h, R)
           dust == DustMinor * Cardinality(R)
           d == b.debt[buyer]
           e == y.debt[buyer]
<1>2. /\ f \in RowFiles /\ h \in RowFiles /\ g \in RowFiles /\ DustMinor \in Nat /\ d \in Nat /\ e \in Nat /\ c.debt[buyer] = d
      /\ R \in SUBSET DOMAIN f /\ DOMAIN h = DOMAIN f /\ R = Lien(h, seller, buyer)
  BY <1>1 DEF SetOff, Lien, Books, BookSet, Purses, Ready
<1>3. Full(f, R) <= Full(h, R) + n /\ mid + n <= was
  BY <1>1 DEF SetOff
<1> HIDE DEF f, h, g, d, e
<1>4. was \in Nat /\ mid \in Nat /\ dust \in Nat /\ was <= mid + n + dust
  <2>1. was \in Nat /\ Full(f, R) \in Nat /\ was <= Full(f, R)
    BY <1>2, SizeType
  <2>2. mid \in Nat /\ Full(h, R) \in Nat /\ Full(h, R) <= mid + dust /\ IsFiniteSet(R)
    BY <1>2, SizeType
  <2>3. dust \in Nat
    BY <1>2, <2>2, FS_CardinalityType, ProductIsNatural
  <2> DEFINE ff == Full(f, R)
             fh == Full(h, R)
  <2> HIDE DEF was, mid, dust, ff, fh
  <2> QED  BY <1>3, <2>1, <2>2, <2>3 DEF ff, fh
<1>5. Size(g, Q) = mid /\ d + (x - n) <= e + DustMinor /\ e <= d + (x - n)
  <2>1. CASE y = c /\ x <= n + DustMinor
    <3>1. Size(g, Q) = mid /\ e = d
      BY <1>2, <2>1 DEF g, h, e, d
    <3> HIDE DEF mid
    <3> QED  BY <1>2, <2>1, <3>1
  <2>2. CASE \E s \in Cascades, a \in Books :
                  /\ Midway(s, c, buyer) /\ Ended(c, s, buyer, seller, x - n)
                  /\ TakenOn(s.book, a, s.assumed, DOMAIN s.assumed, buyer)
                  /\ Lent(a, y, buyer, x - n - s.spent)
    <3> DEFINE budget == x - n
    <3>1. PICK s \in Cascades, a \in Books :
                  /\ Midway(s, c, buyer) /\ Ended(c, s, buyer, seller, budget)
                  /\ TakenOn(s.book, a, s.assumed, DOMAIN s.assumed, buyer)
                  /\ Lent(a, y, buyer, budget - s.spent)
      BY <2>2
    <3>2. budget \in Nat /\ s.spent \in Nat /\ s.spent <= budget
      BY <3>1, MidwayParts DEF Ended
    <3> DEFINE k == s.book.rows
               rest == budget - s.spent
    <3>3. /\ SameTerms(h, k, Members \ {buyer}, buyer)
          /\ DOMAIN h \subseteq DOMAIN g /\ \A i \in DOMAIN h : g[i] = k[i]
          /\ \A i \in DOMAIN g \ DOMAIN h : g[i].debtor = buyer
          /\ e = d + s.spent + IF rest > DustMinor THEN rest ELSE 0
      <4>1. /\ Midway(s, c, buyer) /\ Ended(c, s, buyer, seller, budget)
            /\ TakenOn(s.book, a, s.assumed, DOMAIN s.assumed, buyer)
            /\ budget \in Nat /\ rest = budget - s.spent /\ Lent(a, y, buyer, rest)
        BY <3>1, <3>2
      <4> HIDE DEF budget, rest
      <4>2. Dealt(c, s, y, buyer, rest)
        BY <4>1, DealRows
      <4> QED  BY <1>2, <4>2 DEF Dealt, h, g, e
    <3> HIDE DEF k
    <3>4. \A i \in DOMAIN h : /\ g[i].debtor = h[i].debtor /\ g[i].creditor = h[i].creditor
                              /\ h[i].creditor = buyer => g[i] = h[i]
      BY <3>3 DEF SameTerms, Remains
    <3>5. Q = R
      BY <1>2, <3>3, <3>4 DEF Lien, g
    <3>6. Size(g, R) = mid
      <4>1. \A i \in R : g[i] = h[i]
        BY <1>2, <3>4 DEF Lien
      <4> QED  BY <4>1, SizeAlike
    <3> HIDE DEF budget
    <3>7. d + budget <= e + DustMinor /\ e <= d + budget
      BY <1>2, <3>2, <3>3
    <3> QED  BY <3>5, <3>6, <3>7 DEF budget
  <2> QED  BY <1>1, <2>1, <2>2
<1> DEFINE end == Size(g, Q)
<1>6. was + e <= end + d + x + dust /\ end + d + x <= was + e + DustMinor
  <2> HIDE DEF was, mid, dust, end
  <2> QED  BY <1>2, <1>3, <1>4, <1>5 DEF end
<1> QED  BY <1>6 DEF f, g, d, e

\* The stakes a cap is read from are none the netting touched.
LEMMA DrainsAlike ==
    ASSUME Apart, NEW b, NEW c, NEW seller, NEW buyer, NEW m \in Members, m # seller, m # buyer,
           NEW n, SetOff(b, c, seller, buyer, n)
    PROVE  MostDrained(c, m) = MostDrained(b, m)
<1> DEFINE L == {l \in approved[m] : m \in DOMAIN beneficiaries[l]}
<1>0. \A a \in Arcs : a # <<buyer, seller>> => c.edges[a] = b.edges[a]
  BY DEF SetOff
<1>1. \A l \in L : PairStake(c, l, m) = PairStake(b, l, m)
  <2> SUFFICES ASSUME NEW l \in L
               PROVE  PairStake(c, l, m) = PairStake(b, l, m)
    OBVIOUS
  <2>1. l \in Members /\ l # m
    BY DEF Apart
  <2>2. /\ <<l, m>> \in Arcs /\ <<m, l>> \in Arcs
        /\ <<l, m>> # <<buyer, seller>> /\ <<m, l>> # <<buyer, seller>>
    BY <2>1 DEF Arcs
  <2> QED  BY <1>0, <2>2 DEF PairStake
<1>2. Drains(c, m) = {(PairStake(c, l, m) * NuNum) \div NuDen : l \in L}
  BY DEF Drains
<1>3. Drains(b, m) = {(PairStake(b, l, m) * NuNum) \div NuDen : l \in L}
  BY DEF Drains
<1> HIDE DEF L
<1>4. Drains(c, m) = Drains(b, m)
  BY <1>1, <1>2, <1>3
<1> QED  BY <1>4 DEF MostDrained

LEMMA DealCapped ==
    ASSUME Ready, Apart, epoch \in Nat, NEW b \in Books, NEW seller \in Members, NEW buyer \in Members, seller # buyer,
           NEW x \in Nat, NEW y, Deal(b, y, seller, buyer, x), NEW m \in Members, m # seller, m # buyer,
           NEW R, R = DebtRows(b.rows, m)
    PROVE  b.debt[m] <= y.debt[m] + DustMinor * Cardinality(R) + MostDrained(b, m) /\ y.debt[m] <= b.debt[m]
           /\ DustMinor * Cardinality(R) \in Nat /\ MostDrained(b, m) \in Nat
<1>1. PICK c \in Books, n \in 0..x :
         /\ Good(c, epoch) /\ SetOff(b, c, seller, buyer, n)
         /\ \/ y = c /\ x <= n + DustMinor
            \/ \E s \in Cascades, a \in Books :
                  /\ Midway(s, c, buyer) /\ Ended(c, s, buyer, seller, x - n)
                  /\ TakenOn(s.book, a, s.assumed, DOMAIN s.assumed, buyer)
                  /\ Lent(a, y, buyer, x - n - s.spent)
  BY DEF Deal
<1> DEFINE h == c.rows
           d == b.debt[m]
           e == y.debt[m]
           dust == DustMinor * Cardinality(R)
           most == MostDrained(b, m)
<1>2. /\ c.debt[m] = d /\ d \in Nat /\ DustMinor \in Nat /\ h \in RowFiles /\ c \in BookSet
      /\ Balanced(c) /\ RowsSound(c) /\ R = DebtRows(h, m) /\ R \in SUBSET DOMAIN h
  <2>1. c \in BookSet /\ b \in BookSet /\ h \in RowFiles
    BY DEF Books, BookSet
  <2>2. d \in Nat
    BY <2>1 DEF BookSet, Purses
  <2>3. /\ DOMAIN h = DOMAIN b.rows /\ \A i \in DOMAIN b.rows : h[i].debtor = b.rows[i].debtor
        /\ c.debt[m] = d
    BY <1>1 DEF SetOff
  <2>4. R = DebtRows(h, m)
    BY <2>3 DEF DebtRows
  <2> QED  BY <1>1, <2>1, <2>2, <2>3, <2>4 DEF Good, Sound, Ready, DebtRows
<1>3. MostDrained(c, m) = most /\ most \in Nat
  <2>1. SetOff(b, c, seller, buyer, n)
    BY <1>1
  <2>3. MostDrained(c, m) = MostDrained(b, m)
    <3> HIDE DEF most
    <3> QED  BY <2>1, DrainsAlike
  <2>2. MostDrained(c, m) \in Nat
    BY <1>2, DrainsType
  <2> QED  BY <2>2, <2>3
<1>4. dust \in Nat /\ IsFiniteSet(R)
  <2> HIDE DEF h
  <2>1. IsFiniteSet(R)
    BY <1>2, SizeType
  <2> QED  BY <1>2, <2>1, FS_CardinalityType, ProductIsNatural
<1>5. CASE y = c /\ x <= n + DustMinor
  <2>1. e = d
    BY <1>2, <1>5
  <2> HIDE DEF d, e, dust, most
  <2> QED  BY <1>2, <1>3, <1>4, <2>1 DEF d, e, dust, most
<1>6. CASE \E s \in Cascades, a \in Books :
                  /\ Midway(s, c, buyer) /\ Ended(c, s, buyer, seller, x - n)
                  /\ TakenOn(s.book, a, s.assumed, DOMAIN s.assumed, buyer)
                  /\ Lent(a, y, buyer, x - n - s.spent)
  <2> DEFINE budget == x - n
  <2>1. PICK s \in Cascades, a \in Books :
                /\ Midway(s, c, buyer) /\ Ended(c, s, buyer, seller, budget)
                /\ TakenOn(s.book, a, s.assumed, DOMAIN s.assumed, buyer)
                /\ Lent(a, y, buyer, budget - s.spent)
    BY <1>6
  <2>2. budget \in Nat /\ s.spent \in Nat
    BY <2>1, MidwayParts
  <2> DEFINE k == s.book.rows
             rest == budget - s.spent
  <2>3. Dealt(c, s, y, buyer, rest)
    <3>1. /\ Midway(s, c, buyer) /\ Ended(c, s, buyer, seller, budget)
          /\ TakenOn(s.book, a, s.assumed, DOMAIN s.assumed, buyer)
          /\ budget \in Nat /\ rest = budget - s.spent /\ Lent(a, y, buyer, rest)
      BY <2>1, <2>2
    <3> HIDE DEF budget, rest
    <3> QED  BY <3>1, DealRows
  <2>4. /\ e = s.book.debt[m] /\ e <= d /\ k \in RowFiles
        /\ DOMAIN k = DOMAIN h /\ \A i \in DOMAIN h : k[i].debtor = h[i].debtor
    BY <1>2, <2>3 DEF Dealt, SameTerms, Remains
  <2>5. Full(h, R) <= Full(k, R) + most
    <3>1. m \in Members \ {buyer, seller}
      OBVIOUS
    <3>2. Full(h, DebtRows(h, m)) <= Full(k, DebtRows(h, m)) + MostDrained(c, m)
      BY <2>1, <3>1 DEF Ended
    <3> HIDE DEF h, k, most
    <3> QED  BY <1>2, <1>3, <3>2
  <2>6. d = Size(h, R)
    BY <1>2, DebtIsSize
  <2>7. e = Size(k, R)
    <3>1. s.book \in BookSet /\ Balanced(s.book) /\ RowsSound(s.book)
      BY <2>1, MidwayParts DEF Books
    <3>2. s.book.debt[m] = Size(k, DebtRows(k, m))
      BY <1>2, <3>1, DebtIsSize
    <3>3. DebtRows(k, m) = R
      BY <1>2, <2>4 DEF DebtRows
    <3> QED  BY <2>4, <3>2, <3>3
  <2> HIDE DEF h, k
  <2>8. Size(h, R) <= Full(h, R) /\ Full(h, R) \in Nat
    BY <1>2, SizeType
  <2>9. Full(k, R) \in Nat /\ Full(k, R) <= Size(k, R) + dust /\ Size(k, R) \in Nat
    <3>1. R \in SUBSET DOMAIN k
      BY <1>2, <2>4
    <3> QED  BY <1>2, <2>4, <3>1, SizeType
  <2> DEFINE fh == Full(h, R)
             fk == Full(k, R)
  <2> HIDE DEF d, e, dust, most, fh, fk
  <2>10. d <= fh /\ fh <= fk + most /\ fk <= e + dust /\ fh \in Nat /\ fk \in Nat /\ e \in Nat
    BY <2>5, <2>6, <2>7, <2>8, <2>9 DEF fh, fk
  <2>11. d <= e + dust + most
    BY <1>2, <1>3, <1>4, <2>10
  <2> QED  BY <1>3, <1>4, <2>4, <2>11 DEF d, e, dust, most
<1> QED  BY <1>1, <1>5, <1>6

\* What a member is owed by the rows R, whose creditor and due date T covers:
\* the rows keep their terms, and the rows N of the buyer make up for the rest.
MadeWhole(b, y, R, T) ==
    /\ \A i \in R : i \in DOMAIN y.rows /\ Remains(b.rows[i], y.rows[i])
    /\ \E N \in SUBSET (DOMAIN y.rows \ DOMAIN b.rows) :
          /\ \A i \in N : /\ y.rows[i].insured /\ y.rows[i].status = "Active"
                          /\ <<y.rows[i].creditor, y.rows[i].maturity>> \in T
          /\ Size(b.rows, R) <= Size(y.rows, R) + Size(y.rows, N) + DustMinor * Cardinality(R)

LEMMA DealWhole ==
    ASSUME Ready, epoch \in Nat, NEW b \in Books, NEW seller \in Members, NEW buyer \in Members, seller # buyer,
           NEW x \in Nat, NEW y \in Books, Deal(b, y, seller, buyer, x), NEW m \in Members, m # buyer,
           NEW R \in SUBSET DOMAIN b.rows, \A i \in R : b.rows[i].creditor = m,
           NEW T \in SUBSET Pairs, Covers(b.rows, R, T)
    PROVE  MadeWhole(b, y, R, T)
<1>1. PICK c \in Books, n \in 0..x :
         /\ Good(c, epoch) /\ SetOff(b, c, seller, buyer, n)
         /\ \/ y = c /\ x <= n + DustMinor
            \/ \E s \in Cascades, a \in Books :
                  /\ Midway(s, c, buyer) /\ Ended(c, s, buyer, seller, x - n)
                  /\ TakenOn(s.book, a, s.assumed, DOMAIN s.assumed, buyer)
                  /\ Lent(a, y, buyer, x - n - s.spent)
  BY DEF Deal
<1> DEFINE f == b.rows
           h == c.rows
           g == y.rows
           dust == DustMinor * Cardinality(R)
<1>2. /\ f \in RowFiles /\ h \in RowFiles /\ g \in RowFiles /\ DustMinor \in Nat
      /\ DOMAIN h = DOMAIN f /\ R \in SUBSET DOMAIN h /\ \A i \in R : h[i] = f[i]
  BY <1>1 DEF SetOff, Lien, Books, BookSet, Ready
<1>3. Size(f, R) = Size(h, R) /\ Size(h, R) \in Nat /\ dust \in Nat
      /\ Size(h, R) <= Full(h, R) /\ Full(h, R) \in Nat /\ IsFiniteSet(R)
  <2> HIDE DEF f, h, g
  <2>1. Size(f, R) = Size(h, R)
    BY <1>2, SizeAlike
  <2>2. Size(h, R) \in Nat /\ Size(h, R) <= Full(h, R) /\ Full(h, R) \in Nat /\ IsFiniteSet(R)
    BY <1>2, SizeType
  <2>3. dust \in Nat
    BY <1>2, <2>2, FS_CardinalityType, ProductIsNatural
  <2> QED  BY <2>1, <2>2, <2>3
<1>4. CASE y = c /\ x <= n + DustMinor
  <2>1. \A i \in R : i \in DOMAIN g /\ Remains(f[i], g[i])
    BY <1>2, <1>4 DEF Remains
  <2>2. Size(g, R) = Size(h, R) /\ Size(g, {}) = 0
    <3>1. Size(g, {}) = 0
      BY SumOfNothing DEF Size
    <3> QED  BY <1>4, <3>1
  <2> HIDE DEF dust
  <2>3. Size(f, R) <= Size(g, R) + Size(g, {}) + dust
    <3> HIDE DEF f, g, h
    <3> QED  BY <1>3, <2>2
  <2>4. {} \in SUBSET (DOMAIN g \ DOMAIN f) /\ \A i \in {} : /\ g[i].insured /\ g[i].status = "Active"
                                                             /\ <<g[i].creditor, g[i].maturity>> \in T
    OBVIOUS
  <2> QED  BY <2>1, <2>3, <2>4 DEF MadeWhole, dust, f, g
<1>5. CASE \E s \in Cascades, a \in Books :
                  /\ Midway(s, c, buyer) /\ Ended(c, s, buyer, seller, x - n)
                  /\ TakenOn(s.book, a, s.assumed, DOMAIN s.assumed, buyer)
                  /\ Lent(a, y, buyer, x - n - s.spent)
  <2> DEFINE budget == x - n
  <2>1. PICK s \in Cascades, a \in Books :
                /\ Midway(s, c, buyer) /\ Ended(c, s, buyer, seller, budget)
                /\ TakenOn(s.book, a, s.assumed, DOMAIN s.assumed, buyer)
                /\ Lent(a, y, buyer, budget - s.spent)
    BY <1>5
  <2> DEFINE k == s.book.rows
             A == s.assumed
             l == a.rows
             N == Fresh(k, l, T)
  <2>2. k \in RowFiles /\ A \in Slots /\ l \in RowFiles
    BY <2>1, MidwayParts DEF Books, BookSet
  <2>3. /\ SameTerms(h, k, Members \ {buyer}, buyer)
        /\ Replaced(h, <<>>, k, A)
    BY <2>1 DEF Ended, Moves, Started
  <2>4. /\ DOMAIN k \subseteq DOMAIN l /\ \A i \in DOMAIN k : l[i] = k[i]
        /\ \A i \in DOMAIN l \ DOMAIN k : l[i].insured /\ l[i].status = "Active"
        /\ Size(l, N) = SumFunctionOnSet(Amounts(A), DOMAIN A \cap T)
    BY <2>1 DEF TakenOn
  <2>5. DOMAIN l \subseteq DOMAIN g /\ \A i \in DOMAIN l : g[i] = l[i]
    BY <2>1 DEF Lent
  <2>6. DOMAIN k = DOMAIN h /\ \A i \in DOMAIN h : Remains(h[i], k[i])
    BY <2>3 DEF SameTerms
  <2> HIDE DEF f, h, g, k, l, A
  <2>7. \A i \in R : i \in DOMAIN g /\ Remains(f[i], g[i]) /\ g[i] = k[i] /\ i \in DOMAIN k
    BY <1>2, <2>4, <2>5, <2>6
  <2>8. N \in SUBSET (DOMAIN g \ DOMAIN f) /\ \A i \in N : /\ g[i].insured /\ g[i].status = "Active"
                                                           /\ <<g[i].creditor, g[i].maturity>> \in T
                                                           /\ g[i] = l[i]
    BY <1>2, <2>4, <2>5, <2>6 DEF Fresh
  <2>9. Size(g, R) = Size(k, R) /\ Size(g, N) = Size(l, N)
    <3> HIDE DEF N
    <3>1. Size(g, R) = Size(k, R)
      BY <2>7, SizeAlike
    <3>2. Size(g, N) = Size(l, N)
      BY <2>8, SizeAlike
    <3> QED  BY <3>1, <3>2
  <2>10. Full(h, R) + Promised(<<>>, T) <= Full(k, R) + Promised(A, T)
    <3>1. Covers(h, R, T)
      BY <1>2 DEF Covers, f
    <3> QED  BY <1>2, <2>3, <3>1 DEF Replaced
  <2>11. Promised(<<>>, T) = 0 /\ Promised(A, T) = Size(g, N)
    <3>1. DOMAIN <<>> \cap T = {}
      OBVIOUS
    <3>2. Promised(<<>>, T) = 0
      BY <3>1, SumOfNothing DEF Promised
    <3>3. Promised(A, T) = Size(g, N)
      BY <2>4, <2>9 DEF Promised
    <3> QED  BY <3>2, <3>3
  <2>12. Full(k, R) \in Nat /\ Full(k, R) <= Size(k, R) + dust /\ Size(k, R) \in Nat
    <3>1. R \in SUBSET DOMAIN k
      BY <2>7
    <3> QED  BY <1>2, <2>2, <3>1, SizeType
  <2>13. Size(g, N) \in Nat
    BY <1>2, <2>8, SizeType
  <2>14. Size(f, R) <= Size(g, R) + Size(g, N) + dust
    <3> DEFINE fh == Full(h, R)
               fk == Full(k, R)
               sh == Size(h, R)
               sk == Size(k, R)
               sn == Size(g, N)
    <3>1. /\ Size(f, R) = sh /\ sh <= fh /\ fh \in Nat /\ sh \in Nat /\ dust \in Nat
          /\ fh + 0 <= fk + sn /\ fk <= sk + dust /\ fk \in Nat /\ sk \in Nat /\ sn \in Nat /\ Size(g, R) = sk
      BY <1>3, <2>9, <2>10, <2>11, <2>12, <2>13
    <3> HIDE DEF dust, fh, fk, sh, sk, sn, N
    <3> QED  BY <3>1 DEF sn
  <2> HIDE DEF N
  <2>15. Size(b.rows, R) <= Size(y.rows, R) + Size(y.rows, N) + DustMinor * Cardinality(R)
    BY <2>14 DEF f, g
  <2> QED  BY <2>7, <2>8, <2>15 DEF MadeWhole, f, g
<1> QED  BY <1>1, <1>4, <1>5

-----------------------------------------------------------------------------
(* The invariant *)

\* What holds of the ledger in every state it reaches.
LedgerInv ==
    /\ epoch \in 0..MaxEpoch /\ signers \subseteq Members /\ suspended \subseteq Members
    /\ unit.num \in Nat /\ unit.den \in Nat \ {0} /\ unit.times \in Nat
    /\ supply \in Purses
    /\ Good(book, epoch)

LEMMA InvReady ==
    ASSUME LedgerInv
    PROVE  Ready
<1> DEFINE n == unit.num
           d == unit.den
<1>1. n \in Nat /\ d \in Nat \ {0} /\ Dust \in Nat /\ supply \in Purses
  BY LedgerAssumption DEF LedgerInv
<1>2. DustMinor = (Dust * n) \div d
  BY DEF DustMinor
<1> HIDE DEF n, d
<1>3. Dust * n \in Nat
  BY <1>1, ProductIsNatural
<1>4. (Dust * n) \div d \in Nat
  BY <1>1, <1>3, QuotientIsNatural
<1> QED  BY <1>1, <1>2, <1>4 DEF Ready

\* The dust of a unit that did not move is the same dust.
LEMMA SameUnit ==
    ASSUME NEW b, NEW e, Good(b, e), unit' = unit, book' = b, epoch' = e, Filled(book)'
    PROVE  Good(book, epoch)'
<1>1. b \in Books /\ Covered(b) /\ (\A id \in DOMAIN b.rows : ~Due(b.rows[id], e)) /\ Sound(b)
  BY DEF Good
<1>2. Covered(book)'
  BY <1>1 DEF Covered, AtStake, Risk, Open, Most
<1>3. (\A id \in DOMAIN book.rows : ~Due(book.rows[id], epoch))'
  <2>1. DustMinor' = DustMinor
    BY DEF DustMinor
  <2>2. SUFFICES ASSUME NEW id \in DOMAIN b.rows
                 PROVE  ~(Due(b.rows[id], e))'
    OBVIOUS
  <2>3. ~Due(b.rows[id], e)
    BY <1>1
  <2> QED  BY <2>1, <2>3 DEF Due
<1>4. Balanced(book)'
  BY <1>1 DEF Sound, Balanced, Kinds, Cached, Tally, Owing, Weight, Counting, At
<1>5. RowsSound(book)'
  BY <1>1 DEF Sound, RowsSound, RowSound, Live
<1>6. (book \in Books)'
  BY <1>1
<1> QED  BY <1>2, <1>3, <1>4, <1>5, <1>6 DEF Good, Sound

LEMMA SameSupply ==
    ASSUME NEW b, Filled(b), supply' = supply, book' = b
    PROVE  Filled(book)'
BY DEF Filled, Booked, Total, Stock, Tally, Owing, Weight, At

\* A supply is not lowered below what is committed of it.
LEMMA DeclaredFilled ==
    ASSUME LedgerInv, NEW u \in Members, NEW w \in SupplyFloor(u)..supply[u],
           supply' = [supply EXCEPT ![u] = w], book' = book
    PROVE  Filled(book)'
<1>1. Filled(book) /\ book \in BookSet /\ supply \in [Members -> Nat]
  BY DEF LedgerInv, Good, Sound, Books, Purses
<1>2. ASSUME NEW k \in Places
      PROVE  Total(book, k) <= At([edges |-> book.edges, supply |-> supply'], k)
  <2>1. Booked(book, k) = Total(book, k) /\ Total(book, k) <= Stock(book, k)
    BY <1>1 DEF Filled
  <2>2. CASE k[1] = "arc" /\ k[2] \in Arcs
    BY <2>1, <2>2 DEF Stock, At
  <2>3. CASE k[1] = "supply" /\ k[2] \in Members /\ k[2] # u
    <3>1. supply'[k[2]] = supply[k[2]]
      BY <1>1, <2>3
    <3> QED  BY <2>1, <2>3, <3>1 DEF Stock, At
  <2>4. CASE k[1] = "supply" /\ k[2] = u
    <3>1. supply'[u] = w /\ book.committed[u] \in Nat /\ book.committed[u] <= w
      BY <1>1 DEF SupplyFloor, BookSet, Purses
    <3>2. Booked(book, k) = book.committed[u]
      BY <2>4 DEF Booked, At
    <3>3. At([edges |-> book.edges, supply |-> supply'], k) = supply'[u]
      BY <2>4 DEF At
    <3> QED  BY <2>1, <3>1, <3>2, <3>3
  <2> QED  BY <2>2, <2>3, <2>4, PlaceKinds
<1>3. \A k \in Places : Booked(book, k) = Total(book, k)
  BY <1>1 DEF Filled
<1>4. \A k \in Places : Booked(book', k) = Total(book', k)
  BY <1>3
<1>5. \A k \in Places : Total(book', k) <= At([edges |-> book'.edges, supply |-> supply'], k)
  BY <1>2
<1> QED  BY <1>4, <1>5 DEF Filled, Stock

LEMMA GenesisGood ==
    ASSUME Init
    PROVE  Good(book, epoch)
<1>1. 0 \in Nat /\ [m \in Members |-> 0] \in Purses /\ [a \in Arcs |-> 0] \in [Arcs -> Nat]
  BY DEF Purses
<1>2. <<>> \in RowFiles /\ DOMAIN <<>> = {}
  <2>1. <<>> \in [{} -> RowSet] /\ {} \in SUBSET Nat /\ IsFiniteSet({})
    BY FS_EmptySet
  <2> QED  BY <2>1 DEF RowFiles
<1>3. GenesisStakes \in [Arcs -> Nat] /\ supply \in [Members -> Nat]
  BY LedgerAssumption DEF Init
<1>4. /\ book \in BookSet /\ book.rows = <<>> /\ book.next = 1
      /\ book.agreed = [m \in Members |-> 0] /\ book.charged = [m \in Members |-> 0]
      /\ book.debt = [m \in Members |-> 0] /\ book.default = [m \in Members |-> 0]
      /\ book.reserved = [a \in Arcs |-> 0] /\ book.committed = [m \in Members |-> 0]
      /\ book.edges = GenesisStakes
  BY <1>1, <1>2, <1>3 DEF Init, BookSet
<1>5. book \in Books
  BY <1>2, <1>4 DEF Books
<1>6. ASSUME NEW m \in Members
      PROVE  book.charged[m] + AtStake(book, m) <= book.agreed[m]
  <2>1. AtStake(book, m) = 0
    BY <1>2, <1>4, SumOfNothing DEF AtStake
  <2> QED  BY <1>4, <2>1
<1>7. \A T, m : Tally(book, m, T) = 0
  BY <1>2, <1>4, SumOfNothing DEF Tally
<1>8. Balanced(book) /\ RowsSound(book)
  BY <1>2, <1>4, <1>7 DEF Balanced, Cached, RowsSound
<1>9. Filled(book)
  <2> SUFFICES ASSUME NEW k \in Places
               PROVE  Booked(book, k) = Total(book, k) /\ Total(book, k) <= Stock(book, k)
    BY DEF Filled
  <2>1. Total(book, k) = 0
    BY <1>7 DEF Total
  <2>2. Booked(book, k) = 0
    BY <1>4, PlaceKinds DEF Booked, At
  <2>3. Stock(book, k) \in Nat
    BY <1>3, <1>4, PlaceKinds DEF Stock, At
  <2> QED  BY <2>1, <2>2, <2>3
<1> QED  BY <1>2, <1>4, <1>5, <1>6, <1>8, <1>9 DEF Good, Covered, Sound

LEMMA InvInit == Init => LedgerInv
<1> SUFFICES ASSUME Init
             PROVE  LedgerInv
  OBVIOUS
<1>1. epoch = 0 /\ signers = {} /\ suspended = {} /\ unit.times = 0 /\ unit.num = 1 /\ unit.den = 1
  BY DEF Init
<1>2. supply \in Purses
  BY LedgerAssumption DEF Init, Purses
<1>3. 0 \in 0..MaxEpoch
  BY LedgerAssumption
<1> QED  BY <1>1, <1>2, <1>3, GenesisGood DEF LedgerInv

\* One case per operation: each leaves the unit and the epoch where they are,
\* and the book good.
LEMMA TransactionKeeps ==
    ASSUME LedgerInv, Transaction
    PROVE  LedgerInv'
<1>1. PICK S \in SignerSets :
         /\ signers' = S
         /\ \/ \E p \in Deals, term \in MinMaturity..MaxHorizon, t \in Panels \cup {NoTerms} :
                  Accept(p[1], p[2], p[3], term, t, S)
            \/ \E id \in DOMAIN book.rows, n \in S : Transfer(id, n, S)
            \/ \E id \in DOMAIN book.rows : \E x \in 1..book.rows[id].outstanding :
                  Settle(id, x, S) \/ Cure(id, x, S)
            \/ \E id \in DOMAIN book.rows : \E due \in 1..epoch + MaxHorizon : Extend(id, due, S)
            \/ \E id \in DOMAIN book.rows, a \in S, x \in Attested : Attest(id, a, x, S)
            \/ \E u \in S : \E w \in 0..supply[u] : DeclareSupply(u, w, S)
  BY DEF Transaction
<1>2. S \subseteq Members /\ signers' \subseteq Members
  BY <1>1, LedgerAssumption
<1>3. /\ Good(book, epoch) /\ Ready /\ supply \in Purses
      /\ epoch \in Nat /\ epoch \in 0..MaxEpoch /\ suspended \subseteq Members
      /\ unit.num \in Nat /\ unit.den \in Nat \ {0} /\ unit.times \in Nat
  BY LedgerAssumption, InvReady DEF LedgerInv
<1>4. ASSUME Good(book', epoch), Filled(book)', supply' \in Purses,
             UNCHANGED <<epoch, suspended, unit>>
      PROVE  LedgerInv'
  <2>1. Good(book, epoch)'
    BY <1>4, SameUnit
  <2> QED  BY <1>2, <1>3, <1>4, <2>1 DEF LedgerInv
<1>5. ASSUME Good(book', epoch), UNCHANGED <<epoch, supply, suspended, unit>>
      PROVE  LedgerInv'
  <2>1. Filled(book')
    BY <1>5 DEF Good, Sound
  <2>2. Filled(book)'
    BY <1>5, <2>1, SameSupply
  <2> QED  BY <1>3, <1>4, <1>5, <2>2
<1>6. ASSUME NEW p \in Deals, NEW term \in MinMaturity..MaxHorizon, NEW t \in Panels \cup {NoTerms},
             Accept(p[1], p[2], p[3], term, t, S)
      PROVE  LedgerInv'
  <2>1. p[1] \in Members /\ p[2] \in Members /\ p[3] \in Nat
    BY LedgerAssumption
  <2>2. Good(book', epoch)
    BY <1>3, <1>6, <2>1, AcceptGood
  <2> QED  BY <1>5, <1>6, <2>2 DEF Accept
<1>7. ASSUME NEW id \in DOMAIN book.rows, NEW n \in S, Transfer(id, n, S)
      PROVE  LedgerInv'
  <2>1. n \in Members
    BY <1>2
  <2>2. Good(book', epoch)
    BY <1>3, <1>7, <2>1, TransferGood
  <2> QED  BY <1>5, <1>7, <2>2 DEF Transfer
<1>8. ASSUME NEW id \in DOMAIN book.rows, NEW x \in 1..book.rows[id].outstanding,
             Settle(id, x, S) \/ Cure(id, x, S)
      PROVE  LedgerInv'
  <2>1. PICK status \in {"Active", "Expired"} : Discharge(id, x, S, status)
    BY <1>8 DEF Settle, Cure
  <2>2. Good(book', epoch)
    BY <1>3, <2>1, DischargeGood
  <2> QED  BY <1>5, <2>1, <2>2 DEF Discharge
<1>9. ASSUME NEW id \in DOMAIN book.rows, NEW due \in 1..epoch + MaxHorizon, Extend(id, due, S)
      PROVE  LedgerInv'
  <2>1. Good(book', epoch)
    BY <1>3, <1>9, ExtendGood
  <2> QED  BY <1>5, <1>9, <2>1 DEF Extend
<1>10. ASSUME NEW id \in DOMAIN book.rows, NEW a \in S, NEW x \in Attested, Attest(id, a, x, S)
       PROVE  LedgerInv'
  <2>1. x \in Nat
    BY LedgerAssumption
  <2>2. Good(book', epoch)
    BY <1>3, <1>10, <2>1, AttestGood
  <2> QED  BY <1>5, <1>10, <2>2 DEF Attest
<1>11. ASSUME NEW u \in S, NEW w \in 0..supply[u], DeclareSupply(u, w, S)
       PROVE  LedgerInv'
  <2>1. /\ u \in Members /\ w \in SupplyFloor(u)..supply[u] /\ book' = book
        /\ supply' = [supply EXCEPT ![u] = w] /\ UNCHANGED <<epoch, suspended, unit>>
    BY <1>2, <1>11 DEF DeclareSupply
  <2>2. supply[u] \in Nat
    BY <1>3, <2>1 DEF Purses
  <2>3. w \in Nat
    BY <2>2
  <2>4. supply' \in Purses
    BY <1>3, <2>1, <2>3 DEF Purses
  <2>5. Filled(book)'
    BY <2>1, DeclaredFilled
  <2> QED  BY <1>3, <1>4, <2>1, <2>4, <2>5
<1> QED  BY <1>1, <1>6, <1>7, <1>8, <1>9, <1>10, <1>11

LEMMA UnsignedKeeps ==
    ASSUME LedgerInv, Unsigned
    PROVE  LedgerInv'
<1>1. /\ signers' = {} /\ Good(book, epoch) /\ Filled(book) /\ Ready /\ supply \in Purses
      /\ epoch \in 0..MaxEpoch /\ epoch \in Nat /\ suspended \subseteq Members
      /\ unit.num \in Nat /\ unit.den \in Nat \ {0} /\ unit.times \in Nat
  BY LedgerAssumption, InvReady DEF Unsigned, LedgerInv, Good, Sound
<1>2. ASSUME NEW e \in 1..MaxEpoch, BeginBlock(e)
      PROVE  LedgerInv'
  <2>1. /\ epoch < e /\ epoch' = e /\ supply' = supply /\ suspended' = suspended /\ unit' = unit
        /\ book' = Pruned(PanelsHeard(AllNetted(Expired(Faded(book, e - epoch), e)), e), e)
        /\ e \in Nat /\ e \in 0..MaxEpoch
    BY <1>2, LedgerAssumption DEF BeginBlock
  <2>2. Good(Pruned(PanelsHeard(AllNetted(Expired(Faded(book, e - epoch), e)), e), e), e)
    BY <1>1, <2>1, BoundaryGood
  <2>3. Good(book', e)
    BY <2>1, <2>2
  <2>4. Filled(book')
    BY <2>3 DEF Good, Sound
  <2>5. Filled(book)'
    BY <2>1, <2>4, SameSupply
  <2>6. Good(book, epoch)'
    BY <2>1, <2>3, <2>5, SameUnit
  <2> QED  BY <1>1, <2>1, <2>6 DEF LedgerInv
<1>3. ASSUME NEW m \in MaySuspend, SetStatus(m)
      PROVE  LedgerInv'
  <2>1. epoch' = epoch /\ supply' = supply /\ unit' = unit /\ book' = book
    BY <1>3 DEF SetStatus
  <2>2. suspended' \subseteq Members
    BY <1>1, <1>3, LedgerAssumption DEF SetStatus
  <2>3. Filled(book)'
    BY <1>1, <2>1, SameSupply
  <2>4. Good(book, epoch)'
    BY <1>1, <2>1, <2>3, SameUnit
  <2> QED  BY <1>1, <2>1, <2>2, <2>4 DEF LedgerInv
<1>4. ASSUME NEW pi \in Scales, Redenominate(pi)
      PROVE  LedgerInv'
  <2> DEFINE p == pi[1]
             q == pi[2]
  <2>1. pi \in Scale /\ p \in Nat /\ q \in Nat \ {0}
    BY LedgerAssumption DEF Scale
  <2>2. /\ epoch' = epoch /\ suspended' = suspended
        /\ supply' = [u \in Members |-> Floored(supply[u], pi)]
        /\ unit'.num = unit.num * p /\ unit'.den = unit.den * q /\ unit'.times = unit.times + 1
    BY <1>4 DEF Redenominate
  <2>3. Good(book, epoch)'
    BY <1>1, <1>4, <2>1, RescaledGood
  <2> HIDE DEF p, q
  <2>4. unit'.num \in Nat /\ unit'.den \in Nat \ {0} /\ unit'.times \in Nat
    <3>1. unit.num * p \in Nat
      BY <1>1, <2>1, ProductIsNatural
    <3>2. unit.den * q \in Nat \ {0}
      BY <1>1, <2>1, ProductIsNatural
    <3> QED  BY <1>1, <2>2, <3>1, <3>2
  <2>5. supply' \in Purses
    <3>1. \A u \in Members : Floored(supply[u], pi) \in Nat
      BY <1>1, <2>1, FloorType DEF Purses
    <3> QED  BY <2>2, <3>1 DEF Purses
  <2> QED  BY <1>1, <2>2, <2>3, <2>4, <2>5 DEF LedgerInv
<1> QED  BY <1>2, <1>3, <1>4 DEF Unsigned

LEMMA InvNext == LedgerInv /\ [Next]_vars => LedgerInv'
<1> SUFFICES ASSUME LedgerInv, [Next]_vars
             PROVE  LedgerInv'
  OBVIOUS
<1>1. CASE Transaction
  BY <1>1, TransactionKeeps
<1>2. CASE Unsigned
  BY <1>2, UnsignedKeeps
<1>3. CASE UNCHANGED vars
  <2>1. /\ epoch' = epoch /\ book' = book /\ supply' = supply /\ suspended' = suspended
        /\ unit' = unit /\ signers' = signers
    BY <1>3 DEF vars
  <2>2. Good(book, epoch) /\ Filled(book)
    BY DEF LedgerInv, Good, Sound
  <2>3. Filled(book)'
    BY <2>1, <2>2, SameSupply
  <2>4. Good(book, epoch)'
    BY <2>1, <2>2, <2>3, SameUnit
  <2> QED  BY <2>1, <2>4 DEF LedgerInv
<1> QED  BY <1>1, <1>2, <1>3 DEF Next

LEMMA InvAlways == Spec => []LedgerInv
BY InvInit, InvNext, PTL DEF Spec

-----------------------------------------------------------------------------
(* What the invariant says of the book *)

LEMMA InvTypeOK == LedgerInv => TypeOK
<1> SUFFICES ASSUME LedgerInv
             PROVE  TypeOK
  OBVIOUS
<1>1. /\ book \in Books /\ book \in BookSet /\ supply \in Purses /\ suspended \subseteq Members
      /\ epoch \in 0..MaxEpoch /\ signers \subseteq Members
  BY DEF LedgerInv, Good, Books
<1>2. /\ book.next \in Nat /\ book.next >= 1
      /\ book.debt \in [Members -> Nat] /\ book.default \in [Members -> Nat]
      /\ book.edges \in [Arcs -> Nat] /\ book.reserved \in [Arcs -> Nat]
      /\ book.committed \in [Members -> Nat]
      /\ book.agreed \in [Members -> Nat] /\ book.charged \in [Members -> Nat]
      /\ supply \in [Members -> Nat]
  BY <1>1 DEF Books, BookSet, Purses
<1>3. DOMAIN book.rows \subseteq 1..book.next - 1
  <2> SUFFICES ASSUME NEW i \in DOMAIN book.rows
               PROVE  i \in 1..book.next - 1
    OBVIOUS
  <2>1. i \in Nat /\ 1 <= i /\ i < book.next
    BY <1>1, FileTypes DEF Books, BookSet
  <2> QED  BY <1>2, <2>1
<1>4. ASSUME NEW i \in DOMAIN book.rows
      PROVE  LET c == book.rows[i]
             IN /\ {c.debtor, c.creditor} \subseteq Members
                /\ c.outstanding \in 0..c.original
                /\ {c.maturity, c.created, c.accepted} \subseteq Nat
                /\ c.status \in {"Active", "Expired", "Settled", "Cured", "Transferred"}
                /\ c.insured \in BOOLEAN
                /\ c.held \in [edges : [Arcs -> Nat], supply : [Members -> Nat]]
  <2> DEFINE c == book.rows[i]
  <2>1. c \in RowSet /\ c.outstanding <= c.original
    BY <1>1, FileTypes DEF Books, BookSet
  <2> HIDE DEF c
  <2>2. c.outstanding \in Nat /\ c.original \in Nat
    BY <2>1 DEF RowSet
  <2>3. c.outstanding \in 0..c.original
    BY <2>1, <2>2
  <2> QED  BY <2>1, <2>3 DEF RowSet, Statuses, HoldSet, c
<1> QED  BY <1>1, <1>2, <1>3, <1>4 DEF TypeOK

LEMMA InvBooksAgree == LedgerInv => BooksAgree
<1> SUFFICES ASSUME LedgerInv, NEW m \in Members
             PROVE  /\ book.debt[m] = OwedBy(m)
                    /\ unit.times = 0 => book.default[m] =
                          Owed({id \in LiveRows : /\ book.rows[id].debtor = m
                                                  /\ book.rows[id].status = "Expired"})
  BY DEF BooksAgree
<1>1. book \in BookSet /\ Balanced(book)
  BY DEF LedgerInv, Good, Sound, Books
<1>2. book.debt[m] = OwedBy(m)
  <2> DEFINE R == {id \in LiveRows : book.rows[id].debtor = m}
  <2>1. R = {i \in DOMAIN book.rows : book.rows[i].debtor = m /\ book.rows[i].status \in Counting("debt")}
    BY DEF LiveRows, Live, Counting
  <2>2. OwedBy(m) = Sum([i \in R |-> book.rows[i].outstanding])
    BY DEF OwedBy, Owed
  <2> HIDE DEF R
  <2>3. Sum([i \in R |-> book.rows[i].outstanding]) = Tally(book, m, "debt")
    BY <1>1, <2>1, CountedIsTally
  <2>4. "debt" \in Kinds
    BY DEF Kinds
  <2>5. Cached(book, "debt")[m] = Tally(book, m, "debt")
    BY <1>1, <2>4 DEF Balanced
  <2> QED  BY <2>2, <2>3, <2>5 DEF Cached
<1>3. ASSUME unit.times = 0
      PROVE  book.default[m] = Owed({id \in LiveRows : /\ book.rows[id].debtor = m
                                                       /\ book.rows[id].status = "Expired"})
  <2> DEFINE R == {id \in LiveRows : book.rows[id].debtor = m /\ book.rows[id].status = "Expired"}
  <2>1. R = {i \in DOMAIN book.rows : book.rows[i].debtor = m /\ book.rows[i].status \in Counting("default")}
    BY DEF LiveRows, Live, Counting
  <2>2. Owed(R) = Sum([i \in R |-> book.rows[i].outstanding])
    BY DEF Owed
  <2> HIDE DEF R
  <2>3. Sum([i \in R |-> book.rows[i].outstanding]) = Tally(book, m, "default")
    BY <1>1, <2>1, CountedIsTally
  <2>4. "default" \in Kinds
    BY <1>3 DEF Kinds
  <2>5. Cached(book, "default")[m] = Tally(book, m, "default")
    BY <1>1, <2>4 DEF Balanced
  <2>6. book.default[m] = Owed(R)
    BY <2>2, <2>3, <2>5 DEF Cached
  <2> QED  BY <2>6 DEF R
<1> QED  BY <1>2, <1>3

LEMMA InvRowsAgree == LedgerInv => RowsAgree
<1> SUFFICES ASSUME LedgerInv, NEW id \in DOMAIN book.rows
             PROVE  LET c == book.rows[id]
                    IN /\ c.debtor # c.creditor
                       /\ c.debtor \notin Underwriters(c.held)
                       /\ id \notin LiveRows => c.outstanding = 0 /\ c.held = Nothing
                       /\ id \in LiveRows => HeldAmount(c.held) = IF c.insured THEN c.outstanding ELSE 0
  BY DEF RowsAgree, HeldBy
<1> DEFINE c == book.rows[id]
<1>1. RowSound(c) /\ (id \in LiveRows <=> Live(c))
  BY DEF LedgerInv, Good, Sound, RowsSound, LiveRows
<1> HIDE DEF c
<1>2. c.debtor \notin Underwriters(c.held)
  BY <1>1 DEF RowSound, Underwriters
<1>3. c.debtor # c.creditor /\ (~Live(c) => c.outstanding = 0 /\ c.held = Nothing)
  BY <1>1 DEF RowSound
<1>4. Live(c) => HeldAmount(c.held) = IF c.insured THEN c.outstanding ELSE 0
  BY <1>1 DEF RowSound
<1> QED  BY <1>1, <1>2, <1>3, <1>4 DEF c

\* Only insured rows hold anything.
LEMMA InsuredHold ==
    ASSUME LedgerInv, NEW k \in Places
    PROVE  Sum([id \in InsuredRows |-> At(HeldBy(id), k)]) = Total(book, k)
<1> DEFINE S == DOMAIN book.rows
           R == InsuredRows
           w == Owing(book.rows, k, "held")
           v == [id \in R |-> At(HeldBy(id), k)]
<1>1. IsFiniteSet(S) /\ \A i \in S : book.rows[i] \in RowSet /\ RowSound(book.rows[i])
  BY FileTypes DEF LedgerInv, Good, Sound, RowsSound, Books, BookSet
<1>2. R \in SUBSET S /\ \A i \in S : i \in R <=> Live(book.rows[i]) /\ book.rows[i].insured
  BY DEF InsuredRows, LiveRows
<1>3. \A i \in S : w[i] = At(book.rows[i].held, k) /\ w[i] \in Nat
  <2>1. \A i \in S : w[i] = At(book.rows[i].held, k)
    BY DEF Owing, Weight
  <2>2. \A i \in S : At(book.rows[i].held, k) \in Nat
    BY <1>1, AtType DEF RowSet
  <2> QED  BY <2>1, <2>2
<1>4. \A i \in R : v[i] = At(book.rows[i].held, k)
  BY DEF HeldBy
<1>5. DOMAIN v = R /\ Total(book, k) = SumFunctionOnSet(w, S)
  BY DEF Total, Tally
<1> HIDE DEF S, R, w, v
<1>6. \A i \in S \ R : w[i] = 0
  <2> SUFFICES ASSUME NEW i \in S \ R
               PROVE  At(book.rows[i].held, k) = 0
    BY <1>3
  <2>1. book.rows[i].held = Nothing
    BY <1>1, <1>2 DEF RowSound
  <2> QED  BY <2>1, NothingAt
<1>7. IsFiniteSet(R) /\ \A i \in R : w[i] \in Nat /\ w[i] = v[i]
  BY <1>1, <1>2, <1>3, <1>4, FS_Subset
<1>8. SumFunctionOnSet(w, S) = SumFunctionOnSet(w, R)
  BY <1>1, <1>2, <1>3, <1>6, SumOnSupport
<1>9. SumFunctionOnSet(w, R) = SumFunctionOnSet(v, R)
  BY <1>7, SumCongruent
<1>10. Sum(v) = SumFunctionOnSet(v, R)
  BY <1>5, SumIs
<1>11. Sum(v) = Total(book, k)
  BY <1>5, <1>8, <1>9, <1>10
<1> QED  BY <1>11 DEF v, R

LEMMA InvHoldsAgree == LedgerInv => HoldsAgree
<1> SUFFICES ASSUME LedgerInv
             PROVE  HoldsAgree
  OBVIOUS
<1>1. \A k \in Places : Booked(book, k) = Total(book, k) /\ Total(book, k) <= Stock(book, k)
  BY DEF LedgerInv, Good, Sound, Filled
<1>2. ASSUME NEW a \in Arcs
      PROVE  /\ book.reserved[a] = Sum([id \in InsuredRows |-> HeldBy(id).edges[a]])
             /\ book.reserved[a] <= book.edges[a]
  <2> DEFINE k == <<"arc", a>>
  <2>1. k \in Places /\ k[1] = "arc" /\ k[2] = a
    BY PlaceOf
  <2>2. Booked(book, k) = book.reserved[a] /\ Stock(book, k) = book.edges[a]
    BY AtArc DEF Booked, Stock
  <2>3. [id \in InsuredRows |-> At(HeldBy(id), k)] = [id \in InsuredRows |-> HeldBy(id).edges[a]]
    BY AtArc
  <2> HIDE DEF k
  <2>4. Sum([id \in InsuredRows |-> At(HeldBy(id), k)]) = Total(book, k)
    BY <2>1, InsuredHold
  <2> QED  BY <1>1, <2>1, <2>2, <2>3, <2>4
<1>3. ASSUME NEW u \in Members
      PROVE  /\ book.committed[u] = Sum([id \in InsuredRows |-> HeldBy(id).supply[u]])
             /\ book.committed[u] <= supply[u]
  <2> DEFINE k == <<"supply", u>>
  <2>1. k \in Places /\ k[1] = "supply" /\ k[2] = u
    BY PlaceOf
  <2>2. Booked(book, k) = book.committed[u] /\ Stock(book, k) = supply[u]
    BY AtSupply DEF Booked, Stock
  <2>3. [id \in InsuredRows |-> At(HeldBy(id), k)] = [id \in InsuredRows |-> HeldBy(id).supply[u]]
    BY AtSupply
  <2> HIDE DEF k
  <2>4. Sum([id \in InsuredRows |-> At(HeldBy(id), k)]) = Total(book, k)
    BY <2>1, InsuredHold
  <2> QED  BY <1>1, <2>1, <2>2, <2>3, <2>4
<1> QED  BY <1>2, <1>3 DEF HoldsAgree

LEMMA InvPanelsAwardOnce == LedgerInv => PanelsAwardOnce
<1> SUFFICES ASSUME LedgerInv, unit.times = 0, NEW m \in Members
             PROVE  book.charged[m] <= book.agreed[m]
  BY DEF PanelsAwardOnce, AwardsAreAgreed
<1>1. book \in Books /\ book \in BookSet /\ book.charged[m] + AtStake(book, m) <= book.agreed[m]
  BY DEF LedgerInv, Good, Covered, Books
<1>2. AtStake(book, m) \in Nat
  BY <1>1, TwoBooks, AtStakeIs
<1>3. book.charged[m] \in Nat /\ book.agreed[m] \in Nat
  BY <1>1 DEF BookSet, Purses
<1> QED  BY <1>1, <1>2, <1>3

LEMMA InvNothingOverdue == LedgerInv => NothingOverdue
BY DEF LedgerInv, Good, NothingOverdue

-----------------------------------------------------------------------------
(* The theorems *)

\* The book never fails its audit, whatever is paid, closed at dust, handed to
\* another debtor, extended, divided among underwriters by a default, netted
\* round a ring, awarded by a panel, decayed, re-denominated or pruned: it is
\* well formed, the cached debts are what the rows say, a live insured claim
\* holds what it owes and every other claim nothing, and what is reserved of an
\* arc or committed of a supply is what the claims hold of it and is there
\* (invariants.rs, halting the node after any block that breaks it).
THEOREM AuditAlways == Spec => []Audit
<1>1. LedgerInv => Audit
  BY InvTypeOK, InvBooksAgree, InvRowsAgree, InvHoldsAgree DEF Audit
<1> QED  BY <1>1, InvAlways, PTL

\* However a claim is paid, handed to another debtor, extended, split among
\* its underwriters by a default or netted round a ring, what panels have
\* charged a lender with never exceeds what it agreed they might (apply.rs
\* arb_award charges once and through the terms of the acceptance; loss.rs
\* substitute leaves the panel on one piece).
THEOREM PanelsAwardOnceAlways == Spec => []PanelsAwardOnce
BY InvPanelsAwardOnce, InvAlways, PTL

\* No claim above dust is live and Active past its date: the boundary's sweep
\* takes every overdue row with it, the rows it opens fall due later, no
\* transaction between two boundaries brings a date back, and a unit that
\* moves floors the dust no lower than what was under it (apply.rs
\* sweep_cranks, loss.rs substitute, extend, transfer; state.rs rescale).
THEOREM NothingOverdueAlways == Spec => []NothingOverdue
BY InvNothingOverdue, InvAlways, PTL

-----------------------------------------------------------------------------
(* No hold grows *)

\* A step keeps to the scale pi if it moves the unit by pi and leaves of every
\* hold no more than pi makes of it.
KeepsTo(pi) ==
    /\ unit'.num = unit.num * pi[1] /\ unit'.den = unit.den * pi[2]
    /\ \A id \in DOMAIN book.rows \cap DOMAIN book'.rows :
          Without(book'.rows[id].held, FlooredHold(HeldBy(id), pi)) = Nothing

LEMMA NothingOver ==
    ASSUME NEW x \in HoldSet, NEW y \in HoldSet, \A k \in Places : At(x, k) <= At(y, k)
    PROVE  Without(x, y) = Nothing
<1>1. ASSUME NEW k \in Places
      PROVE  At(Without(x, y), k) = At(Nothing, k)
  <2>1. At(x, k) \in Nat /\ At(y, k) \in Nat /\ At(x, k) <= At(y, k)
    BY AtType
  <2>2. Minus(At(x, k), At(y, k)) = 0
    BY <2>1 DEF Minus
  <2> QED  BY <2>2, WithoutAt, NothingAt
<1>2. Without(x, y) \in HoldSet /\ Nothing \in HoldSet
  BY WithoutType, NothingType
<1> QED  BY <1>1, <1>2, HoldsEqual

LEMMA FlooredByOne ==
    ASSUME NEW h \in HoldSet
    PROVE  FlooredHold(h, <<1, 1>>) \in HoldSet
           /\ \A k \in Places : At(FlooredHold(h, <<1, 1>>), k) = At(h, k)
<1> DEFINE one == <<1, 1>>
<1>1. one \in Scale /\ one[1] = 1 /\ one[2] = 1
  BY DEF Scale
<1> HIDE DEF one
<1>2. ASSUME NEW v \in Nat
      PROVE  Floored(v, one) = v
  <2>1. Floored(v, one) = (v * 1) \div 1
    BY <1>1 DEF Floored
  <2> QED  BY <2>1
<1>3. FlooredHold(h, one) \in HoldSet /\ \A k \in Places : At(FlooredHold(h, one), k) = Floored(At(h, k), one)
  BY <1>1, FlooredHoldIs
<1>4. \A k \in Places : At(h, k) \in Nat
  BY AtType
<1> QED  BY <1>2, <1>3, <1>4 DEF one

\* A step of one unit in which no hold grows keeps to the scale one.
LEMMA StillKeepsTo ==
    ASSUME LedgerInv, unit' = unit, book' \in Books, Still(book, book')
    PROVE  KeepsTo(<<1, 1>>)
<1>1. book \in BookSet /\ book' \in BookSet /\ unit.num \in Nat /\ unit.den \in Nat
  BY DEF LedgerInv, Good, Books
<1>2. ASSUME NEW id \in DOMAIN book.rows \cap DOMAIN book'.rows
      PROVE  Without(book'.rows[id].held, FlooredHold(HeldBy(id), <<1, 1>>)) = Nothing
  <2> DEFINE x == book'.rows[id].held
             h == HeldBy(id)
             y == FlooredHold(h, <<1, 1>>)
  <2>1. x \in HoldSet /\ h \in HoldSet
    BY <1>1, FileTypes DEF BookSet, RowSet, HeldBy
  <2>2. \A k \in Places : At(x, k) <= At(h, k)
    BY <1>2 DEF Still, HeldBy
  <2> HIDE DEF x, h
  <2>3. y \in HoldSet /\ \A k \in Places : At(y, k) = At(h, k)
    BY <2>1, FlooredByOne
  <2> HIDE DEF y
  <2>4. Without(x, y) = Nothing
    BY <2>1, <2>2, <2>3, NothingOver
  <2> QED  BY <2>4 DEF x, y, h
<1>3. unit'.num = unit.num * 1 /\ unit'.den = unit.den * 1
  BY <1>1
<1> QED  BY <1>2, <1>3 DEF KeepsTo

LEMMA TransactionStill ==
    ASSUME LedgerInv, Transaction
    PROVE  unit' = unit /\ Still(book, book')
<1>1. /\ Good(book, epoch) /\ Ready /\ epoch \in Nat /\ book \in BookSet
  BY LedgerAssumption, InvReady DEF LedgerInv, Good, Books
<1>2. PICK S \in SignerSets :
            \/ \E p \in Deals, term \in MinMaturity..MaxHorizon, t \in Panels \cup {NoTerms} :
                  Accept(p[1], p[2], p[3], term, t, S)
            \/ \E id \in DOMAIN book.rows, n \in S : Transfer(id, n, S)
            \/ \E id \in DOMAIN book.rows : \E x \in 1..book.rows[id].outstanding :
                  Settle(id, x, S) \/ Cure(id, x, S)
            \/ \E id \in DOMAIN book.rows : \E due \in 1..epoch + MaxHorizon : Extend(id, due, S)
            \/ \E id \in DOMAIN book.rows, a \in S, x \in Attested : Attest(id, a, x, S)
            \/ \E u \in S : \E w \in 0..supply[u] : DeclareSupply(u, w, S)
  BY DEF Transaction
<1>3. S \subseteq Members
  BY LedgerAssumption
<1>4. ASSUME NEW p \in Deals, NEW term \in MinMaturity..MaxHorizon, NEW t \in Panels \cup {NoTerms},
             Accept(p[1], p[2], p[3], term, t, S)
      PROVE  unit' = unit /\ Still(book, book')
  <2>1. p[1] \in Members /\ p[2] \in Members /\ p[3] \in Nat
    BY LedgerAssumption
  <2>2. Still(book, book')
    BY <1>1, <1>4, <2>1, AcceptGood
  <2> QED  BY <1>4, <2>2 DEF Accept
<1>5. ASSUME NEW id \in DOMAIN book.rows, NEW n \in S, Transfer(id, n, S)
      PROVE  unit' = unit /\ Still(book, book')
  <2>1. n \in Members
    BY <1>3
  <2>2. Still(book, book')
    BY <1>1, <1>5, <2>1, TransferGood
  <2> QED  BY <1>5, <2>2 DEF Transfer
<1>6. ASSUME NEW id \in DOMAIN book.rows, NEW x \in 1..book.rows[id].outstanding,
             Settle(id, x, S) \/ Cure(id, x, S)
      PROVE  unit' = unit /\ Still(book, book')
  <2>1. PICK status \in {"Active", "Expired"} : Discharge(id, x, S, status)
    BY <1>6 DEF Settle, Cure
  <2>2. Still(book, book')
    BY <1>1, <2>1, DischargeGood
  <2> QED  BY <2>1, <2>2 DEF Discharge
<1>7. ASSUME NEW id \in DOMAIN book.rows, NEW due \in 1..epoch + MaxHorizon, Extend(id, due, S)
      PROVE  unit' = unit /\ Still(book, book')
  <2>1. Still(book, book')
    BY <1>1, <1>7, ExtendGood
  <2> QED  BY <1>7, <2>1 DEF Extend
<1>8. ASSUME NEW id \in DOMAIN book.rows, NEW a \in S, NEW x \in Attested, Attest(id, a, x, S)
      PROVE  unit' = unit /\ Still(book, book')
  <2>1. x \in Nat
    BY LedgerAssumption
  <2>2. Still(book, book')
    BY <1>1, <1>8, <2>1, AttestGood
  <2> QED  BY <1>8, <2>2 DEF Attest
<1>9. ASSUME NEW u \in S, NEW w \in 0..supply[u], DeclareSupply(u, w, S)
      PROVE  unit' = unit /\ Still(book, book')
  <2>1. unit' = unit /\ book' = book
    BY <1>9 DEF DeclareSupply
  <2> QED  BY <1>1, <2>1, SameHolds
<1> QED  BY <1>2, <1>4, <1>5, <1>6, <1>7, <1>8, <1>9

LEMMA UnsignedKeepsTo ==
    ASSUME LedgerInv, LedgerInv', Unsigned
    PROVE  \E pi \in Scales \cup {<<1, 1>>} : KeepsTo(pi)
<1>1. /\ Good(book, epoch) /\ Ready /\ epoch \in Nat /\ book \in Books /\ book \in BookSet /\ RowsSound(book)
  BY LedgerAssumption, InvReady DEF LedgerInv, Good, Books, Sound
<1>2. book' \in Books
  BY DEF LedgerInv, Good
<1>3. ASSUME unit' = unit, Still(book, book')
      PROVE  \E pi \in Scales \cup {<<1, 1>>} : KeepsTo(pi)
  BY <1>2, <1>3, StillKeepsTo
<1>4. ASSUME NEW e \in 1..MaxEpoch, BeginBlock(e)
      PROVE  unit' = unit /\ Still(book, book')
  <2>1. /\ epoch < e /\ e \in Nat /\ unit' = unit
        /\ book' = Pruned(PanelsHeard(AllNetted(Expired(Faded(book, e - epoch), e)), e), e)
    BY <1>4, LedgerAssumption DEF BeginBlock
  <2>2. Still(book, Pruned(PanelsHeard(AllNetted(Expired(Faded(book, e - epoch), e)), e), e))
    BY <1>1, <2>1, BoundaryGood
  <2> QED  BY <2>1, <2>2
<1>5. ASSUME NEW m \in MaySuspend, SetStatus(m)
      PROVE  unit' = unit /\ Still(book, book')
  <2>1. unit' = unit /\ book' = book
    BY <1>5 DEF SetStatus
  <2> QED  BY <1>1, <2>1, SameHolds
<1>6. ASSUME NEW pi \in Scales, Redenominate(pi)
      PROVE  KeepsTo(pi)
  <2>1. /\ pi \in Scale /\ book' = Rescaled(book, pi)
        /\ unit'.num = unit.num * pi[1] /\ unit'.den = unit.den * pi[2]
    BY <1>6, LedgerAssumption DEF Redenominate, Scale
  <2>2. ASSUME NEW id \in DOMAIN book.rows \cap DOMAIN book'.rows
        PROVE  Without(book'.rows[id].held, FlooredHold(HeldBy(id), pi)) = Nothing
    <3> DEFINE x == book'.rows[id].held
               h == HeldBy(id)
               y == FlooredHold(h, pi)
    <3>1. x \in HoldSet /\ h \in HoldSet
      BY <1>1, <1>2, FileTypes DEF Books, BookSet, RowSet, HeldBy
    <3>2. \A k \in Places : At(x, k) <= Floored(At(h, k), pi)
      BY <1>1, <2>1, RescaledRows DEF HeldBy
    <3> HIDE DEF x, h
    <3>3. y \in HoldSet /\ \A k \in Places : At(y, k) = Floored(At(h, k), pi)
      BY <2>1, <3>1, FlooredHoldIs
    <3> HIDE DEF y
    <3>4. Without(x, y) = Nothing
      BY <3>1, <3>2, <3>3, NothingOver
    <3> QED  BY <3>4 DEF x, y, h
  <2> QED  BY <2>1, <2>2 DEF KeepsTo
<1> QED  BY <1>3, <1>4, <1>5, <1>6 DEF Unsigned

\* No row's hold ever takes more of an underwriter's supply or of an arc than
\* it did, over part payments, moves to other dates, cures, netting, the sweep
\* and the prune: what a row gives up goes free or to the pieces split off it,
\* and a redenomination floors each entry (loss.rs shrink, state.rs rescale).
THEOREM HoldsNeverMoveAlways == Spec => HoldsNeverMove
<1>1. ASSUME LedgerInv, LedgerInv', [Next]_vars
      PROVE  \/ \E pi \in Scales \cup {<<1, 1>>} : KeepsTo(pi)
             \/ UNCHANGED vars
  <2>1. CASE Transaction
    <3>1. book' \in Books
      BY <1>1 DEF LedgerInv, Good
    <3>2. KeepsTo(<<1, 1>>)
      BY <1>1, <2>1, <3>1, TransactionStill, StillKeepsTo
    <3> QED  BY <3>2
  <2>2. CASE Unsigned
    BY <1>1, <2>2, UnsignedKeepsTo
  <2> QED  BY <1>1, <2>1, <2>2 DEF Next
<1>2. LedgerInv /\ LedgerInv' /\ [Next]_vars =>
        [\E pi \in Scales \cup {<<1, 1>>} :
            /\ unit'.num = unit.num * pi[1] /\ unit'.den = unit.den * pi[2]
            /\ \A id \in DOMAIN book.rows \cap DOMAIN book'.rows :
                  Without(book'.rows[id].held, FlooredHold(HeldBy(id), pi)) = Nothing]_vars
  BY <1>1 DEF KeepsTo
<1> QED  BY <1>2, InvAlways, PTL DEF Spec, HoldsNeverMove

-----------------------------------------------------------------------------
(* Who stands worse *)

\* A transaction leaves nobody worse off who did not consent to it.
LEMMA TransactionConsents ==
    ASSUME LedgerInv, Transaction
    PROVE  \A m \in Members : Consents(m, signers') \/ Net(book, m) <= Net(book', m)
<1>1. /\ Good(book, epoch) /\ Ready /\ epoch \in Nat /\ book \in BookSet
  BY LedgerAssumption, InvReady DEF LedgerInv, Good, Books
<1>11. book' \in BookSet
  BY TransactionKeeps DEF LedgerInv, Good, Books
<1>2. PICK S \in SignerSets :
         /\ signers' = S
         /\ \/ \E p \in Deals, term \in MinMaturity..MaxHorizon, t \in Panels \cup {NoTerms} :
                  Accept(p[1], p[2], p[3], term, t, S)
            \/ \E id \in DOMAIN book.rows, n \in S : Transfer(id, n, S)
            \/ \E id \in DOMAIN book.rows : \E x \in 1..book.rows[id].outstanding :
                  Settle(id, x, S) \/ Cure(id, x, S)
            \/ \E id \in DOMAIN book.rows : \E due \in 1..epoch + MaxHorizon : Extend(id, due, S)
            \/ \E id \in DOMAIN book.rows, a \in S, x \in Attested : Attest(id, a, x, S)
            \/ \E u \in S : \E w \in 0..supply[u] : DeclareSupply(u, w, S)
  BY DEF Transaction
<1>3. S \subseteq Members
  BY LedgerAssumption
<1> DEFINE Settled == \A m \in Members : Consents(m, S) \/ Net(book, m) <= Net(book', m)
<1>10. ASSUME NEW q, Consents(q, S), Spares(book, book', {q})
       PROVE  Settled
  <2> SUFFICES ASSUME NEW m \in Members, m # q
               PROVE  Net(book, m) <= Net(book', m)
    BY <1>10
  <2> QED  BY <1>10 DEF Spares
<1>12. ASSUME Lost(book, book', 0)
       PROVE  Settled
  <2>1. Spares(book, book', {})
    BY <1>1, <1>11, <1>12, LostSpares
  <2> QED  BY <2>1 DEF Spares
<1>4. ASSUME NEW p \in Deals, NEW term \in MinMaturity..MaxHorizon, NEW t \in Panels \cup {NoTerms},
             Accept(p[1], p[2], p[3], term, t, S)
      PROVE  Settled
  <2>1. p[1] \in Members /\ p[2] \in Members /\ p[3] \in Nat
    BY LedgerAssumption
  <2>2. Spares(book, book', {p[1]})
    BY <1>1, <1>4, <2>1, AcceptGood
  <2>3. Consents(p[1], S)
    BY <1>4 DEF Accept, Consents
  <2> QED  BY <1>10, <2>2, <2>3
<1>5. ASSUME NEW id \in DOMAIN book.rows, NEW n \in S, Transfer(id, n, S)
      PROVE  Settled
  <2>1. n \in Members
    BY <1>3
  <2>2. Spares(book, book', {n})
    BY <1>1, <1>5, <2>1, TransferGood
  <2>3. Consents(n, S)
    BY DEF Consents
  <2> QED  BY <1>10, <2>2, <2>3
<1>6. ASSUME NEW id \in DOMAIN book.rows, NEW x \in 1..book.rows[id].outstanding,
             Settle(id, x, S) \/ Cure(id, x, S)
      PROVE  Settled
  <2>1. PICK status \in {"Active", "Expired"} : Discharge(id, x, S, status)
    BY <1>6 DEF Settle, Cure
  <2>2. Spares(book, book', {book.rows[id].creditor})
    BY <1>1, <2>1, DischargeGood
  <2>3. Consents(book.rows[id].creditor, S)
    BY <2>1 DEF Discharge
  <2> QED  BY <1>10, <2>2, <2>3
<1>7. ASSUME NEW id \in DOMAIN book.rows, NEW due \in 1..epoch + MaxHorizon, Extend(id, due, S)
      PROVE  Settled
  <2>1. Lost(book, book', 0)
    BY <1>1, <1>7, ExtendGood
  <2> QED  BY <1>12, <2>1
<1>8. ASSUME NEW id \in DOMAIN book.rows, NEW a \in S, NEW x \in Attested, Attest(id, a, x, S)
      PROVE  Settled
  <2>1. x \in Nat
    BY LedgerAssumption
  <2>2. Lost(book, book', 0)
    BY <1>1, <1>8, <2>1, AttestGood
  <2> QED  BY <1>12, <2>2
<1>9. ASSUME NEW u \in S, NEW w \in 0..supply[u], DeclareSupply(u, w, S)
      PROVE  Settled
  <2>1. book' = book
    BY <1>9 DEF DeclareSupply
  <2> QED  BY <1>1, <1>12, <2>1, LostSelf
<1>13. Settled
  <2> HIDE DEF Settled
  <2> QED  BY <1>2, <1>4, <1>5, <1>6, <1>7, <1>8, <1>9
<1> QED  BY <1>2, <1>13

\* What the ledger does unsigned takes from nobody, but the dust of a boundary's rings.
LEMMA UnsignedSpares ==
    ASSUME LedgerInv, Unsigned, unit' = unit
    PROVE  \/ epoch' # epoch /\ Lost(book, book', MaxRings * DustMinor)
           \/ epoch' = epoch /\ Lost(book, book', 0)
<1>1. /\ Good(book, epoch) /\ Ready /\ epoch \in Nat /\ book \in BookSet
      /\ unit.times \in Nat
  BY LedgerAssumption, InvReady DEF LedgerInv, Good, Books
<1>2. ASSUME NEW e \in 1..MaxEpoch, BeginBlock(e)
      PROVE  epoch' # epoch /\ Lost(book, book', MaxRings * DustMinor)
  <2>1. /\ epoch < e /\ e \in Nat /\ epoch' = e
        /\ book' = Pruned(PanelsHeard(AllNetted(Expired(Faded(book, e - epoch), e)), e), e)
    BY <1>2, LedgerAssumption DEF BeginBlock
  <2>2. Lost(book, Pruned(PanelsHeard(AllNetted(Expired(Faded(book, e - epoch), e)), e), e), MaxRings * DustMinor)
    BY <1>1, <2>1, BoundaryGood
  <2> QED  BY <1>1, <2>1, <2>2
<1>3. ASSUME NEW m \in MaySuspend, SetStatus(m)
      PROVE  epoch' = epoch /\ Lost(book, book', 0)
  BY <1>1, <1>3, LostSelf DEF SetStatus
<1>4. ASSUME NEW pi \in Scales, Redenominate(pi)
      PROVE  FALSE
  <2>1. unit'.times = unit.times + 1
    BY <1>4 DEF Redenominate
  <2> QED  BY <1>1, <2>1
<1> QED  BY <1>2, <1>3, <1>4 DEF Unsigned

\* The position of a book is the property's figure.

LEMMA NetIs ==
    ASSUME NEW b \in BookSet, NEW m \in Members, NEW R, NEW Q,
           R = {i \in DOMAIN b.rows : Live(b.rows[i]) /\ b.rows[i].creditor = m},
           Q = {i \in DOMAIN b.rows : Live(b.rows[i]) /\ b.rows[i].debtor = m}
    PROVE  /\ OwedIn(b, R) \in Nat /\ OwedIn(b, Q) \in Nat /\ b.charged[m] \in Nat
           /\ Net(b, m) = OwedIn(b, R) - OwedIn(b, Q) + b.charged[m]
<1>1. R = {i \in DOMAIN b.rows : b.rows[i].creditor = m /\ Live(b.rows[i])}
  OBVIOUS
<1>2. Q = {i \in DOMAIN b.rows : b.rows[i].debtor = m /\ b.rows[i].status \in Counting("debt")}
  BY DEF Live, Counting
<1>3. OwedIn(b, R) = Tally(b, m, "claim")
  BY <1>1, ClaimsAreTally DEF OwedIn
<1>4. OwedIn(b, Q) = Tally(b, m, "debt")
  BY <1>2, CountedIsTally DEF OwedIn
<1>5. Tally(b, m, "claim") \in Nat /\ Tally(b, m, "debt") \in Nat
  BY TallyType
<1>6. b.charged[m] \in Nat
  BY DEF BookSet, Purses
<1> QED  BY <1>3, <1>4, <1>5, <1>6 DEF Net

\* A member's position falls only under their own or their guardians'
\* signature, whatever the order of trades, payments, moves, defaults, awards
\* and boundaries -- but for the dust a boundary's rings forgive (apply.rs
\* net_rings, loss.rs substitute, cascade.rs discharge_hop).
THEOREM ConsentToLossAlways == Spec => ConsentToLoss
<1>1. ASSUME LedgerInv, LedgerInv', [Next]_vars, vars' # vars, unit' = unit, NEW m \in Members,
             ~Consents(m, signers')
      PROVE  OwedTo(m) + OwedBy(m)' <= OwedTo(m)' + OwedBy(m) + book'.charged[m] - book.charged[m]
                                          + (IF epoch' = epoch THEN 0 ELSE MaxRings * DustMinor)
  <2> DEFINE k == IF epoch' = epoch THEN 0 ELSE MaxRings * DustMinor
             R == {i \in DOMAIN book.rows : Live(book.rows[i]) /\ book.rows[i].creditor = m}
             Q == {i \in DOMAIN book.rows : Live(book.rows[i]) /\ book.rows[i].debtor = m}
             R1 == {i \in DOMAIN book'.rows : Live(book'.rows[i]) /\ book'.rows[i].creditor = m}
             Q1 == {i \in DOMAIN book'.rows : Live(book'.rows[i]) /\ book'.rows[i].debtor = m}
  <2>1. book \in BookSet /\ book' \in BookSet
    BY <1>1 DEF LedgerInv, Good, Books
  <2>2. MaxRings * DustMinor \in Nat
    BY <1>1, InvReady, LedgerAssumption, ProductIsNatural DEF Ready
  <2>3. Net(book, m) \in Int /\ Net(book', m) \in Int
    BY <1>1, <2>1, NetType
  <2>4. Net(book, m) <= Net(book', m) + k
    <3>1. CASE Transaction
      <4>1. Net(book, m) <= Net(book', m)
        BY <1>1, <3>1, TransactionConsents
      <4> QED  BY <2>2, <2>3, <4>1
    <3>2. CASE Unsigned
      <4>1. \/ epoch' # epoch /\ Lost(book, book', MaxRings * DustMinor)
            \/ epoch' = epoch /\ Lost(book, book', 0)
        BY <1>1, <3>2, UnsignedSpares
      <4> QED  BY <1>1, <4>1 DEF Lost
    <3> QED  BY <1>1, <3>1, <3>2 DEF Next
  <2>5. OwedTo(m) = OwedIn(book, R) /\ OwedBy(m) = OwedIn(book, Q)
    <3>1. R = {i \in LiveRows : book.rows[i].creditor = m} /\ Q = {i \in LiveRows : book.rows[i].debtor = m}
      BY DEF LiveRows
    <3> HIDE DEF R, Q
    <3> QED  BY <3>1 DEF OwedTo, OwedBy, Owed, OwedIn
  <2>6. OwedTo(m)' = OwedIn(book', R1) /\ OwedBy(m)' = OwedIn(book', Q1)
    <3>1. /\ R1 = {i \in LiveRows' : book'.rows[i].creditor = m}
          /\ Q1 = {i \in LiveRows' : book'.rows[i].debtor = m}
      BY DEF LiveRows
    <3> HIDE DEF R1, Q1
    <3> QED  BY <3>1 DEF OwedTo, OwedBy, Owed, OwedIn
  <2>7. /\ OwedIn(book, R) \in Nat /\ OwedIn(book, Q) \in Nat /\ book.charged[m] \in Nat
        /\ Net(book, m) = OwedIn(book, R) - OwedIn(book, Q) + book.charged[m]
    BY <1>1, <2>1, NetIs
  <2>8. /\ OwedIn(book', R1) \in Nat /\ OwedIn(book', Q1) \in Nat /\ book'.charged[m] \in Nat
        /\ Net(book', m) = OwedIn(book', R1) - OwedIn(book', Q1) + book'.charged[m]
    BY <1>1, <2>1, NetIs
  <2>9. k \in Nat
    BY <2>2
  <2> HIDE DEF k, R, Q, R1, Q1
  <2>10. OwedTo(m) + OwedBy(m)' <= OwedTo(m)' + OwedBy(m) + book'.charged[m] - book.charged[m] + k
    BY <2>4, <2>5, <2>6, <2>7, <2>8, <2>9
  <2> QED  BY <2>10 DEF k
<1>2. LedgerInv /\ LedgerInv' /\ [Next]_vars =>
        [unit' = unit => \A m \in Members :
            Consents(m, signers') \/
            OwedTo(m) + OwedBy(m)' <= OwedTo(m)' + OwedBy(m) + book'.charged[m] - book.charged[m]
                                          + (IF epoch' = epoch THEN 0 ELSE MaxRings * DustMinor)]_vars
  BY <1>1
<1> QED  BY <1>2, InvAlways, PTL DEF Spec, ConsentToLoss

-----------------------------------------------------------------------------
(* The ledger that sells *)

\* The book keeps its invariant beside the listings, which name members.
SaleInv ==
    /\ LedgerInv
    /\ DOMAIN beneficiaries = Members /\ DOMAIN supportersOf = Members /\ DOMAIN approved = Members
    /\ Weighed
    /\ ListingsMatch
    /\ \A m \in Members : supportersOf[m] \subseteq Members \ {m}
    /\ Apart

LEMMA SaleInvInit == SaleInit => SaleInv
<1> SUFFICES ASSUME SaleInit
             PROVE  SaleInv
  OBVIOUS
<1>1. /\ Init /\ beneficiaries = [m \in Members |-> <<>>] /\ supportersOf = [m \in Members |-> {}]
      /\ approved = [m \in Members |-> {}] /\ DOMAIN <<>> = {}
  BY DEF SaleInit
<1>2. Weighed /\ ListingsMatch
  BY <1>1 DEF Weighed, ListingsMatch
<1>3. Apart /\ \A m \in Members : supportersOf[m] \subseteq Members \ {m}
  BY <1>1 DEF Apart
<1> QED  BY <1>1, <1>2, <1>3, InvInit DEF SaleInv

\* Whoever signs, the ledger is as it was.
LEMMA SignedKeeps ==
    ASSUME LedgerInv, signers' \subseteq Members, UNCHANGED <<epoch, book, supply, suspended, unit>>
    PROVE  LedgerInv'
<1>1. Good(book, epoch) /\ Filled(book)
  BY DEF LedgerInv, Good, Sound
<1>2. Filled(book)'
  BY <1>1, SameSupply
<1>3. Good(book, epoch)'
  BY <1>1, <1>2, SameUnit
<1> QED  BY <1>3 DEF LedgerInv

\* A listing replaced takes the edges of the one before with it.
LEMMA ListedKeeps ==
    ASSUME SaleInv, NEW m \in Members, NEW weights, NEW S, ListBeneficiaries(m, weights, S),
           DOMAIN weights \subseteq Members, \A n \in DOMAIN weights : weights[n] \in Nat
    PROVE  /\ DOMAIN beneficiaries' = Members /\ DOMAIN supportersOf' = Members
           /\ Weighed' /\ ListingsMatch'
           /\ \A n \in Members : supportersOf'[n] \subseteq Members \ {n}
<1>1. /\ beneficiaries' = [beneficiaries EXCEPT ![m] = weights]
      /\ supportersOf' = [n \in Members |-> (supportersOf[n] \ {m}) \cup
                              IF n # m /\ n \in DOMAIN weights THEN {m} ELSE {}]
  BY DEF ListBeneficiaries
<1>2. DOMAIN beneficiaries = Members /\ Weighed /\ ListingsMatch
  BY DEF SaleInv
<1>3. /\ DOMAIN beneficiaries' = Members /\ DOMAIN supportersOf' = Members
      /\ beneficiaries'[m] = weights
      /\ \A l \in Members : l # m => beneficiaries'[l] = beneficiaries[l]
  BY <1>1, <1>2
<1>4. Weighed'
  BY <1>2, <1>3 DEF Weighed
<1>5. ASSUME NEW l \in Members, NEW n \in Members, l # n
      PROVE  n \in DOMAIN beneficiaries'[l] <=> l \in supportersOf'[n]
  <2>1. n \in DOMAIN beneficiaries[l] <=> l \in supportersOf[n]
    BY <1>2, <1>5 DEF ListingsMatch
  <2>2. supportersOf'[n] = (supportersOf[n] \ {m}) \cup
                               IF n # m /\ n \in DOMAIN weights THEN {m} ELSE {}
    BY <1>1
  <2>3. CASE l = m
    BY <1>3, <1>5, <2>2, <2>3
  <2>4. CASE l # m
    BY <1>3, <2>1, <2>2, <2>4
  <2> QED  BY <2>3, <2>4
<1>6. \A n \in Members : supportersOf'[n] \subseteq Members \ {n}
  BY <1>1 DEF SaleInv
<1> QED  BY <1>3, <1>4, <1>5, <1>6 DEF ListingsMatch

\* A listing, an approval or its withdrawal, and a sale.
LEMMA SaleInvNext == SaleInv /\ [SaleNext]_saleVars => SaleInv'
<1> SUFFICES ASSUME SaleInv, [SaleNext]_saleVars
             PROVE  SaleInv'
  OBVIOUS
<1>1. /\ LedgerInv /\ DOMAIN beneficiaries = Members /\ DOMAIN supportersOf = Members /\ DOMAIN approved = Members
      /\ Weighed /\ ListingsMatch /\ Apart /\ \A n \in Members : supportersOf[n] \subseteq Members \ {n}
  BY DEF SaleInv
<1>2. ASSUME UNCHANGED listings
      PROVE  /\ DOMAIN beneficiaries' = Members /\ DOMAIN supportersOf' = Members /\ DOMAIN approved' = Members
             /\ Weighed' /\ ListingsMatch' /\ Apart' /\ \A n \in Members : supportersOf'[n] \subseteq Members \ {n}
  BY <1>1, <1>2 DEF listings, Weighed, ListingsMatch, Apart
<1>3. CASE Next /\ UNCHANGED listings
  <2>1. LedgerInv'
    BY <1>1, <1>3, InvNext
  <2> QED  BY <1>2, <1>3, <2>1 DEF SaleInv
<1>4. CASE Listed
  <2>1. PICK S \in SignerSets :
           /\ signers' = S
           /\ UNCHANGED <<epoch, book, supply, suspended, unit>>
           /\ \/ \E l \in Listings : ListBeneficiaries(l[1], l[2], S)
              \/ \E m, n \in Members : Approve(m, n, S)
              \/ \E m \in Members : \E n \in approved[m] : Withdraw(m, n, S)
    BY <1>4 DEF Listed
  <2>2. LedgerInv'
    <3>1. signers' \subseteq Members
      BY <2>1, LedgerAssumption
    <3> QED  BY <1>1, <2>1, <3>1, SignedKeeps
  <2>3. CASE \E l \in Listings : ListBeneficiaries(l[1], l[2], S)
    <3>1. PICK l \in Listings : ListBeneficiaries(l[1], l[2], S)
      BY <2>3
    <3>2. l[1] \in Members /\ DOMAIN l[2] \subseteq Members /\ \A n \in DOMAIN l[2] : l[2][n] \in Nat
      BY SaleAssumption
    <3>3. /\ DOMAIN beneficiaries' = Members /\ DOMAIN supportersOf' = Members
          /\ Weighed' /\ ListingsMatch'
          /\ \A n \in Members : supportersOf'[n] \subseteq Members \ {n}
      BY <3>1, <3>2, ListedKeeps
    <3>4. DOMAIN approved' = Members /\ Apart'
      BY <1>1, <3>1 DEF ListBeneficiaries, Apart
    <3> QED  BY <2>2, <3>3, <3>4 DEF SaleInv
  <2>4. CASE \/ \E m, n \in Members : Approve(m, n, S)
             \/ \E m \in Members : \E n \in approved[m] : Withdraw(m, n, S)
    <3>1. beneficiaries' = beneficiaries /\ supportersOf' = supportersOf
      BY <2>4 DEF Approve, Withdraw
    <3>2. Weighed' /\ ListingsMatch'
      BY <1>1, <3>1 DEF Weighed, ListingsMatch
    <3>3. DOMAIN approved' = Members /\ Apart'
      <4>1. CASE \E m, n \in Members : Approve(m, n, S)
        BY <1>1, <4>1 DEF Approve, Apart
      <4>2. CASE \E m \in Members : \E n \in approved[m] : Withdraw(m, n, S)
        BY <1>1, <4>2 DEF Withdraw, Apart
      <4> QED  BY <2>4, <4>1, <4>2
    <3> QED  BY <1>1, <2>2, <3>1, <3>2, <3>3 DEF SaleInv
  <2> QED  BY <2>1, <2>3, <2>4
<1>5. CASE Sold
  <2>1. PICK S \in SignerSets, p \in Sales, term \in MinMaturity..MaxHorizon :
           signers' = S /\ Sell(p[1], p[2], p[3], term, S)
    BY <1>5 DEF Sold
  <2>2. p[1] \in Members /\ p[2] \in Members /\ p[3] \in Nat
    BY SaleAssumption
  <2>3. UNCHANGED <<epoch, supply, suspended, unit, listings>> /\ signers' \subseteq Members
    BY <2>1, LedgerAssumption DEF Sell
  <2>4. Good(book, epoch) /\ Ready /\ epoch \in Nat
    BY <1>1, InvReady, LedgerAssumption DEF LedgerInv
  <2>5. Good(book', epoch)
    BY <1>1, <2>1, <2>2, <2>4, SellGood
  <2>6. LedgerInv'
    <3>1. Filled(book')
      BY <2>5 DEF Good, Sound
    <3>2. Filled(book)'
      BY <2>3, <3>1, SameSupply
    <3>3. Good(book, epoch)'
      BY <2>3, <2>5, <3>2, SameUnit
    <3> QED  BY <1>1, <2>3, <3>3 DEF LedgerInv
  <2> QED  BY <1>2, <2>3, <2>6 DEF SaleInv
<1>6. CASE UNCHANGED saleVars
  <2>1. UNCHANGED vars /\ UNCHANGED listings
    BY <1>6 DEF saleVars
  <2>2. LedgerInv'
    BY <1>1, <2>1, InvNext
  <2> QED  BY <1>2, <2>1, <2>2 DEF SaleInv
<1> QED  BY <1>3, <1>4, <1>5, <1>6 DEF SaleNext

\* A sale routes one member's debts into what another comes to owe, through
\* the listings of members who signed nothing: the book passes its audit after
\* every original cleared, every successor booked and what is left of the
\* seller's hold re-reserved, and every listing edge has its reverse after a
\* listing is replaced (cascade.rs net_mutual, clear_member_debts, drain_level;
\* apply.rs; invariants.rs).
THEOREM SaleAuditAlways == SaleSpec => [](Audit /\ ListingsMatch)
<1>1. SaleInv => Audit /\ ListingsMatch
  BY InvTypeOK, InvBooksAgree, InvRowsAgree, InvHoldsAgree DEF Audit, SaleInv
<1> QED  BY <1>1, SaleInvInit, SaleInvNext, PTL DEF SaleSpec

\* With sales about, panels still charge no more than was agreed to and the sweep
\* still leaves nothing overdue: what a cascade books carries no panel, and falls
\* due when the sale or the claim it routes does, neither of them past
\* (cascade.rs clear_member_debts, apply.rs arb_award, sweep_cranks).
THEOREM SaleBoundsAlways == SaleSpec => [](PanelsAwardOnce /\ NothingOverdue)
<1>1. SaleInv => PanelsAwardOnce /\ NothingOverdue
  BY InvPanelsAwardOnce, InvNothingOverdue DEF SaleInv
<1> QED  BY <1>1, SaleInvInit, SaleInvNext, PTL DEF SaleSpec

\* A sale struck: what a step that records one has made of the book.
Struck(p) ==
    /\ Ready /\ Apart /\ epoch \in Nat /\ unit' = unit
    /\ book \in Books /\ Balanced(book) /\ RowsSound(book)
    /\ book' \in Books /\ Balanced(book') /\ RowsSound(book')
    /\ p[1] \in Members /\ p[2] \in Members /\ p[3] \in Nat /\ p[1] # p[2]
    /\ Deal(book, book', p[1], p[2], p[3])

LEMMA SoldIsStruck ==
    ASSUME SaleInv, SaleNext, NEW p \in Sales, sold' = p
    PROVE  Struck(p)
<1>1. p \in Members \X Members \X Nat /\ <<>> \notin Members \X Members \X Nat
  BY SaleAssumption
<1>2. Sold
  BY <1>1 DEF SaleNext
<1>3. PICK S \in SignerSets, q \in Sales, term \in MinMaturity..MaxHorizon :
         signers' = S /\ sold' = q /\ Sell(q[1], q[2], q[3], term, S)
  BY <1>2 DEF Sold
<1>4. q = p /\ Sell(p[1], p[2], p[3], term, S)
  BY <1>3
<1>5. p[1] \in Members /\ p[2] \in Members /\ p[3] \in Nat
  BY <1>1
<1>6. p[1] # p[2] /\ unit' = unit
  BY <1>4 DEF Sell
<1>7. LedgerInv /\ Weighed /\ Apart
  BY DEF SaleInv
<1>8. Good(book, epoch) /\ Ready /\ epoch \in Nat
  BY <1>7, InvReady, LedgerAssumption DEF LedgerInv
<1>9. Good(book', epoch) /\ Deal(book, book', p[1], p[2], p[3])
  BY <1>4, <1>5, <1>7, <1>8, SellGood
<1> QED  BY <1>5, <1>6, <1>7, <1>8, <1>9 DEF Good, Sound, Struck

LEMMA DustCovers ==
    ASSUME DustMinor \in Nat, NEW f \in RowFiles, NEW W \in SUBSET DOMAIN f, NEW R \in SUBSET W
    PROVE  /\ DustMinor * Cardinality(R) \in Nat /\ DustMinor * Cardinality(W) \in Nat
           /\ DustMinor * Cardinality(R) <= DustMinor * Cardinality(W)
<1>1. IsFiniteSet(W)
  BY SizeType
<1>2. Cardinality(R) \in Nat /\ Cardinality(W) \in Nat /\ Cardinality(R) <= Cardinality(W)
  BY <1>1, FS_Subset, FS_CardinalityType
<1> QED  BY <1>2, ProductGrows, ProductIsNatural

\* The rows of one member owed to another, and what they come to.
LEMMA LienIs ==
    ASSUME DustMinor \in Nat, NEW b \in BookSet, RowsSound(b), NEW d, NEW c, NEW L,
           L = {i \in DOMAIN b.rows : Live(b.rows[i]) /\ b.rows[i].debtor = d /\ b.rows[i].creditor = c}
    PROVE  OwedIn(b, L) = Size(b.rows, Lien(b.rows, d, c))
<1> DEFINE R == Lien(b.rows, d, c)
<1>1. R \in SUBSET DOMAIN b.rows /\ L = {i \in R : Live(b.rows[i])}
  BY DEF Lien
<1> HIDE DEF R
<1> QED  BY <1>1, OwedIs DEF R

\* What the netting extinguishes and what the buyer comes to owe are the amount
\* of the sale: neither a listing, nor a reservation that fails, nor the drain
\* of a supporter loses or doubles a part of it (cascade.rs net_mutual,
\* drain_level; apply.rs apply_cascade_closures and the genesis debt).
THEOREM SaleIsExactAlways == SaleSpec => SaleIsExact
<1>1. ASSUME SaleInv, SaleNext, NEW p \in Sales, sold' = p
      PROVE  LET paid == OwedBetween(p[1], p[2]) + book'.debt[p[2]]
                 owed == OwedBetween(p[1], p[2])' + book.debt[p[2]] + p[3]
             IN paid <= owed + Slack(p[2]) /\ owed <= paid + DustMinor
  <2>1. Struck(p)
    BY <1>1, SoldIsStruck
  <2> DEFINE d == p[1]
             c == p[2]
             x == p[3]
             R == Lien(book.rows, d, c)
             Q == Lien(book'.rows, d, c)
             W == ClaimsOf(c)
  <2>2. /\ book \in Books /\ book' \in Books /\ DustMinor \in Nat /\ book.rows \in RowFiles /\ x \in Nat
        /\ book \in BookSet /\ book' \in BookSet /\ RowsSound(book) /\ RowsSound(book')
        /\ book.debt[c] \in Nat /\ book'.debt[c] \in Nat
    BY <2>1 DEF Struck, Ready, Books, BookSet, Purses
  <2>3. /\ Size(book.rows, R) + book'.debt[c] <= Size(book'.rows, Q) + book.debt[c] + x + DustMinor * Cardinality(R)
        /\ Size(book'.rows, Q) + book.debt[c] + x <= Size(book.rows, R) + book'.debt[c] + DustMinor
    BY <2>1, DealExact DEF Struck
  <2>4. OwedBetween(d, c) = Size(book.rows, R)
    <3> DEFINE L == {i \in DOMAIN book.rows : Live(book.rows[i]) /\ book.rows[i].debtor = d /\ book.rows[i].creditor = c}
    <3>1. L = {i \in LiveRows : book.rows[i].debtor = d /\ book.rows[i].creditor = c}
      BY DEF LiveRows
    <3> HIDE DEF L
    <3>2. OwedBetween(d, c) = OwedIn(book, L)
      BY <3>1 DEF OwedBetween, Owed, OwedIn
    <3>3. OwedIn(book, L) = Size(book.rows, R)
      BY <2>2, LienIs DEF L
    <3> QED  BY <3>2, <3>3
  <2>5. OwedBetween(d, c)' = Size(book'.rows, Q)
    <3> DEFINE L == {i \in DOMAIN book'.rows : Live(book'.rows[i]) /\ book'.rows[i].debtor = d /\ book'.rows[i].creditor = c}
    <3>1. L = {i \in LiveRows' : book'.rows[i].debtor = d /\ book'.rows[i].creditor = c}
      BY DEF LiveRows
    <3> HIDE DEF L
    <3>2. OwedBetween(d, c)' = OwedIn(book', L)
      BY <3>1 DEF OwedBetween, Owed, OwedIn
    <3>3. OwedIn(book', L) = Size(book'.rows, Q)
      BY <2>2, LienIs DEF L
    <3> QED  BY <3>2, <3>3
  <2>6. /\ DustMinor * Cardinality(R) <= Slack(c) /\ DustMinor * Cardinality(R) \in Nat /\ Slack(c) \in Nat
        /\ Size(book.rows, R) \in Nat /\ Size(book'.rows, Q) \in Nat
    <3>1. W \in SUBSET DOMAIN book.rows /\ R \in SUBSET W /\ Q \in SUBSET DOMAIN book'.rows /\ book'.rows \in RowFiles
      BY <2>2 DEF ClaimsOf, Lien, BookSet
    <3>2. Size(book'.rows, Q) \in Nat
      BY <2>2, <3>1, SizeType
    <3> HIDE DEF R, W, Q
    <3>3. R \in SUBSET DOMAIN book.rows
      BY <3>1
    <3>4. Size(book.rows, R) \in Nat
      BY <2>2, <3>3, SizeType
    <3>5. DustMinor * Cardinality(R) \in Nat /\ DustMinor * Cardinality(W) \in Nat
          /\ DustMinor * Cardinality(R) <= DustMinor * Cardinality(W)
      BY <2>2, <3>1, DustCovers
    <3> QED  BY <3>2, <3>4, <3>5 DEF Slack, W
  <2> DEFINE u == Size(book.rows, R)
             v == Size(book'.rows, Q)
             dust == DustMinor * Cardinality(R)
             slack == Slack(c)
             y == book.debt[c]
             z == book'.debt[c]
  <2>7. /\ u + z <= v + y + x + dust /\ v + y + x <= u + z + DustMinor /\ dust <= slack
        /\ u \in Nat /\ v \in Nat /\ dust \in Nat /\ slack \in Nat /\ y \in Nat /\ z \in Nat /\ x \in Nat /\ DustMinor \in Nat
    BY <2>2, <2>3, <2>6
  <2> HIDE DEF u, v, dust, slack, y, z, x, R, Q, W
  <2>8. u + z <= (v + y + x) + slack /\ v + y + x <= (u + z) + DustMinor
    BY <2>7
  <2> QED  BY <2>4, <2>5, <2>8 DEF u, v, slack, y, z, x, c, d
<1>2. SaleInv /\ SaleInv' /\ [SaleNext]_saleVars =>
        [\A p \in Sales : sold' = p =>
            LET paid == OwedBetween(p[1], p[2]) + book'.debt[p[2]]
                owed == OwedBetween(p[1], p[2])' + book.debt[p[2]] + p[3]
            IN paid <= owed + Slack(p[2]) /\ owed <= paid + DustMinor]_saleVars
  BY <1>1
<1> QED  BY <1>2, SaleInvInit, SaleInvNext, PTL DEF SaleSpec, SaleIsExact

\* Nobody is relieved through a listing beyond the largest stake between the
\* member and a supporter it approved, whatever weights the listings on the way
\* give it (cascade.rs drain_level, waterfill.rs).
THEOREM DrainIsCappedAlways == SaleSpec => DrainIsCapped
<1>1. ASSUME SaleInv, SaleNext, NEW p \in Sales, sold' = p, NEW m \in Members \ {p[1], p[2]}
      PROVE  book.debt[m] - book'.debt[m] <=
                 DustMinor * Cardinality(DebtsOf(m))
                   + Max({0} \cup {(PairStake(book, l, m) * NuNum) \div NuDen
                                     : l \in {l \in approved[m] : m \in DOMAIN beneficiaries[l]}})
  <2>1. Struck(p)
    BY <1>1, SoldIsStruck
  <2> DEFINE R == DebtRows(book.rows, m)
             most == MostDrained(book, m)
             dust == DustMinor * Cardinality(R)
             y == book.debt[m]
             z == book'.debt[m]
  <2>2. y <= z + dust + most /\ dust \in Nat /\ most \in Nat
    BY <2>1, DealCapped DEF Struck
  <2>3. y \in Nat /\ z \in Nat
    BY <2>1 DEF Struck, Books, BookSet, Purses
  <2>4. DebtsOf(m) = R
    BY DEF DebtsOf, DebtRows
  <2>5. most = Max({0} \cup {(PairStake(book, l, m) * NuNum) \div NuDen
                               : l \in {l \in approved[m] : m \in DOMAIN beneficiaries[l]}})
    BY DEF MostDrained, Drains
  <2> HIDE DEF R, most, dust, y, z
  <2>6. y - z <= dust + most
    BY <2>2, <2>3
  <2> QED  BY <2>4, <2>5, <2>6 DEF dust, y, z
<1>2. SaleInv /\ SaleInv' /\ [SaleNext]_saleVars =>
        [\A p \in Sales : sold' = p => \A m \in Members \ {p[1], p[2]} :
            book.debt[m] - book'.debt[m] <=
                DustMinor * Cardinality(DebtsOf(m))
                  + Max({0} \cup {(PairStake(book, l, m) * NuNum) \div NuDen
                                    : l \in {l \in approved[m] : m \in DOMAIN beneficiaries[l]}})]_saleVars
  BY <1>1
<1> QED  BY <1>2, SaleInvInit, SaleInvNext, PTL DEF SaleSpec, DrainIsCapped

\* W holds every insured row of a book that T covers.
Gathers(y, T, W) ==
    \A i \in DOMAIN y.rows :
        (y.rows[i].insured /\ <<y.rows[i].creditor, y.rows[i].maturity>> \in T) => i \in W

\* What the rows W of the later book owe a member, where W holds all of R that
\* is left and all that took the place of R.
LEMMA WholeOf ==
    ASSUME DustMinor \in Nat, NEW b \in BookSet, NEW y \in BookSet, NEW R \in SUBSET DOMAIN b.rows,
           NEW P \in SUBSET R, NEW T, MadeWhole(b, y, R, T),
           NEW W \in SUBSET DOMAIN y.rows, R \ P \subseteq W, Gathers(y, T, W)
    PROVE  /\ Size(b.rows, R) <= Size(y.rows, W) + Size(y.rows, P) + DustMinor * Cardinality(R)
           /\ Size(b.rows, R) \in Nat /\ Size(y.rows, W) \in Nat /\ Size(y.rows, P) \in Nat
<1> DEFINE f == b.rows
           g == y.rows
           dust == DustMinor * Cardinality(R)
           K == R \ P
<1>1. /\ f \in RowFiles /\ g \in RowFiles
      /\ \A i \in R : i \in DOMAIN g
  BY DEF BookSet, MadeWhole
<1>2. PICK N \in SUBSET (DOMAIN g \ DOMAIN f) :
         /\ \A i \in N : i \in W
         /\ Size(f, R) <= Size(g, R) + Size(g, N) + dust
  BY DEF MadeWhole, Gathers
<1> HIDE DEF f, g
<1>3. Size(f, R) \in Nat /\ dust \in Nat
  <2>1. R \in SUBSET DOMAIN f
    BY DEF f
  <2>2. Size(f, R) \in Nat /\ IsFiniteSet(R)
    BY <1>1, <2>1, SizeType
  <2> QED  BY <2>2, FS_CardinalityType, ProductIsNatural
<1>4. /\ K \in SUBSET DOMAIN g /\ P \in SUBSET DOMAIN g /\ N \in SUBSET DOMAIN g /\ W \in SUBSET DOMAIN g
      /\ K \cap P = {} /\ K \cup P = R /\ K \cap N = {} /\ K \cup N \in SUBSET W
  BY <1>1, <1>2 DEF f, g
<1> HIDE DEF K, dust
<1>5. Size(g, R) = Size(g, K) + Size(g, P)
  BY <1>1, <1>4, SizesApart
<1>6. Size(g, K \cup N) = Size(g, K) + Size(g, N)
  BY <1>1, <1>4, SizesApart
<1>7. Size(g, K \cup N) <= Size(g, W)
  BY <1>1, <1>4, SizePart
<1>8. Size(g, K) \in Nat /\ Size(g, P) \in Nat /\ Size(g, N) \in Nat /\ Size(g, W) \in Nat
  <2>1. Size(g, K) \in Nat
    BY <1>1, <1>4, SizeType
  <2>2. Size(g, P) \in Nat
    BY <1>1, <1>4, SizeType
  <2>3. Size(g, N) \in Nat
    BY <1>1, <1>4, SizeType
  <2>4. Size(g, W) \in Nat
    BY <1>1, <1>4, SizeType
  <2> QED  BY <2>1, <2>2, <2>3, <2>4
<1> DEFINE u == Size(f, R)
           r == Size(g, R)
           k == Size(g, K)
           n == Size(g, N)
           j == Size(g, K \cup N)
           w == Size(g, W)
           q == Size(g, P)
<1>9. u <= r + n + dust /\ r = k + q /\ j = k + n /\ j <= w
  BY <1>2, <1>5, <1>6, <1>7
<1>10. u \in Nat /\ dust \in Nat /\ k \in Nat /\ n \in Nat /\ w \in Nat /\ q \in Nat
  BY <1>3, <1>8
<1> HIDE DEF u, r, k, n, j, w, q
<1>11. u <= w + q + dust
  BY <1>9, <1>10
<1> QED  BY <1>10, <1>11 DEF u, w, q, dust, f, g

\* By a date: what the member is still owed, and what it is owed instead.
LEMMA DueIsKept ==
    ASSUME NEW p, Struck(p), NEW m \in Members, m # p[2], NEW e \in Nat
    PROVE  DueTo(m, e) <= DueTo(m, e)' + Slack(m)
<1> DEFINE R == {i \in DOMAIN book.rows : book.rows[i].creditor = m /\ book.rows[i].maturity <= e}
           W == {i \in DOMAIN book'.rows : book'.rows[i].creditor = m /\ book'.rows[i].maturity <= e}
           T == {m} \X (0..e)
           L == {i \in R : Live(book.rows[i])}
           M == {i \in W : Live(book'.rows[i])}
           C == ClaimsOf(m)
<1>1. /\ book \in BookSet /\ book' \in BookSet /\ book \in Books /\ book' \in Books /\ RowsSound(book) /\ RowsSound(book')
      /\ book.rows \in RowFiles /\ DustMinor \in Nat
      /\ \A i \in DOMAIN book.rows : book.rows[i].maturity \in Nat
  BY DEF Struck, Ready, Books, BookSet, RowFiles, RowSet
<1>2. R \in SUBSET DOMAIN book.rows /\ W \in SUBSET DOMAIN book'.rows /\ C \in SUBSET DOMAIN book.rows /\ R \in SUBSET C
      /\ T \in SUBSET Pairs /\ \A i \in R : book.rows[i].creditor = m
  BY MembersAssumption DEF ClaimsOf, Pairs
<1>3. Covers(book.rows, R, T)
  BY <1>1 DEF Covers
<1>4. Gathers(book', T, W)
  BY DEF Gathers
<1>5. DueTo(m, e) = OwedIn(book, L)
  <2>1. L = {i \in LiveRows : book.rows[i].creditor = m /\ book.rows[i].maturity <= e}
    BY DEF LiveRows
  <2> HIDE DEF L
  <2> QED  BY <2>1 DEF DueTo, Owed, OwedIn
<1>6. DueTo(m, e)' = OwedIn(book', M)
  <2>1. M = {i \in LiveRows' : book'.rows[i].creditor = m /\ book'.rows[i].maturity <= e}
    BY DEF LiveRows
  <2> HIDE DEF M
  <2> QED  BY <2>1 DEF DueTo, Owed, OwedIn
<1>7. \A i \in R : i \in DOMAIN book'.rows /\ Remains(book.rows[i], book'.rows[i]) => i \in W
  BY DEF Remains
<1> HIDE DEF R, W, T, C
<1>8. MadeWhole(book, book', R, T)
  BY <1>2, <1>3, DealWhole DEF Struck
<1>9. R \ {} \subseteq W
  BY <1>7, <1>8 DEF MadeWhole
<1>10. /\ Size(book.rows, R) <= Size(book'.rows, W) + Size(book'.rows, {}) + DustMinor * Cardinality(R)
       /\ Size(book.rows, R) \in Nat /\ Size(book'.rows, W) \in Nat
  <2>1. /\ DustMinor \in Nat /\ book \in BookSet /\ book' \in BookSet
        /\ R \in SUBSET DOMAIN book.rows /\ {} \in SUBSET R /\ MadeWhole(book, book', R, T)
        /\ W \in SUBSET DOMAIN book'.rows /\ R \ {} \subseteq W /\ Gathers(book', T, W)
    BY <1>1, <1>2, <1>4, <1>8, <1>9
  <2> QED  BY <2>1, WholeOf
<1>11. Size(book'.rows, {}) = 0
  BY SumOfNothing DEF Size
<1>12. OwedIn(book, L) = Size(book.rows, R) /\ OwedIn(book', M) = Size(book'.rows, W)
  <2>1. OwedIn(book, L) = Size(book.rows, R)
    BY <1>1, <1>2, OwedIs
  <2>2. OwedIn(book', M) = Size(book'.rows, W)
    BY <1>1, <1>2, OwedIs
  <2> QED  BY <2>1, <2>2
<1>13. /\ DustMinor * Cardinality(R) \in Nat /\ DustMinor * Cardinality(C) \in Nat
       /\ DustMinor * Cardinality(R) <= DustMinor * Cardinality(C)
  BY <1>1, <1>2, DustCovers
<1>14. Slack(m) = DustMinor * Cardinality(C)
  BY DEF Slack, C
<1> DEFINE u == Size(book.rows, R)
           w == Size(book'.rows, W)
           r == DustMinor * Cardinality(R)
           c == DustMinor * Cardinality(C)
<1>15. u <= w + 0 + r /\ r <= c /\ u \in Nat /\ w \in Nat /\ r \in Nat /\ c \in Nat
  BY <1>10, <1>11, <1>13
<1> HIDE DEF u, w, r, c, L, M
<1>16. u <= w + c
  BY <1>15
<1> QED  BY <1>5, <1>6, <1>12, <1>14, <1>16 DEF u, w, c

\* Of what is insured: all but what stays with a debtor that lost its hold.
LEMMA InsuredIsKept ==
    ASSUME NEW p, Struck(p), NEW m \in Members, m # p[2]
    PROVE  InsuredTo(m) <= InsuredTo(m)' + Bared(m) + Slack(m)
<1> DEFINE R == {i \in InsuredRows : book.rows[i].creditor = m}
           W == {i \in DOMAIN book'.rows : book'.rows[i].creditor = m /\ book'.rows[i].insured}
           P == {i \in R : ~book'.rows[i].insured}
           T == {m} \X Nat
           L == {i \in R : Live(book.rows[i])}
           M == {i \in W : Live(book'.rows[i])}
           C == ClaimsOf(m)
<1>1. /\ book \in BookSet /\ book' \in BookSet /\ book \in Books /\ book' \in Books /\ RowsSound(book) /\ RowsSound(book')
      /\ book.rows \in RowFiles /\ DustMinor \in Nat
  BY DEF Struck, Ready, Books, BookSet
<1>2. R \in SUBSET DOMAIN book.rows /\ W \in SUBSET DOMAIN book'.rows /\ C \in SUBSET DOMAIN book.rows /\ R \in SUBSET C
      /\ T \in SUBSET Pairs /\ P \in SUBSET R /\ L = R /\ \A i \in R : book.rows[i].creditor = m
  BY MembersAssumption DEF ClaimsOf, Pairs, InsuredRows, LiveRows
<1>3. Covers(book.rows, R, T)
  BY DEF Covers
<1>4. Gathers(book', T, W)
  BY DEF Gathers
<1>5. InsuredTo(m) = OwedIn(book, L)
  <2> HIDE DEF L
  <2> QED  BY <1>2 DEF InsuredTo, Owed, OwedIn
<1>6. InsuredTo(m)' = OwedIn(book', M)
  <2>1. M = {i \in InsuredRows' : book'.rows[i].creditor = m}
    BY DEF InsuredRows, LiveRows
  <2> HIDE DEF M
  <2> QED  BY <2>1 DEF InsuredTo, Owed, OwedIn
<1>7. Bared(m) = Size(book'.rows, P)
  <2> DEFINE ids == {id \in ClaimsOf(m) : id \in InsuredRows /\ ~book'.rows[id].insured}
             g == [id \in ids |-> book'.rows[id].outstanding]
  <2>1. ids = P
    BY DEF ClaimsOf, InsuredRows, LiveRows
  <2>2. Bared(m) = Sum(g)
    BY DEF Bared
  <2>3. DOMAIN g = P /\ Size(book'.rows, P) = SumFunctionOnSet(g, P)
    <3> HIDE DEF ids, P
    <3> QED  BY <2>1 DEF Size
  <2> HIDE DEF g
  <2>4. Sum(g) = SumFunctionOnSet(g, P)
    BY <2>3, SumIs
  <2> QED  BY <2>2, <2>3, <2>4
<1>8. \A i \in R \ P : i \in DOMAIN book'.rows /\ Remains(book.rows[i], book'.rows[i]) => i \in W
  BY DEF Remains
<1> HIDE DEF R, W, T, C, P
<1>9. MadeWhole(book, book', R, T)
  BY <1>2, <1>3, DealWhole DEF Struck
<1>10. R \ P \subseteq W
  BY <1>8, <1>9 DEF MadeWhole
<1>11. /\ Size(book.rows, R) <= Size(book'.rows, W) + Size(book'.rows, P) + DustMinor * Cardinality(R)
       /\ Size(book.rows, R) \in Nat /\ Size(book'.rows, W) \in Nat /\ Size(book'.rows, P) \in Nat
  <2>1. /\ DustMinor \in Nat /\ book \in BookSet /\ book' \in BookSet
        /\ R \in SUBSET DOMAIN book.rows /\ P \in SUBSET R /\ MadeWhole(book, book', R, T)
        /\ W \in SUBSET DOMAIN book'.rows /\ R \ P \subseteq W /\ Gathers(book', T, W)
    BY <1>1, <1>2, <1>4, <1>9, <1>10
  <2> QED  BY <2>1, WholeOf
<1>12. OwedIn(book, L) = Size(book.rows, R) /\ OwedIn(book', M) = Size(book'.rows, W)
  <2>1. OwedIn(book, L) = Size(book.rows, R)
    BY <1>1, <1>2, OwedIs
  <2>2. OwedIn(book', M) = Size(book'.rows, W)
    BY <1>1, <1>2, OwedIs
  <2> QED  BY <2>1, <2>2
<1>13. /\ DustMinor * Cardinality(R) \in Nat /\ DustMinor * Cardinality(C) \in Nat
       /\ DustMinor * Cardinality(R) <= DustMinor * Cardinality(C)
  BY <1>1, <1>2, DustCovers
<1>14. Slack(m) = DustMinor * Cardinality(C)
  BY DEF Slack, C
<1> DEFINE u == Size(book.rows, R)
           w == Size(book'.rows, W)
           q == Size(book'.rows, P)
           r == DustMinor * Cardinality(R)
           c == DustMinor * Cardinality(C)
<1>15. u <= w + q + r /\ r <= c /\ u \in Nat /\ w \in Nat /\ q \in Nat /\ r \in Nat /\ c \in Nat
  BY <1>11, <1>13
<1> HIDE DEF u, w, q, r, c, L, M
<1>16. u <= w + q + c
  BY <1>15
<1> QED  BY <1>5, <1>6, <1>7, <1>12, <1>14, <1>16 DEF u, w, q, c

\* Those who did not sign a sale are owed as much by every date, are insured for
\* all that moves, and owe no more: what the cascade takes from a debtor's rows
\* the buyer's successors promise to the same creditor by the same date, on a
\* hold of their own (cascade.rs clear_member_debts; apply.rs
\* apply_cascade_closures).
THEOREM OthersAreWholeAlways == SaleSpec => OthersAreWhole
<1>1. ASSUME SaleInv, SaleNext, NEW p \in Sales, sold' = p, NEW m \in Members \ {p[1], p[2]}
      PROVE  /\ \A e \in 0..MaxEpoch + MaxHorizon : DueTo(m, e) <= DueTo(m, e)' + Slack(m)
             /\ InsuredTo(m) <= InsuredTo(m)' + Bared(m) + Slack(m)
             /\ book'.debt[m] <= book.debt[m]
  <2>1. Struck(p)
    BY <1>1, SoldIsStruck
  <2>2. ASSUME NEW e \in 0..MaxEpoch + MaxHorizon
        PROVE  DueTo(m, e) <= DueTo(m, e)' + Slack(m)
    <3>1. e \in Nat
      BY <2>2, LedgerAssumption
    <3> QED  BY <2>1, <3>1, DueIsKept
  <2>3. InsuredTo(m) <= InsuredTo(m)' + Bared(m) + Slack(m)
    BY <2>1, InsuredIsKept
  <2>4. book'.debt[m] <= book.debt[m]
    BY <2>1, DealCapped DEF Struck
  <2> QED  BY <2>2, <2>3, <2>4
<1>2. SaleInv /\ SaleInv' /\ [SaleNext]_saleVars =>
        [\A p \in Sales : sold' = p => \A m \in Members \ {p[1], p[2]} :
            /\ \A e \in 0..MaxEpoch + MaxHorizon : DueTo(m, e) <= DueTo(m, e)' + Slack(m)
            /\ InsuredTo(m) <= InsuredTo(m)' + Bared(m) + Slack(m)
            /\ book'.debt[m] <= book.debt[m]]_saleVars
  BY <1>1
<1> QED  BY <1>2, SaleInvInit, SaleInvNext, PTL DEF SaleSpec, OthersAreWhole

=============================================================================
