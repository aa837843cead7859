-------------------------------- MODULE Ledger --------------------------------
(***************************************************************************)
(* The book of obligations and the reservations that back it: acceptance,  *)
(* settlement, cure, extension and transfer (crates/state/src/apply.rs),   *)
(* the loss of an insured default (loss.rs), and what every epoch boundary *)
(* does on its own -- decay, expiry, ring netting and pruning (state.rs    *)
(* begin_block, apply.rs sweep_cranks).                                    *)
(*                                                                         *)
(* Amounts are minor units.  The bond gate, seats and sales                *)
(* are left to other modules: accounts exist from the start.  An           *)
(* arbitration panel travels with the claim it was agreed on.              *)
(***************************************************************************)
EXTENDS StakeGraph

CONSTANTS
    SignerSets,           \* the signatures a transaction may carry
    Guardians, Threshold, \* guardians of each member, and how many must sign
    MaySuspend,           \* members governance may suspend
    Dust,                 \* Params::dust_minor at genesis
    MinMaturity, MaxHorizon, InsuredHorizon,
    MaxInstallments,
    DecayNum, DecayDen,
    Retention,            \* CLOSED_RETENTION_EPOCHS
    MaxRing, MaxRings,    \* NETTING_MAX_RING, NETTING_MAX_RINGS_PER_EPOCH
    GenesisSupply, GenesisStakes,
    Scales,               \* the re-denominations governance may adopt, <<num, den>>
    Panels,               \* bound: the terms offered, [arbiters, quorum, window, cap]
    Attested,             \* bound: the figures arbiters attest
    Deals,                \* bound: the trades offered, <<debtor, creditor, amount>>
    MaxRows, MaxEpoch, MaxScales   \* bounds: rows before the last acceptance, epochs, Scales adopted

ASSUME LedgerAssumption ==
    /\ SignerSets \subseteq SUBSET Members
    /\ Guardians \in [Members -> SUBSET Members] /\ Threshold \in Nat \ {0}
    /\ MaySuspend \subseteq Members /\ Deals \subseteq Members \X Members \X Nat
    /\ Dust \in Nat
    /\ {MinMaturity, MaxHorizon, InsuredHorizon, Retention} \subseteq Nat
    /\ {MaxInstallments, MaxRing, MaxRings, MaxRows, MaxEpoch, MaxScales} \subseteq Nat
    /\ Attested \subseteq Nat
    /\ \A t \in Panels : /\ t.arbiters \subseteq Members
                        /\ {t.quorum, t.window} \subseteq Nat \ {0} /\ t.cap \in Nat
    /\ Scales \subseteq Nat \X (Nat \ {0})
    /\ DecayNum \in Nat /\ DecayDen \in Nat \ {0} /\ DecayNum <= DecayDen
    /\ GenesisSupply \in [Members -> Nat] /\ GenesisStakes \in [Arcs -> Nat]

VARIABLES
    epoch,
    book,       \* the obligations and the caches that move with them
    supply,     \* underwriters: what each has declared, 0 = no entry
    suspended,  \* members whose status is Suspended
    unit,       \* what one genesis unit is now, num / den, and how often that moved
    signers     \* history: the signatures the last transition carried

vars == <<epoch, book, supply, suspended, unit, signers>>

DustMinor == (Dust * unit.num) \div unit.den

Live(c) == c.status \in {"Active", "Expired"}

Consents(m, S) == m \in S \/ (Guardians[m] # {} /\ Cardinality(Guardians[m] \cap S) >= Threshold)

-----------------------------------------------------------------------------
(* Reservations and stakes *)

FreeWeight(b) == [a \in Arcs |-> Minus(b.edges[a], b.reserved[a])]
FreeSupply(b) == [u \in Members |-> Minus(supply[u], b.committed[u])]

Capacity(b, T) == Cut(FreeWeight(b), FreeSupply(b), T)

Conferrable(b, m) == IF supply[m] > 0 THEN supply[m] ELSE Capacity(b, {m})

Reserve(b, h) == [b EXCEPT !.reserved = [a \in Arcs |-> @[a] + h.edges[a]],
                           !.committed = [u \in Members |-> @[u] + h.supply[u]]]

Release(b, h) == [b EXCEPT !.reserved = [a \in Arcs |-> Minus(@[a], h.edges[a])],
                           !.committed = [u \in Members |-> Minus(@[u], h.supply[u])]]

Uninsured == [insured |-> FALSE, held |-> Nothing]

\* reserve_capacity: a flow of the whole amount, or nothing.
Taken(b, d, x) ==
    LET hs == Reservations(FreeWeight(b), FreeSupply(b), d, x)
    IN IF hs = {} THEN {Uninsured} ELSE {[insured |-> TRUE, held |-> h] : h \in hs}

Insurable(b, d, x) == d \notin suspended /\ x <= Capacity(b, {d})

\* discharge_credit
Staked(b, creditor, debtor, x) ==
    LET a == <<creditor, debtor>>
    IN IF x <= DustMinor THEN b
       ELSE [b EXCEPT !.edges[a] = More(@, Less(x, Conferrable(b, creditor)))]

-----------------------------------------------------------------------------
(* Opening and discharging rows *)

\* ArbTerms and what was attested under them; the parties stay those of the
\* acceptance, whoever comes to hold the claim.
NoTerms == [arbiters |-> {}, window |-> 0]

Agreed(t, d, c, x) ==
    IF t = NoTerms THEN t
    ELSE [arbiters |-> t.arbiters, quorum |-> t.quorum, window |-> t.window, cap |-> t.cap,
          debtor |-> d, creditor |-> c, amount |-> x, votes |-> <<>>, awarded |-> FALSE]

Row(d, c, x, due, t, e, base) ==
    [debtor |-> d, creditor |-> c, outstanding |-> x, original |-> x, maturity |-> due,
     status |-> "Active", created |-> e, accepted |-> base, insured |-> t.insured, held |-> t.held,
     arb |-> NoTerms]

Added(rows, id, row) == [i \in DOMAIN rows \cup {id} |-> IF i = id THEN row ELSE rows[i]]

\* open_obligation, on a reservation already taken
Opened(b, row) == [b EXCEPT !.rows = Added(@, b.next, row), !.next = @ + 1,
                            !.debt[row.debtor] = @ + row.outstanding]

Holding(b, id, still) == [Release(b, Without(b.rows[id].held, still)) EXCEPT !.rows[id].held = still]

\* A live hold shrinks where it is; a closed row gives everything back.
Reheld(b, id) ==
    LET c == b.rows[id]
        total == HeldAmount(c.held)
        keep == IF Live(c) THEN Less(c.outstanding, total) ELSE 0
    IN IF ~c.insured \/ keep = total THEN b
       ELSE Holding(b, id, Shrunk(c.held, c.debtor, keep))

\* What a payment moves the caches by: the book's own move, dust forgiven included.
ClearedByPayment(c, rest, x) == x   \* mutant: the cache follows the payment
Cleared(c, rest, x) == c.outstanding - rest

\* The body of settle, cure and discharge_hop: the row closes at dust, the
\* hold follows the debt down, and only then is the stake written.
Discharged(b, id, x) ==
    LET c == b.rows[id]
        left == c.outstanding - x
        rest == IF left <= DustMinor THEN 0 ELSE left
        cleared == Cleared(c, rest, x)
        closed == IF c.status = "Expired" THEN "Cured" ELSE "Settled"
        paid == [b EXCEPT !.rows[id].outstanding = rest,
                          !.rows[id].status = IF rest = 0 THEN closed ELSE @]
        staked == Staked(Reheld(paid, id), c.creditor, c.debtor, c.original - rest)
    IN [staked EXCEPT !.debt[c.debtor] = Minus(@, cleared),
                      !.default[c.debtor] = IF c.status = "Expired" THEN Minus(@, cleared) ELSE @]

-----------------------------------------------------------------------------
(* Transactions *)

WithinHorizon(c) == c.maturity <= c.accepted + InsuredHorizon

\* history: the most the panels a member lent under may still award against it
Consented(b, c, x, terms) ==
    IF terms = NoTerms THEN b ELSE [b EXCEPT !.agreed[c] = @ + Less(terms.cap, x)]

\* An amount just above the dust may come to the dust on the ledger's grid.
Accept(d, c, x, term, terms, S) ==
    /\ d # c
    /\ {d, c} \cap terms.arbiters = {}
    /\ terms # NoTerms => terms.quorum <= Cardinality(terms.arbiters)
    /\ x >= DustMinor /\ x > 0
    /\ {d, c} \subseteq S \ suspended
    /\ term \in MinMaturity..MaxHorizon
    /\ \E t \in IF term <= InsuredHorizon THEN Taken(book, d, x) ELSE {Uninsured} :
          book' = Opened(Reserve(Consented(book, c, x, terms), t.held),
                         [Row(d, c, x, epoch + term, t, epoch, epoch) EXCEPT !.arb = Agreed(terms, d, c, x)])
    /\ UNCHANGED <<epoch, supply, suspended, unit>>

BelowInstallment(c, x) == x < c.outstanding /\ x * MaxInstallments < c.original

Discharge(id, x, S, status) ==
    /\ book.rows[id].status = status
    /\ book.rows[id].debtor \in S
    /\ Consents(book.rows[id].creditor, S)
    /\ x \in 1..book.rows[id].outstanding
    /\ ~BelowInstallment(book.rows[id], x)
    /\ book' = Discharged(book, id, x)
    /\ UNCHANGED <<epoch, supply, suspended, unit>>

Settle(id, x, S) == Discharge(id, x, S, "Active")
Cure(id, x, S) == Discharge(id, x, S, "Expired")

Extend(id, due, S) ==
    LET c == book.rows[id]
        drops == c.insured /\ due > c.accepted + InsuredHorizon
    IN /\ c.status = "Active"
       /\ {c.debtor, c.creditor} \subseteq S
       /\ due \in c.maturity + 1..epoch + MaxHorizon
       /\ book' = IF drops
                  THEN [Release(book, c.held) EXCEPT !.rows[id].maturity = due,
                                                     !.rows[id].insured = FALSE,
                                                     !.rows[id].held = Nothing]
                  ELSE [book EXCEPT !.rows[id].maturity = due]
       /\ UNCHANGED <<epoch, supply, suspended, unit>>

SuccessorUnchecked(c, n) == WithinHorizon(c)   \* mutant: capacity is not asked

\* transfer's own gate, read on the graph as it will be once the old hold is
\* given back
SuccessorInsured(c, n) == WithinHorizon(c) /\ Insurable(Release(book, c.held), n, c.outstanding)

\* move_debtor
Moved(c, id) ==
    [Release(book, c.held) EXCEPT !.debt[c.debtor] = Minus(@, c.outstanding),
                                  !.rows[id].status = "Transferred",
                                  !.rows[id].outstanding = 0,
                                  !.rows[id].held = Nothing,
                                  !.rows[id].insured = FALSE]

Transfer(id, n, S) ==
    LET c == book.rows[id]
        b == Moved(c, id)
    IN /\ c.status = "Active"
       /\ n \notin {c.debtor, c.creditor}
       /\ {c.debtor, n} \subseteq S
       /\ n \notin suspended
       /\ SuccessorInsured(c, n) \/ c.creditor \in S
       /\ \E t \in IF WithinHorizon(c) THEN Taken(b, n, c.outstanding) ELSE {Uninsured} :
             book' = Opened(Reserve(b, t.held),
                            Row(n, c.creditor, c.outstanding, c.maturity, t, epoch, c.accepted))
       /\ UNCHANGED <<epoch, supply, suspended, unit>>

\* arb_attest
Attest(id, a, x, S) ==
    LET t == book.rows[id].arb
    IN /\ a \in S \cap t.arbiters
       /\ epoch <= book.rows[id].created + t.window
       /\ ~t.awarded /\ a \notin DOMAIN t.votes
       /\ book' = [book EXCEPT !.rows[id].arb.votes = Added(@, a, x)]
       /\ UNCHANGED <<epoch, supply, suspended, unit>>

SupplyFloor(u) == book.committed[u]

DeclareSupply(u, w, S) ==
    /\ u \in S
    /\ w \in SupplyFloor(u)..supply[u]
    /\ supply' = [supply EXCEPT ![u] = w]
    /\ UNCHANGED <<epoch, book, suspended, unit>>

\* what an adopted Suspend or Unsuspend proposal does to the member
SetStatus(m) ==
    /\ suspended' = IF m \in suspended THEN suspended \ {m} ELSE suspended \cup {m}
    /\ UNCHANGED <<epoch, book, supply, unit>>

-----------------------------------------------------------------------------
(* The epoch boundary *)

\* substitute: the claim moves onto the underwriters behind it, by what each
\* carried; each of them owes the creditor that much, uninsured.
Leg(b, u, c, x, e) ==
    IF u = c.creditor \/ x = 0 THEN b
    ELSE Opened(b, Row(u, c.creditor, x, e + MinMaturity, Uninsured, e, e))

PanelCopied(c) == c.arb   \* mutant: every piece of the claim carries the panel

PanelOfPiece(c) == NoTerms

Claim(c, u, x) ==
    [c EXCEPT !.creditor = u, !.outstanding = x, !.original = x,
              !.insured = TRUE, !.held = Piece(c.held, c.debtor, u)]

\* subrogated_claim: one more row of the same default, the debt unmoved
Subrogated(b, row) == [b EXCEPT !.rows = Added(@, b.next, row), !.next = @ + 1]

Substituted(b, id, e) ==
    LET c == b.rows[id]
        us == Ascending(Underwriters(c.held))
        residual == Minus(c.outstanding, HeldAmount(c.held))
        share(u) == c.held.supply[u] + (IF u = us[1] THEN residual ELSE 0)
        step(x, u) ==
            LET y == IF u = us[1] THEN [x EXCEPT !.rows[id] = Claim(c, u, share(u))]
                     ELSE Subrogated(x, [Claim(c, u, share(u)) EXCEPT !.arb = PanelOfPiece(c)])
            IN Leg(y, u, c, share(u), e)
    IN IF ~c.insured \/ Underwriters(c.held) \subseteq {c.creditor}
          \/ c.debtor \in Underwriters(c.held)
       THEN b ELSE FoldLeft(step, b, us)

\* mark_expired
Defaulted(b, id, e) ==
    LET c == b.rows[id]
    IN Substituted([b EXCEPT !.rows[id].status = "Expired",
                             !.default[c.debtor] = @ + c.outstanding], id, e)

Due(c, e) == c.status = "Active" /\ e > c.maturity /\ c.outstanding > DustMinor

ExpiredBefore(b, e) ==   \* mutant: the sweep runs on the epoch that closed
    FoldLeft(LAMBDA x, id : Defaulted(x, id, e), b,
             Ascending({id \in DOMAIN b.rows : Due(b.rows[id], e - 1)}))

Expired(b, e) ==
    FoldLeft(LAMBDA x, id : Defaulted(x, id, e), b,
             Ascending({id \in DOMAIN b.rows : Due(b.rows[id], e)}))

\* find_ring: the first simple cycle of defaults, in order of contract ids
Eligible(c) == /\ c.status = "Expired" /\ c.arb = NoTerms /\ c.outstanding > DustMinor
               /\ {c.debtor, c.creditor} \cap suspended = {}

Rings(b) ==
    LET hops == {id \in DOMAIN b.rows : Eligible(b.rows[id])}
        closes(r, i) == b.rows[r[i]].creditor = b.rows[r[IF i = Len(r) THEN 1 ELSE i + 1]].debtor
    IN {r \in UNION {[1..n -> hops] : n \in 2..MaxRing} :
          /\ \A i \in DOMAIN r : closes(r, i)
          /\ \A i, j \in DOMAIN r : i # j => b.rows[r[i]].debtor # b.rows[r[j]].debtor}

Largest(b, ring) == Max({b.rows[ring[i]].outstanding : i \in DOMAIN ring})   \* mutant

\* what a ring nets by
Smallest(b, ring) == Min({b.rows[ring[i]].outstanding : i \in DOMAIN ring})

\* discharge_hop
Hop(b, id, want) ==
    LET take == Less(want, b.rows[id].outstanding)
    IN IF take <= DustMinor THEN b ELSE Discharged(b, id, take)

Netted(b) ==
    LET ring == CHOOSE r \in Rings(b) : \A s \in Rings(b) : s = r \/ RouteBefore(r, s)
    IN IF Rings(b) = {} THEN b
       ELSE FoldLeft(LAMBDA x, id : Hop(x, id, Smallest(b, ring)), b, ring)

AllNetted(b) == FoldLeft(LAMBDA x, k : Netted(x), b, [k \in 1..MaxRings |-> k])

\* the k-th of the figures, from the lowest
Ranked(votes, k) ==
    Min({votes[a] : a \in {a \in DOMAIN votes :
                              Cardinality({z \in DOMAIN votes : votes[z] <= votes[a]}) >= k}})

Median(votes) ==
    LET n == Cardinality(DOMAIN votes)
    IN IF n % 2 = 1 THEN Ranked(votes, (n + 1) \div 2)
       ELSE (Ranked(votes, n \div 2) + Ranked(votes, n \div 2 + 1)) \div 2

\* arb_award: what the panel found the lender to owe the borrower, or nothing
\* where the quorum never met.
Awarded(b, id, e) ==
    LET t == b.rows[id].arb
        x == Less(Median(t.votes), Less(t.cap, t.amount))
        closed == [b EXCEPT !.rows[id].arb.awarded = TRUE]
    IN IF Cardinality(DOMAIN t.votes) < t.quorum \/ x <= DustMinor THEN closed
       ELSE [Opened(closed, Row(t.creditor, t.debtor, x, e + MinMaturity, Uninsured, e, e))
                EXCEPT !.charged[t.creditor] = @ + x]

WindowOver(c, e) == c.arb # NoTerms /\ ~c.arb.awarded /\ e > c.created + c.arb.window

PanelsHeard(b, e) ==
    FoldLeft(LAMBDA x, id : Awarded(x, id, e), b,
             Ascending({id \in DOMAIN b.rows : WindowOver(b.rows[id], e)}))

\* prune_closed_rows: a closed row stays for its panel's window
Pruned(b, e) ==
    [b EXCEPT !.rows = Restrict(@, {id \in DOMAIN @ :
                          Live(@[id]) \/ e <= @[id].created + More(Retention, @[id].arb.window)})]

Faded(b, epochs) ==
    FoldLeft(LAMBDA x, k : [x EXCEPT !.edges = Decayed(@, x.reserved, DecayNum, DecayDen)],
             b, [k \in 1..epochs |-> k])

BeginBlock(e) ==
    /\ epoch < e
    /\ epoch' = e
    /\ book' = Pruned(PanelsHeard(AllNetted(Expired(Faded(book, e - epoch), e)), e), e)
    /\ UNCHANGED <<supply, suspended, unit>>

-----------------------------------------------------------------------------
(* Re-denomination *)

Floored(v, pi) == (v * pi[1]) \div pi[2]   \* scale_minor

FlooredHold(h, pi) == [edges |-> [a \in Arcs |-> Floored(h.edges[a], pi)],
                       supply |-> [u \in Members |-> Floored(h.supply[u], pi)]]

\* The largest claim on a supply loses a unit, ties by row, then by underwriter.
Trimmed(rows, ids) ==
    LET claims == {c \in ids \X Members : rows[c[1]].held.supply[c[2]] > 0}
        size(c) == rows[c[1]].held.supply[c[2]]
        t == CHOOSE c \in claims : \A e \in claims :
                size(c) > size(e) \/ (size(c) = size(e) /\ (c = e \/ RouteBefore(c, e)))
    IN IF claims = {} THEN rows ELSE [rows EXCEPT ![t[1]].held.supply[t[2]] = @ - 1]

Unshaved(rows, d) == rows   \* mutant: what the floored arcs deliver is not asked

\* shave_holds_to_what_the_arcs_deliver, for one debtor
Shaved(rows, d) ==
    LET ids == {id \in DOMAIN rows : rows[id].insured /\ Live(rows[id]) /\ rows[id].debtor = d}
        held == FoldFunction(LAMBDA c, h : Plus(c.held, h), Nothing, Restrict(rows, ids))
        claimed == HeldAmount(held)
        excess == Minus(claimed, Cut(held.edges, held.supply, {d}))
    IN FoldLeft(LAMBDA x, k : Trimmed(x, ids), rows, [k \in 1..excess |-> k])

\* An insured claim is what it still holds; one that holds nothing is not insured.
Reread(c) ==
    IF ~c.insured \/ ~Live(c) THEN c
    ELSE IF HeldAmount(c.held) = 0 THEN [c EXCEPT !.insured = FALSE, !.held = Nothing]
    ELSE [c EXCEPT !.outstanding = HeldAmount(c.held)]

\* the terms' own amount is left as it was agreed
RescaledTerms(t, pi) ==
    IF t = NoTerms THEN t
    ELSE [t EXCEPT !.cap = Floored(@, pi), !.votes = [a \in DOMAIN @ |-> Floored(@[a], pi)]]

\* State::rescale, on the book
Rescaled(b, pi) ==
    LET cut == [id \in DOMAIN b.rows |->
                   [b.rows[id] EXCEPT !.outstanding = Floored(@, pi), !.original = Floored(@, pi),
                                      !.held = FlooredHold(@, pi), !.arb = RescaledTerms(@, pi)]]
        shaved == FoldLeft(Shaved, cut, Ascending(Members))
        rows == [id \in DOMAIN b.rows |-> Reread(shaved[id])]
        held == FoldFunction(LAMBDA c, h : Plus(c.held, h), Nothing, rows)
    IN [b EXCEPT !.rows = rows,
                 !.edges = [a \in Arcs |-> Floored(@[a], pi)],
                 !.reserved = held.edges, !.committed = held.supply,
                 !.debt = [m \in Members |-> Sum([id \in {i \in DOMAIN rows : Live(rows[i]) /\ rows[i].debtor = m}
                                                      |-> rows[id].outstanding])],
                 !.default = [m \in Members |-> Floored(@[m], pi)],
                 !.agreed = [m \in Members |-> Floored(@[m], pi)],
                 !.charged = [m \in Members |-> Floored(@[m], pi)]]

\* what an adopted Redenominate proposal does to the ledger
Redenominate(pi) ==
    /\ unit.times < MaxScales
    /\ unit' = [num |-> unit.num * pi[1], den |-> unit.den * pi[2], times |-> unit.times + 1]
    /\ book' = Rescaled(book, pi)
    /\ supply' = [u \in Members |-> Floored(supply[u], pi)]
    /\ UNCHANGED <<epoch, suspended>>

-----------------------------------------------------------------------------
Init ==
    /\ epoch = 0
    /\ book = [rows |-> <<>>, next |-> 1,
               debt |-> [m \in Members |-> 0], default |-> [m \in Members |-> 0],
               agreed |-> [m \in Members |-> 0], charged |-> [m \in Members |-> 0],
               edges |-> GenesisStakes,
               reserved |-> [a \in Arcs |-> 0], committed |-> [m \in Members |-> 0]]
    /\ supply = GenesisSupply
    /\ suspended = {}
    /\ unit = [num |-> 1, den |-> 1, times |-> 0]
    /\ signers = {}

Transaction ==
    \E S \in SignerSets :
        /\ signers' = S
        /\ \/ /\ book.next <= MaxRows
              /\ \/ \E p \in Deals, term \in MinMaturity..MaxHorizon, t \in Panels \cup {NoTerms} :
                       Accept(p[1], p[2], p[3], term, t, S)
                 \/ \E id \in DOMAIN book.rows, n \in S : Transfer(id, n, S)
           \/ \E id \in DOMAIN book.rows : \E x \in 1..book.rows[id].outstanding :
                 Settle(id, x, S) \/ Cure(id, x, S)
           \/ \E id \in DOMAIN book.rows : \E due \in 1..epoch + MaxHorizon : Extend(id, due, S)
           \/ \E id \in DOMAIN book.rows, a \in S, x \in Attested : Attest(id, a, x, S)
           \/ \E u \in S : \E w \in 0..supply[u] : DeclareSupply(u, w, S)

Unsigned ==
    /\ signers' = {}
    /\ \/ \E e \in 1..MaxEpoch : BeginBlock(e)
       \/ \E m \in MaySuspend : SetStatus(m)
       \/ \E pi \in Scales : Redenominate(pi)

Next == Transaction \/ Unsigned

Spec == Init /\ [][Next]_vars

-----------------------------------------------------------------------------
(* Properties *)

HeldBy(id) == book.rows[id].held
LiveRows == {id \in DOMAIN book.rows : Live(book.rows[id])}
InsuredRows == {id \in LiveRows : book.rows[id].insured}
Owed(R) == Sum([id \in R |-> book.rows[id].outstanding])
OwedBy(m) == Owed({id \in LiveRows : book.rows[id].debtor = m})
OwedTo(m) == Owed({id \in LiveRows : book.rows[id].creditor = m})
InsuredTo(m) == Owed({id \in InsuredRows : book.rows[id].creditor = m})

TypeOK ==
    /\ epoch \in 0..MaxEpoch
    /\ supply \in [Members -> Nat] /\ suspended \subseteq Members /\ signers \subseteq Members
    /\ book.next \in Nat
    /\ book.debt \in [Members -> Nat] /\ book.default \in [Members -> Nat]
    /\ book.edges \in [Arcs -> Nat] /\ book.reserved \in [Arcs -> Nat]
    /\ book.committed \in [Members -> Nat]
    /\ book.agreed \in [Members -> Nat] /\ book.charged \in [Members -> Nat]
    /\ DOMAIN book.rows \subseteq 1..book.next - 1
    /\ \A id \in DOMAIN book.rows :
          LET c == book.rows[id]
          IN /\ {c.debtor, c.creditor} \subseteq Members
             /\ c.outstanding \in 0..c.original
             /\ {c.maturity, c.created, c.accepted} \subseteq Nat
             /\ c.status \in {"Active", "Expired", "Settled", "Cured", "Transferred"}
             /\ c.insured \in BOOLEAN
             /\ c.held \in [edges : [Arcs -> Nat], supply : [Members -> Nat]]

\* A member's cached debt and open default are what the rows say.  A scale
\* recounts the debt but floors the default, which then may not come back to
\* the rows' figure.
BooksAgree ==
    \A m \in Members :
        /\ book.debt[m] = OwedBy(m)
        /\ unit.times = 0 => book.default[m] = Owed({id \in LiveRows : /\ book.rows[id].debtor = m
                                                                      /\ book.rows[id].status = "Expired"})

\* A closed row owes and holds nothing; an insured one holds exactly what it owes.
RowsAgree ==
    \A id \in DOMAIN book.rows :
        /\ book.rows[id].debtor # book.rows[id].creditor
        /\ book.rows[id].debtor \notin Underwriters(HeldBy(id))
        /\ id \notin LiveRows => book.rows[id].outstanding = 0 /\ HeldBy(id) = Nothing
        /\ id \in LiveRows => HeldAmount(HeldBy(id)) = IF book.rows[id].insured
                                                    THEN book.rows[id].outstanding ELSE 0

\* What is reserved of an arc and committed of a supply is what the live rows
\* hold of it, and no more than there is.
HoldsAgree ==
    /\ \A a \in Arcs : /\ book.reserved[a] = Sum([id \in InsuredRows |-> HeldBy(id).edges[a]])
                      /\ book.reserved[a] <= book.edges[a]
    /\ \A u \in Members : /\ book.committed[u] = Sum([id \in InsuredRows |-> HeldBy(id).supply[u]])
                         /\ book.committed[u] <= supply[u]

\* What invariants.rs audits of the book after every block, and halts on: each
\* close at dust, substitution, ring, decay, lowered supply and re-denomination
\* must move the rows, the caches and the reservations together.
Audit == TypeOK /\ BooksAgree /\ RowsAgree /\ HoldsAgree

WithinCut(T) ==
    Sum([id \in {i \in InsuredRows : book.rows[i].debtor \in T} |->
            Sum([u \in Members \ T |-> HeldBy(id).supply[u]])])
        <= Cut(book.edges, supply, T)

\* For EVERY set of members, what its debts draw from underwriters outside it
\* is at most the cut into it (invariant 1, there checked on a family of sets):
\* a claim keeps a way from its underwriters to its debtor whatever is paid,
\* divided, decayed or re-denominated around it.
CutBound == \A T \in SUBSET Members : WithinCut(T)

\* The bound on the family the audit reads after every block, and halts on
\* (invariants.rs): all insured debtors, and those who draw through each
\* underwriter.
AuditedCuts ==
    LET DebtorsOf(R) == {book.rows[i].debtor : i \in R}
        through == [u \in Members |-> {i \in InsuredRows : HeldBy(i).supply[u] > 0}]
    IN \A T \in {DebtorsOf(InsuredRows)} \cup {DebtorsOf(through[u]) : u \in Members} : WithinCut(T)

\* No claim above dust is live and Active past its date: the sweep leaves
\* MarkExpired nothing to do (apply.rs sweep_cranks).
NothingOverdue == \A id \in DOMAIN book.rows : ~Due(book.rows[id], epoch)

\* A member's position -- owed to them less owed by them -- falls only under
\* their own or their guardians' signature.  A default moves whom the creditor
\* may ask, never how much; a ring relieves each party of as much debt as
\* claim, up to the dust forgiven of the one claim it closes of theirs; an
\* award is charged to the lender its panel was agreed with.
ConsentToLoss ==
    [][unit' = unit => \A m \in Members :
          Consents(m, signers') \/
          OwedTo(m) + OwedBy(m)' <= OwedTo(m)' + OwedBy(m) + book'.charged[m] - book.charged[m]
                                        + (IF epoch' = epoch THEN 0 ELSE MaxRings * DustMinor)]_vars

\* What panels award against a member never exceeds what it agreed they might:
\* the cap and the amount of each trade, the third bound of types.rs ArbTerms.
AwardsAreAgreed == \A m \in Members : book.charged[m] <= book.agreed[m]

\* On one unit of account that bound holds, each panel awarding once, though
\* the claim be paid, moved to another debtor or split among its underwriters
\* before the window closes (apply.rs arb_award, loss.rs substitute).
PanelsAwardOnce == unit.times = 0 => AwardsAreAgreed

\* Between two epoch boundaries no creditor's insured total falls without
\* their consent: a transfer the creditor did not sign books an insured
\* successor, so what transfer measures and what reserve takes must agree.
InsuranceKept ==
    [][epoch' = epoch /\ unit' = unit => \A m \in Members : Consents(m, signers') \/ InsuredTo(m) <= InsuredTo(m)']_vars

\* A hold never moves: while the same row is owed, no underwriter and no arc
\* carries more of it than before, whatever is paid of it, split off it or
\* netted (loss.rs shrink), and a unit that moves leaves of every entry no
\* more than its floor in the new unit (state.rs rescale).
HoldsNeverMove ==
    [][\E pi \in Scales \cup {<<1, 1>>} :
          /\ unit'.num = unit.num * pi[1] /\ unit'.den = unit.den * pi[2]
          /\ \A id \in DOMAIN book.rows \cap DOMAIN book'.rows :
                Without(book'.rows[id].held, FlooredHold(HeldBy(id), pi)) = Nothing]_vars
=============================================================================
