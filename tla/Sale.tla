--------------------------------- MODULE Sale ---------------------------------
(***************************************************************************)
(* The sale composite: mutual netting, then the support cascade            *)
(* (crates/state/src/cascade.rs, crates/kernel/src/cascade.rs), over the   *)
(* listings and approvals members keep of each other (apply.rs).           *)
(*                                                                         *)
(* A reservation is any flow of the amount, so a sale has a set of         *)
(* outcomes: each step below maps what the sale has done so far to the     *)
(* set of what it may have done next.                                      *)
(***************************************************************************)
EXTENDS Ledger

CONSTANTS
    MaxDepth,         \* MAX_CASCADE_DEPTH
    NuNum, NuDen,     \* NU_DRAIN
    Listings,         \* bound: the breakdowns members list, <<member, weights>>
    Sales             \* bound: the sales offered, <<seller, buyer, amount>>

ASSUME SaleAssumption ==
    /\ MaxDepth \in Nat /\ NuNum \in Nat /\ NuDen \in Nat \ {0}
    /\ \A l \in Listings : /\ l[1] \in Members /\ DOMAIN l[2] \subseteq Members
                            /\ \A m \in DOMAIN l[2] : l[2][m] \in Nat
    /\ Sales \subseteq Members \X Members \X Nat

VARIABLES
    beneficiaries,   \* the weights each member has listed, its own share among them
    supportersOf,    \* the members that list each member
    approved,        \* approved_supporters: whose support each member has agreed to
    sold             \* history: the last step's sale, <<seller, buyer, amount>>, or none

listings == <<beneficiaries, supportersOf, approved>>
saleVars == <<vars, listings, sold>>

-----------------------------------------------------------------------------
(* Netting *)

NetCandidates(b, seller, buyer) ==
    Ascending({id \in DOMAIN b.rows : /\ Live(b.rows[id]) /\ b.rows[id].outstanding > DustMinor
                                      /\ b.rows[id].debtor = seller /\ b.rows[id].creditor = buyer})

Nettable(b, seller, buyer, x) ==
    FoldLeft(LAMBDA n, id : IF Minus(x, n) <= DustMinor THEN n
                            ELSE n + Less(b.rows[id].outstanding, Minus(x, n)),
             0, NetCandidates(b, seller, buyer))

\* net_mutual: what the seller owes the buyer extinguishes, oldest first.
NetMutual(b, seller, buyer, x) ==
    LET hop(s, id) ==
            LET left == Minus(x, s.netted)
                take == Less(left, s.book.rows[id].outstanding)
            IN IF left <= DustMinor THEN s
               ELSE [book |-> Hop(s.book, id, left),
                     netted |-> s.netted + IF take <= DustMinor THEN 0 ELSE take]
    IN FoldLeft(hop, [book |-> b, netted |-> 0], NetCandidates(b, seller, buyer))

-----------------------------------------------------------------------------
(* The cascade.  Its state: the book, what each creditor and date is owed   *)
(* by the buyer so far and holds for it, what is spent, who was drained,    *)
(* and the shares still to drain, the next one first.                       *)

Carried(s, buyer, c, take) ==
    IF buyer \in suspended THEN 0 ELSE Less(take, Capacity(Release(s.book, c.held), {buyer}))

Unheld(b, id) == {b}   \* mutant: what the seller still owes is left without a hold

\* The seller's remainder takes what is left after the successor.
Remade(b, id) ==
    LET c == b.rows[id]
    IN IF ~c.insured \/ ~Live(c) \/ c.outstanding <= DustMinor THEN {b}
       ELSE {[Reserve(b, t.held) EXCEPT !.rows[id].held = t.held, !.rows[id].insured = t.insured]
                : t \in Taken(b, c.debtor, c.outstanding)}

SaleDate(c, date) == date   \* mutant: a routed claim is due when the sale is

\* a routed claim inherits the earlier of its own date and the sale's
InheritedDate(c, date) == Less(c.maturity, date)

\* One original of clear_member_debts, within what is left of the share.
Routed(s, buyer, id, share, date) ==
    LET c == s.book.rows[id]
        due == InheritedDate(c, date)
        left == Minus(share, s.cleared)
        take == Carried(s, buyer, c, Less(c.outstanding, left))
        rest == IF c.outstanding - take <= DustMinor THEN 0 ELSE c.outstanding - take
        closed == [Release(s.book, c.held) EXCEPT
                      !.rows[id].held = Nothing, !.rows[id].outstanding = rest,
                      !.rows[id].status = IF rest = 0 THEN "Transferred" ELSE @,
                      !.debt[c.debtor] = Minus(@, c.outstanding - rest)]
        slot == IF <<c.creditor, due>> \in DOMAIN s.assumed THEN s.assumed[<<c.creditor, due>>]
                ELSE [amount |-> 0, held |-> Nothing, accepted |-> c.accepted]
        joined(h) == [amount |-> slot.amount + take, held |-> Plus(slot.held, h),
                      accepted |-> Less(slot.accepted, c.accepted)]
    IN IF left <= DustMinor \/ due > c.accepted + InsuredHorizon \/ take <= DustMinor THEN {s}
       ELSE UNION {{[s EXCEPT !.book = b, !.cleared = @ + take, !.spent = @ + take,
                              !.assumed = Added(@, <<c.creditor, due>>, joined(t.held))]
                      : b \in Remade(Reserve(closed, t.held), id)}
                   : t \in {t \in Taken(closed, buyer, take) : t.insured}}

OwnDebts(b, debtor, buyer) ==
    Ascending({id \in DOMAIN b.rows :
                  /\ b.rows[id].status = "Active" /\ b.rows[id].outstanding > DustMinor
                  /\ b.rows[id].debtor = debtor /\ b.rows[id].creditor # buyer})

\* clear_member_debts
ClearedDebts(s, debtor, buyer, share, date) ==
    FoldLeft(LAMBDA S, id : UNION {Routed(x, buyer, id, share, date) : x \in S},
             {[s EXCEPT !.cleared = 0]}, OwnDebts(s.book, debtor, buyer))

PairStake(b, l, m) == b.edges[<<l, m>>] + b.edges[<<m, l>>]

Uncapped(b, lister, m) == b.debt[m]   \* mutant: a supporter drains what the beneficiary owes

\* A lister's own share is bounded by what it owes, a beneficiary's by what
\* the pair has staked in each other.
DrainCap(b, lister, m) ==
    IF m = lister THEN b.debt[m] ELSE (PairStake(b, lister, m) * NuNum) \div NuDen

Targets(s, lister) ==
    {m \in DOMAIN beneficiaries[lister] \ s.visited :
        /\ beneficiaries[lister][m] > 0
        /\ m = lister \/ lister \in approved[m]}

\* waterfill_minor: proportional to the weights, what a full target cannot
\* take is offered to the others again.
Waterfill(cap, weight, total) ==
    LET round(w, k) ==
            LET share(i) == (w.left * weight[i]) \div Sum(Restrict(weight, w.open))
                take == [i \in w.open |-> Less(share(i), cap[i] - w.alloc[i])]
                alloc == [i \in DOMAIN cap |-> w.alloc[i] + IF i \in w.open THEN take[i] ELSE 0]
                open == {i \in w.open : alloc[i] < cap[i]}
            IN IF w.final \/ w.open = {} \/ w.left = 0 THEN w
               ELSE [alloc |-> alloc, open |-> open, left |-> w.left - Sum(take), final |-> open = w.open]
    IN FoldLeft(round, [alloc |-> [i \in DOMAIN cap |-> 0], open |-> {i \in DOMAIN cap : cap[i] > 0},
                        left |-> total, final |-> FALSE],
                [k \in 1..Cardinality(DOMAIN cap) |-> k]).alloc

\* drain_level up to its loop: the shares of one listing, lowest id first.
Level(s, lister, budget, depth) ==
    LET ms == Targets(s, lister)
        alloc == Waterfill([m \in ms |-> DrainCap(s.book, lister, m)],
                           Restrict(beneficiaries[lister], ms), budget)
        share(m) == [member |-> m, lister |-> lister, amount |-> alloc[m], depth |-> depth]
    IN IF depth > MaxDepth \/ budget <= DustMinor \/ ms = {} THEN <<>>
       ELSE [i \in 1..Cardinality(ms) |-> share(Ascending(ms)[i])]

\* One turn of that loop, and the beneficiary's own listing before the next.
DrainOne(s, buyer, date) ==
    LET t == Head(s.todo)
        rest == [s EXCEPT !.todo = Tail(@)]
        below(x) == IF t.member = t.lister THEN <<>>
                    ELSE Level(x, t.member, t.amount - x.cleared, t.depth + 1)
    IN IF s.todo = <<>> THEN {s}
       ELSE IF t.amount <= DustMinor \/ t.member \in s.visited THEN {rest}
       ELSE {[x EXCEPT !.todo = below(x) \o @]
               : x \in ClearedDebts([rest EXCEPT !.visited = @ \cup {t.member}],
                                    t.member, buyer, t.amount, date)}

Drained(s, buyer, date) ==
    FoldLeft(LAMBDA S, k : UNION {DrainOne(x, buyer, date) : x \in S}, {s},
             [k \in 1..Cardinality(Members) * Cardinality(Members) |-> k])

\* No listing: the whole sale clears the seller's own debts.
Cascaded(b, seller, buyer, budget, date) ==
    LET s == [book |-> b, assumed |-> <<>>, spent |-> 0, cleared |-> 0,
              visited |-> {buyer}, todo |-> <<>>]
    IN IF budget <= DustMinor THEN {s}
       ELSE IF DOMAIN beneficiaries[seller] = {} THEN ClearedDebts(s, seller, buyer, budget, date)
       ELSE Drained([s EXCEPT !.todo = Level(s, seller, budget, 1)], buyer, date)

-----------------------------------------------------------------------------
(* What the buyer comes to owe *)

\* the keys of what was assumed, by creditor and then by date
InOrder(A) == [i \in 1..Cardinality(DOMAIN A) |-> CHOOSE k \in DOMAIN A : Rank(A)[k] = i - 1]

\* The successors, on the reservations the cascade took for them.
Assumed(s, buyer) ==
    LET book1(b, k) ==
            LET a == s.assumed[k]
            IN IF a.amount <= DustMinor THEN Release(b, a.held)
               ELSE Opened(b, Row(buyer, k[1], a.amount, k[2], [insured |-> TRUE, held |-> a.held],
                                  epoch, a.accepted))
    IN FoldLeft(book1, s.book, InOrder(s.assumed))

BudgetKept(s, budget) == budget   \* mutant: the genesis debt is the whole of the sale

Remaining(s, budget) == budget - s.spent

Genesis(b, buyer, seller, x, date) ==
    IF x <= DustMinor THEN {b}
    ELSE {Opened(Reserve(b, t.held), Row(buyer, seller, x, date, t, epoch, epoch))
            : t \in IF date <= epoch + InsuredHorizon THEN Taken(b, buyer, x) ELSE {Uninsured}}

Sell(seller, buyer, x, term, S) ==
    LET net == NetMutual(book, seller, buyer, x)
        budget == x - net.netted
        date == epoch + term
    IN /\ seller # buyer
       /\ {seller, buyer} \subseteq S /\ buyer \notin suspended
       /\ x >= DustMinor /\ x > 0 /\ term \in MinMaturity..MaxHorizon
       /\ IF seller \in suspended
          THEN /\ x <= Nettable(book, seller, buyer, x) + DustMinor
               /\ book' = net.book
          ELSE \E s \in Cascaded(net.book, seller, buyer, budget, date) :
                  book' \in Genesis(Assumed(s, buyer), buyer, seller, Remaining(s, budget), date)
       /\ UNCHANGED <<epoch, supply, suspended, unit, listings>>

-----------------------------------------------------------------------------
(* Listings and approvals *)

ListBeneficiaries(m, weights, S) ==
    /\ m \in S \ suspended
    /\ beneficiaries' = [beneficiaries EXCEPT ![m] = weights]
    /\ supportersOf' = [n \in Members |-> (supportersOf[n] \ {m}) \cup
                            IF n # m /\ n \in DOMAIN weights THEN {m} ELSE {}]
    /\ UNCHANGED approved

\* approve_supporter
Approve(m, supporter, S) ==
    /\ m \in S
    /\ supporter \in supportersOf[m]
    /\ approved' = [approved EXCEPT ![m] = @ \cup {supporter}]
    /\ UNCHANGED <<beneficiaries, supportersOf>>

Withdraw(m, supporter, S) ==
    /\ m \in S
    /\ approved' = [approved EXCEPT ![m] = @ \ {supporter}]
    /\ UNCHANGED <<beneficiaries, supportersOf>>

-----------------------------------------------------------------------------
SaleInit ==
    /\ Init
    /\ beneficiaries = [m \in Members |-> <<>>]
    /\ supportersOf = [m \in Members |-> {}]
    /\ approved = [m \in Members |-> {}]
    /\ sold = <<>>

Listed ==
    \E S \in SignerSets :
        /\ signers' = S
        /\ UNCHANGED <<epoch, book, supply, suspended, unit>>
        /\ \/ \E l \in Listings : ListBeneficiaries(l[1], l[2], S)
           \/ \E m, n \in Members : Approve(m, n, S)
           \/ \E m \in Members : \E n \in approved[m] : Withdraw(m, n, S)   \* any other changes nothing

Sold ==
    /\ book.next <= MaxRows
    /\ \E S \in SignerSets, p \in Sales, term \in MinMaturity..MaxHorizon :
          /\ signers' = S /\ sold' = p
          /\ Sell(p[1], p[2], p[3], term, S)

SaleNext ==
    \/ Next /\ sold' = <<>> /\ UNCHANGED listings
    \/ Listed /\ sold' = <<>>
    \/ Sold

SaleSpec == SaleInit /\ [][SaleNext]_saleVars

-----------------------------------------------------------------------------
(* Properties *)

\* Every listing edge has its reverse and no other (invariants.rs): a listing
\* replaced or shortened must take the edges of the one before with it.
ListingsMatch ==
    \A m, n \in Members : m # n => (n \in DOMAIN beneficiaries[m] <=> m \in supportersOf[n])

\* Whatever a sale clears, books, re-holds and releases, the audit of the book
\* and of the listings holds after it (invariants.rs): a cascade stopped
\* between two originals would leave one of the three moved without the others.
SaleAudit == Audit /\ CutBound /\ ListingsMatch

DueTo(m, e) == Owed({id \in LiveRows : book.rows[id].creditor = m /\ book.rows[id].maturity <= e})
ClaimsOf(m) == {id \in DOMAIN book.rows : book.rows[id].creditor = m}
Slack(m) == DustMinor * Cardinality(ClaimsOf(m))   \* each closing row forgives up to the dust

DebtsOf(m) == {id \in DOMAIN book.rows : book.rows[id].debtor = m}
\* What stays with its debtor asks for a hold after what moves has taken its
\* own (Remade): such a remainder may be left with none.
Bared(m) == LET ids == {id \in ClaimsOf(m) : id \in InsuredRows /\ ~book'.rows[id].insured}
            IN Sum([id \in ids |-> book'.rows[id].outstanding])

\* A sale is signed by two members and moves the claims of others.  Of those,
\* nobody is owed less, or by a later date, and all that moves is insured as it
\* was; and nobody owes more (cascade.rs clear_member_debts).
OthersAreWhole ==
    [][\A p \in Sales : sold' = p => \A m \in Members \ {p[1], p[2]} :
          /\ \A e \in 0..MaxEpoch + MaxHorizon : DueTo(m, e) <= DueTo(m, e)' + Slack(m)
          /\ InsuredTo(m) <= InsuredTo(m)' + Bared(m) + Slack(m)
          /\ book'.debt[m] <= book.debt[m]]_saleVars

OwedBetween(d, c) == Owed({id \in LiveRows : book.rows[id].debtor = d /\ book.rows[id].creditor = c})

\* What a sale nets off the seller's debt to the buyer and what the buyer newly
\* owes come to its amount, up to the dust it drops or forgives: nothing the
\* cascade could not place is lost, and nothing is charged twice.
SaleIsExact ==
    [][\A p \in Sales : sold' = p =>
          LET paid == OwedBetween(p[1], p[2]) + book'.debt[p[2]]
              owed == OwedBetween(p[1], p[2])' + book.debt[p[2]] + p[3]
          IN paid <= owed + Slack(p[2]) /\ owed <= paid + DustMinor]_saleVars

\* A sale relieves a member other than its seller by no more than the largest
\* stake between them and a supporter they approved, up to the dust of the rows
\* it closes, whichever way round the listings it came (cascade.rs drain_level).
DrainIsCapped ==
    [][\A p \in Sales : sold' = p => \A m \in Members \ {p[1], p[2]} :
          book.debt[m] - book'.debt[m] <=
              DustMinor * Cardinality(DebtsOf(m))
                + Max({0} \cup {(PairStake(book, l, m) * NuNum) \div NuDen
                                  : l \in {l \in approved[m] : m \in DOMAIN beneficiaries[l]}})]_saleVars
=============================================================================
