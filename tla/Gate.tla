--------------------------------- MODULE Gate ---------------------------------
(***************************************************************************)
(* What every transition passes before its handler and after it: the       *)
(* replay record, the operation bond, the free allowance and the seat slot *)
(* (crates/state/src/apply.rs apply_with_cache, bond.rs), the reservation  *)
(* a new row takes on the stake graph, and the epoch boundary that returns *)
(* bonds and counts denials (state.rs begin_block).                        *)
(*                                                                         *)
(* The handlers are reduced to what the gate can see of them.  A refusal   *)
(* by a rule outside this module is left open.  A member is known by one   *)
(* key, and a fresh key becomes the member of that number.                 *)
(***************************************************************************)
EXTENDS StakeGraph

CONSTANTS
    Founders,            \* members with a row at genesis
    GenesisSupply, GenesisStakes,
    Envelopes,           \* bound: the envelopes ever signed, with the signatures
                         \* copies of each may carry
    RefusedElsewhere,    \* bound: the ids a rule outside this module may refuse
    MaySuspend,          \* members governance may suspend
    Trade,               \* the amount of a trade
    Unit,                \* bond_unit_minor, also the price of a seat
    Allowance,           \* bond_free_allowance
    EstablishedFloor,    \* v_base * ESTABLISHED_FRACTION
    Dust,
    ReleaseEpochs, ForfeitEpochs, Lifetime,
    DecayNum, DecayDen,
    MaxAdvance,          \* MAX_EPOCH_ADVANCE_PER_BLOCK
    MaxEpoch             \* bound

Kinds == {"Accept", "Settle", "Lower", "Register", "Propose", "Exit", "Forfeit"}

ASSUME GateAssumption ==
    /\ Founders \subseteq Members /\ MaySuspend \subseteq Members
    /\ GenesisSupply \in [Members -> Nat] /\ GenesisStakes \in [Arcs -> Nat]
    /\ Envelopes \subseteq [id : Nat, kind : Kinds, of : Members, to : Members,
                            level : Nat, notAfter : Nat, copies : SUBSET SUBSET Members]
    /\ \A e, f \in Envelopes : e.id = f.id => e = f
    /\ {Trade, Unit, Allowance, EstablishedFloor, Dust, ReleaseEpochs, ForfeitEpochs} \subseteq Nat
    /\ {Lifetime, MaxAdvance, MaxEpoch} \subseteq Nat
    /\ Unit > 0   \* unit_survives refuses every change of the parameters that would round it away
    /\ DecayNum \in Nat /\ DecayDen \in Nat \ {0} /\ DecayNum <= DecayDen

Ids == {e.id : e \in Envelopes}

VARIABLES
    epoch,
    acct,       \* the rows: their status, debts and charges
    graph,      \* stakes, supplies and what the seats hold of them
    forfeited,  \* forfeit_reserve
    applied,    \* applied_by_expiry: the ids recorded
    memo,       \* GateCache: the key it was filled under, and its reaches
    took,       \* history: how often each id took effect
    burnt,      \* history: the ids refused by a handler against a charge
    denials     \* history: the epochs in which each member was refused for headroom

vars == <<epoch, acct, graph, forfeited, applied, memo, took, burnt, denials>>

NoSeat == [sponsor |-> 0, held |-> NoHold]

NoRow == [status |-> "None", debt |-> 0, dflt |-> 0, used |-> 0, bonds |-> <<>>,
          denied |-> FALSE, saturated |-> 0, slot |-> FALSE, seat |-> NoSeat]

Rows(a) == {m \in Members : a[m].status \notin {"None", "Retired"}}
IsActive(a, m) == a[m].status = "Active"
Enc(a, m) == Sum(a[m].bonds)   \* bond_enc

-----------------------------------------------------------------------------
(* What a member's reach carries *)

\* seed_reach_minor: on the stakes as they are, no reservation taken off
Reach(g, m) == Cut(g.edges, g.supply, {m}) + g.supply[m]

Key == <<epoch, graph.supply>>

KeyOfEpoch == <<epoch>>   \* mutant: a lowered supply does not rekey

CacheKey == Key

\* rekey: what the cache still knows
Known == IF memo.key = CacheKey THEN memo.reach ELSE <<>>

Cold == <<>>

Bound(k, m) == IF m \in DOMAIN k THEN k[m] ELSE Reach(graph, m)

\* established_cached, and established when nothing is known
Established(a, k, m) ==
    IsActive(a, m) /\ (Bound(k, m) >= EstablishedFloor \/ Reach(graph, m) >= EstablishedFloor)

FreeRemaining(a, k, m) ==
    IF ~Established(a, k, m) \/ a[m].dflt > Dust THEN 0 ELSE Minus(Allowance, a[m].used)

\* bond_headroom_minor on a reach
Headroom(a, m, reach) ==
    IF ~IsActive(a, m) THEN 0
    ELSE Minus(Minus(Minus(reach, a[m].debt), Enc(a, m)), forfeited[m])

Covers(a, k, m, bond) ==
    \/ Headroom(a, m, Bound(k, m)) >= bond
    \/ Headroom(a, m, Reach(graph, m)) >= bond

-----------------------------------------------------------------------------
(* Seats *)

SeatFree(g) == [a \in Arcs |-> Minus(g.edges[a], g.reserved[a])]
SeatSupply(g) == [u \in Members |-> Minus(g.supply[u], g.committed[u])]

\* reserve_seat: one unit of the sponsor's reach, its own supply included
SeatHolds(g, sponsor) ==
    Flows({p \in Paths : Last(p) = sponsor} \cup {<<sponsor>>}, SeatFree(g), SeatSupply(g), Unit)

SeatTaken(g, h) == [g EXCEPT !.reserved = [a \in Arcs |-> @[a] + HeldOn(h, a)],
                             !.committed = [u \in Members |-> @[u] + Drawn(h, u)]]

SeatGiven(g, h) == [g EXCEPT !.reserved = [a \in Arcs |-> Minus(@[a], HeldOn(h, a))],
                             !.committed = [u \in Members |-> Minus(@[u], Drawn(h, u))]]

SeatsTaken(g, run) == FoldLeft(SeatTaken, g, run)

\* The reservations of n seats, one taken after another.
SeatRuns(sponsor, n) ==
    LET longer(R) == {Append(r, h) : r \in R, h \in UNION {SeatHolds(SeatsTaken(graph, q), sponsor) : q \in R}}
        follows(r) == Last(r) \in SeatHolds(SeatsTaken(graph, Front(r)), sponsor)
    IN FoldLeft(LAMBDA R, i : {r \in longer(R) : follows(r)}, {<<>>}, [i \in 1..n |-> i])

CanSeat(sponsor, n) == SeatRuns(sponsor, n) # {}

-----------------------------------------------------------------------------
(* What a transition is billed *)

Multiple(tx) ==
    CASE tx.kind = "Lower" -> IF tx.level < graph.supply[tx.of] THEN 0 ELSE 1
      [] tx.kind \in {"Accept", "Register"} -> 1
      [] tx.kind = "Propose" -> 2
      [] OTHER -> 0

Permissionless(tx) == tx.kind = "Forfeit"

SelfAct(tx) == tx.kind \in {"Register", "Propose", "Exit", "Lower"}

\* fresh_keys
Fresh(a, tx) == IF tx.kind = "Accept" THEN {tx.of, tx.to} \ Rows(a) ELSE {}

\* bound: the key of a retired row opens no second one
Named(a, tx) == tx.kind = "Accept" => \A m \in {tx.of, tx.to} : a[m].status # "Retired"

Payers(a, S) == S \cap Rows(a)

Bill(what, payer, amount) == [what |-> what, payer |-> payer, amount |-> amount]
Free == Bill("Free", 0, 0)
Unpayable == Bill("Unpayable", 0, 0)

OwnSlot(a, k, tx, S) ==
    /\ SelfAct(tx) /\ tx.of \in Payers(a, S)
    /\ a[tx.of].slot /\ IsActive(a, tx.of)
    /\ FreeRemaining(a, k, tx.of) = 0

FirstOr(ok, S) == IF ok = {} THEN Min(S) ELSE Min(ok)

\* due_with_cache, k what the cache knows
Due(k, tx, S) ==
    LET ps == Payers(acct, S)
        bond == Multiple(tx) * Unit
        n == Cardinality(Fresh(acct, tx))
        free == {m \in ps : FreeRemaining(acct, k, m) > 0}
        able == {m \in ps : Covers(acct, k, m, bond)}
    IN CASE Multiple(tx) = 0 -> Free
         [] Multiple(tx) > 0 /\ ps = {} -> Unpayable
         [] Multiple(tx) > 0 /\ ps # {} /\ n > 0 ->
               Bill("Seat", FirstOr({m \in able : IsActive(acct, m) /\ CanSeat(m, n)}, ps), bond)
         [] Multiple(tx) > 0 /\ ps # {} /\ n = 0 ->
               IF OwnSlot(acct, k, tx, S) THEN Bill("Slot", tx.of, 0)
               ELSE IF free # {} THEN Bill("Allowance", Min(free), 0)
               ELSE Bill("Bond", FirstOr(able, ps), bond)

Bonded(d) == d.what \in {"Bond", "Seat"}

Short(d) == Bonded(d) /\ d.amount > Headroom(acct, d.payer, Reach(graph, d.payer))

\* bond_gate: the refusals of the bill
Refuses(d, tx) ==
    \/ d = Unpayable
    \/ Bonded(d) /\ ~IsActive(acct, d.payer)
    \/ Short(d)
    \/ d.what = "Seat" /\ ~CanSeat(d.payer, Cardinality(Fresh(acct, tx)))

\* admits_with_cache: the screen of the ingress and of the proposer
Admits(k, tx, S) ==
    LET d == Due(k, tx, S)
    IN /\ d # Unpayable
       /\ Bonded(d) => Covers(acct, k, d.payer, d.amount)
       /\ d.what = "Seat" => IsActive(acct, d.payer) /\ CanSeat(d.payer, Cardinality(Fresh(acct, tx)))

ReleaseAt == epoch + More(ReleaseEpochs, 1)

HeldAt(b, at) == IF at \in DOMAIN b THEN b[at] ELSE 0

Added(b, at, x) == [k \in DOMAIN b \cup {at} |-> HeldAt(b, k) + IF k = at THEN x ELSE 0]

Removed(b, at, x) == Positive([b EXCEPT ![at] = Minus(@, x)])

Charge(a, d) ==
    CASE d.what = "Allowance" -> [a EXCEPT ![d.payer].used = @ + 1]
      [] d.what = "Slot" -> [a EXCEPT ![d.payer].slot = FALSE]
      [] Bonded(d) -> [a EXCEPT ![d.payer].bonds = Added(@, ReleaseAt, d.amount)]
      [] OTHER -> a

RefundBondOnly(a, d) ==   \* mutant: the allowance stays spent
    IF Bonded(d)
    THEN [a EXCEPT ![d.payer].bonds = Removed(@, ReleaseAt, d.amount)]
    ELSE a

Refund(a, d) ==
    CASE d.what = "Allowance" -> [a EXCEPT ![d.payer].used = Minus(@, 1)]
      [] d.what = "Slot" -> [a EXCEPT ![d.payer].slot = TRUE]
      [] Bonded(d) -> [a EXCEPT ![d.payer].bonds = Removed(@, ReleaseAt, d.amount)]
      [] OTHER -> a

\* price_refusal: who pays for a refused free class, Free when nobody can
RefusalBill(a, tx, S) ==
    LET free == {m \in Payers(a, S) : FreeRemaining(a, Cold, m) > 0}
    IN CASE Permissionless(tx) -> Free
         [] ~Permissionless(tx) /\ OwnSlot(a, Cold, tx, S) -> Bill("Slot", tx.of, 0)
         [] OTHER -> IF free = {} THEN Free ELSE Bill("Allowance", Min(free), 0)

-----------------------------------------------------------------------------
(* The handlers, as far as the gate can tell *)

\* authorises
Authorised(tx, S) ==
    CASE Permissionless(tx) -> TRUE
      [] tx.kind \in {"Accept", "Settle"} -> {tx.of, tx.to} \subseteq S
      [] OTHER -> tx.of \in S \/ tx.of \notin Rows(acct)

Saturated(a, m) == a[m].saturated >= ForfeitEpochs

SanctionedOnRequest(a) == {}   \* mutant: the boundary leaves the crank to whoever asks

\* sweep_cranks: whose bonds the epoch forfeits
Sanctioned(a) == {m \in Members : Saturated(a, m) /\ Enc(a, m) > Dust}

\* forfeit_bonds, for the members of M
Forfeiting(a, M) ==
    [m \in Members |-> IF m \in M THEN [a[m] EXCEPT !.bonds = <<>>, !.saturated = 0, !.denied = FALSE]
                                   ELSE a[m]]

Reserve(a, M) == [m \in Members |-> forfeited[m] + IF m \in M THEN Enc(a, m) ELSE 0]

CanTake(a, tx) ==
    CASE tx.kind = "Accept" -> \A m \in {tx.of, tx.to} : m \in Rows(a) => IsActive(a, m)
      [] tx.kind = "Settle" -> a[tx.of].debt >= a[tx.of].dflt + Trade
      [] tx.kind = "Lower" -> /\ tx.of \in Rows(a) /\ a[tx.of].status # "Exited"
                              /\ tx.level <= graph.supply[tx.of]
      [] tx.kind = "Exit" -> /\ a[tx.of].status \in {"Active", "Suspended"}
                             /\ a[tx.of].debt <= Dust /\ a[tx.of].dflt <= Dust
                             /\ Enc(a, tx.of) <= Dust /\ graph.supply[tx.of] = 0
      [] tx.kind = "Forfeit" -> tx.of \in Sanctioned(a)
      [] OTHER -> IsActive(a, tx.of)

\* rules this module does not hold may refuse any handler but the crank's
Elsewhere(tx) == tx.id \in RefusedElsewhere /\ ~Permissionless(tx)

\* accept: seat_pair for the fresh keys, then the debt
Seated(a, tx, d, run) ==
    LET fresh == Fresh(a, tx)
        nth(m) == IF m = Min(fresh) THEN 1 ELSE 2
        row(m) == [NoRow EXCEPT !.status = "Active", !.slot = TRUE,
                                !.seat = [sponsor |-> d.payer, held |-> run[nth(m)]]]
        seated == [m \in Members |-> IF m \in fresh THEN row(m) ELSE a[m]]
    IN [seated EXCEPT ![tx.of].debt = @ + Trade]

\* discharge_credit
Stake(g, debtor, creditor) ==
    LET conferrable == IF g.supply[creditor] > 0 THEN g.supply[creditor]
                       ELSE Cut(g.edges, g.supply, {creditor})
    IN [g EXCEPT !.edges[<<creditor, debtor>>] = More(@, Less(Trade, conferrable))]

Effect(a, tx, d) ==
    \/ /\ tx.kind = "Accept"
       /\ \E run \in SeatRuns(d.payer, Cardinality(Fresh(a, tx))) :
             /\ acct' = Seated(a, tx, d, run)
             /\ graph' = SeatsTaken(graph, run)
       /\ UNCHANGED forfeited
    \/ /\ tx.kind = "Settle"
       /\ acct' = [a EXCEPT ![tx.of].debt = @ - Trade]
       /\ graph' = Stake(graph, tx.of, tx.to)
       /\ UNCHANGED forfeited
    \/ /\ tx.kind = "Lower"
       /\ graph' = [graph EXCEPT !.supply[tx.of] = tx.level]
       /\ acct' = a
       /\ UNCHANGED forfeited
    \/ /\ tx.kind = "Exit"
       /\ acct' = [a EXCEPT ![tx.of].status = "Exited"]
       /\ UNCHANGED <<graph, forfeited>>
    \/ /\ tx.kind = "Forfeit"
       /\ acct' = Forfeiting(a, {tx.of})
       /\ forfeited' = Reserve(a, {tx.of})
       /\ UNCHANGED graph
    \/ /\ tx.kind \in {"Register", "Propose"}
       /\ acct' = a
       /\ UNCHANGED <<graph, forfeited>>

-----------------------------------------------------------------------------
(* Applying an envelope *)

\* The payers a bill looked up, in order of their ids until one would do.
LookedUp(d, S) ==
    CASE d.what = "Slot" -> {d.payer}
      [] d.what \in {"Allowance", "Seat"} -> {m \in Payers(acct, S) : m <= d.payer}
      [] OTHER -> Payers(acct, S)

\* A bound that answers is kept, any other is read anew.
Answers(m) ==
    m \in DOMAIN Known /\ Known[m] >= EstablishedFloor /\ Headroom(acct, m, Known[m]) >= Unit

Remember(tx, S) ==
    LET read == {m \in LookedUp(Due(Known, tx, S), S) : ~Answers(m)}
    IN memo' = IF Multiple(tx) = 0 THEN memo
               ELSE [key |-> CacheKey,
                     reach |-> [m \in read \cup DOMAIN Known |-> IF m \in read THEN Reach(graph, m) ELSE Known[m]]]

InWindow(tx) == tx.notAfter \in epoch..epoch + Lifetime

Fits(tx) == InWindow(tx) /\ tx.id \notin applied

Refused(tx, S, d) ==
    /\ Refuses(d, tx)
    /\ acct' = IF Short(d) /\ IsActive(acct, d.payer) THEN [acct EXCEPT ![d.payer].denied = TRUE] ELSE acct
    /\ denials' = IF Short(d) /\ IsActive(acct, d.payer)
                  THEN [denials EXCEPT ![d.payer] = @ \cup {epoch}] ELSE denials
    /\ UNCHANGED <<graph, forfeited, applied, took, burnt>>

\* ET_MEM_NOT_SIGNER: the id is forgotten and the charge returned
Unauthorised(tx, S, d) ==
    /\ ~Authorised(tx, S)
    /\ acct' = Refund(Charge(acct, d), d)
    /\ UNCHANGED <<graph, forfeited, applied, took, burnt, denials>>

\* the ids a refusal leaves behind
Kept(tx, bill) == IF bill = Free THEN {} ELSE {tx.id}

Rejected(tx, S, d) ==
    LET a == Charge(acct, d)
        bill == IF d = Free THEN RefusalBill(a, tx, S) ELSE d
    IN /\ Authorised(tx, S)
       /\ ~CanTake(a, tx) \/ Elsewhere(tx)
       /\ acct' = IF d = Free THEN Charge(a, bill) ELSE a
       /\ applied' = applied \cup Kept(tx, bill)
       /\ burnt' = burnt \cup Kept(tx, bill)
       /\ UNCHANGED <<graph, forfeited, took, denials>>

Taken(tx, S, d) ==
    LET a == Charge(acct, d)
    IN /\ Authorised(tx, S)
       /\ CanTake(a, tx)
       /\ Effect(a, tx, d)
       /\ applied' = applied \cup {tx.id}
       /\ took' = [took EXCEPT ![tx.id] = @ + 1]
       /\ UNCHANGED <<burnt, denials>>

Apply(tx, S) ==
    LET d == Due(Known, tx, S)
    IN /\ Fits(tx) /\ Named(acct, tx)
       /\ \/ Refused(tx, S, d)
          \/ ~Refuses(d, tx) /\ (Unauthorised(tx, S, d) \/ Rejected(tx, S, d) \/ Taken(tx, S, d))
       /\ Remember(tx, S)
       /\ UNCHANGED epoch

\* The ingress and the proposer ask the same cache and apply nothing.
Screen(tx, S) ==
    /\ Multiple(tx) > 0 /\ Named(acct, tx)
    /\ Remember(tx, S)
    /\ UNCHANGED <<epoch, acct, graph, forfeited, applied, took, burnt, denials>>

\* A restarted node starts with no cache.
Restart ==
    /\ memo' = [key |-> <<>>, reach |-> Cold]
    /\ UNCHANGED <<epoch, acct, graph, forfeited, applied, took, burnt, denials>>

SetStatus(m) ==
    /\ acct[m].status \in {"Active", "Suspended"}
    /\ acct' = [acct EXCEPT ![m].status = IF @ = "Active" THEN "Suspended" ELSE "Active"]
    /\ UNCHANGED <<epoch, graph, forfeited, applied, memo, took, burnt, denials>>

-----------------------------------------------------------------------------
(* The epoch boundary *)

CrossedKeepingCount(a) ==   \* mutant: an epoch without a denial does not reset
    [m \in Members |-> [a[m] EXCEPT !.saturated = IF a[m].denied THEN @ + 1 ELSE @,
                                    !.denied = FALSE, !.used = 0]]

Crossed(a) ==
    [m \in Members |-> [a[m] EXCEPT !.saturated = IF a[m].denied THEN @ + 1 ELSE 0,
                                    !.denied = FALSE, !.used = 0]]

Times(op(_), x, n) == FoldLeft(LAMBDA y, i : op(y), x, [i \in 1..n |-> i])

Faded(g) == [g EXCEPT !.edges = Decayed(@, [a \in Arcs |-> 0], DecayNum, DecayDen)]

ReleasedLate(a, e) ==   \* mutant: a bond is kept one epoch too long
    [m \in Members |-> [a[m] EXCEPT !.bonds = Restrict(@, {k \in DOMAIN @ : k >= e})]]

\* release_bonds
Released(a, e) ==
    [m \in Members |-> [a[m] EXCEPT !.bonds = Restrict(@, {k \in DOMAIN @ : k > e})]]

PrunedEarly(e) == {i \in applied : \E tx \in Envelopes : tx.id = i /\ tx.notAfter > e}   \* mutant

\* prune_expired_applied_ids
Pruned(e) == {i \in applied : \E tx \in Envelopes : tx.id = i /\ tx.notAfter >= e}

\* sweep_cranks, mark_expired: the claims past their date become defaults
Overdue(a, late) == [m \in Members |-> IF m \in late THEN [a[m] EXCEPT !.dflt = a[m].debt] ELSE a[m]]

EmptySponsored(a, f) ==   \* mutant: a row may retire while it sponsors a seat
    {m \in Rows(a) : /\ a[m].status \in {"Active", "Exited"}
                     /\ a[m].debt = 0 /\ a[m].dflt = 0 /\ Enc(a, m) = 0
                     /\ f[m] = 0 /\ graph.supply[m] = 0}

\* retire_empty_rows: the rows nothing here names, f what they forfeited; what
\* else names one is open
Empty(a, f) ==
    {m \in Rows(a) : /\ a[m].status \in {"Active", "Exited"}
                     /\ a[m].debt = 0 /\ a[m].dflt = 0 /\ Enc(a, m) = 0
                     /\ f[m] = 0 /\ graph.supply[m] = 0
                     /\ \A n \in Rows(a) : a[n].seat.sponsor # m}

Retired(a, R) == [m \in Members |-> IF m \in R THEN [NoRow EXCEPT !.status = "Retired"] ELSE a[m]]

\* what the retired rows' seats held is free again
Vacated(g, a, R) == FoldLeft(LAMBDA h, m : SeatGiven(h, a[m].seat.held), g, SetToSeq(R))

\* The cranks run once, before a bond is handed back and before a row retires.
BeginBlock(n) ==
    LET e == epoch + n
        a == Times(Crossed, acct, n)
        swept(late) == Forfeiting(Overdue(a, late), Sanctioned(a))
    IN /\ e <= MaxEpoch
       /\ epoch' = e
       /\ applied' = Pruned(e)
       /\ forfeited' = Reserve(a, Sanctioned(a))
       /\ \E late \in SUBSET {m \in Rows(a) : a[m].debt > a[m].dflt} :
             \E R \in SUBSET Empty(swept(late), Reserve(a, Sanctioned(a))) :
                /\ acct' = Released(Retired(swept(late), R), e)
                /\ graph' = Vacated(Times(Faded, graph, n), a, R)
       /\ UNCHANGED <<memo, took, burnt, denials>>

-----------------------------------------------------------------------------
Init ==
    /\ epoch = 0
    /\ acct = [m \in Members |-> IF m \in Founders THEN [NoRow EXCEPT !.status = "Active"] ELSE NoRow]
    /\ graph = [edges |-> GenesisStakes, supply |-> GenesisSupply,
                reserved |-> [a \in Arcs |-> 0], committed |-> [m \in Members |-> 0]]
    /\ forfeited = [m \in Members |-> 0]
    /\ applied = {} /\ burnt = {}
    /\ memo = [key |-> <<>>, reach |-> Cold]
    /\ took = [i \in Ids |-> 0]
    /\ denials = [m \in Members |-> {}]

Next ==
    \/ \E tx \in Envelopes : \E S \in tx.copies : Apply(tx, S) \/ Screen(tx, S)
    \/ \E n \in 1..MaxAdvance : BeginBlock(n)
    \/ \E m \in MaySuspend : SetStatus(m)
    \/ Restart

Spec == Init /\ [][Next]_vars
-----------------------------------------------------------------------------
(* Properties *)

TypeOK ==
    /\ epoch \in 0..MaxEpoch
    /\ \A m \in Members :
          /\ acct[m].status \in {"None", "Active", "Suspended", "Exited", "Retired"}
          /\ {acct[m].debt, acct[m].dflt, acct[m].used, acct[m].saturated} \subseteq Nat
          /\ DOMAIN acct[m].bonds \subseteq Nat /\ Range(acct[m].bonds) \subseteq Nat \ {0}
          /\ acct[m].denied \in BOOLEAN /\ acct[m].slot \in BOOLEAN
          /\ acct[m].seat.sponsor \in Members \cup {0}
    /\ graph.edges \in [Arcs -> Nat] /\ graph.reserved \in [Arcs -> Nat]
    /\ graph.supply \in [Members -> Nat] /\ graph.committed \in [Members -> Nat]
    /\ forfeited \in [Members -> Nat]
    /\ applied \subseteq Ids /\ burnt \subseteq Ids /\ took \in [Ids -> Nat]

\* Copies of one envelope, with any signatures, in any order, across epochs and
\* across the pruning of the record: it takes effect at most once, and never
\* after a handler refused it and somebody was charged for the refusal
\* (apply_with_cache, the deferred-replay policy).
OnceAndNotLater == \A i \in Ids : took[i] <= IF i \in burnt THEN 0 ELSE 1

\* A bond in hand returns within ReleaseEpochs, and nothing past its date is
\* still held, after an advance of several epochs too.
BondsAreDated ==
    \A m \in Members : DOMAIN acct'[m].bonds \subseteq epoch' + 1..epoch' + More(ReleaseEpochs, 1)

\* What leaves a member's bonds is all of it forfeited, or was due and belonged
\* to a member the crank had nothing against.
GivenBack(m) ==
    /\ forfeited'[m] = forfeited[m]
    /\ \A k \in DOMAIN acct[m].bonds : k > epoch' => HeldAt(acct'[m].bonds, k) = acct[m].bonds[k]
    /\ Saturated(acct', m) => Enc(acct, m) <= Dust

AllForfeited(m) == forfeited'[m] = forfeited[m] + Enc(acct, m) /\ DOMAIN acct'[m].bonds = {}

Returning(m) ==
    Enc(acct', m) < Enc(acct, m) \/ forfeited'[m] # forfeited[m] => GivenBack(m) \/ AllForfeited(m)

\* Every bond is on its way back, and the way of a saturated member's is the
\* forfeit reserve even on the day it is due (begin_block: sweep_cranks first,
\* then release_bonds).
BondsReturn == [][BondsAreDated /\ \A m \in Rows(acct) : Returning(m)]_vars

\* The count the forfeiture crank reads is of epochs in a row, each with a real
\* denial, up to the one that closed last.
CountIsEarned ==
    \A m \in Rows(acct) : \A k \in 1..acct[m].saturated : k <= epoch /\ epoch - k \in denials[m]

\* Nobody forfeits who was not denied in that many epochs in a row.
SanctionIsEarned ==
    \A m \in Members : forfeited[m] > 0 =>
        \E e \in 0..epoch : \A k \in 1..ForfeitEpochs : k <= e /\ e - k \in denials[m]

\* The count and the sanction it leads to are both earned: over one block that
\* closes several epochs, over a boundary's own crank and over a crank anybody
\* sends (begin_block, forfeit_bonds).
SaturationIsEarned == CountIsEarned /\ SanctionIsEarned

\* No bill depends on what this node's cache happens to hold: a node that just
\* restarted and one that has screened all day charge the same member the same
\* way (bond.rs: "answer equals due's on every state"), and the screen of the
\* mempool and the proposer admits exactly what the gate lets through.
CacheNeverDecides ==
    \A tx \in Envelopes : \A S \in tx.copies :
        Named(acct, tx) =>
            /\ Due(Known, tx, S) = Due(Cold, tx, S)
            /\ Admits(Known, tx, S) <=> ~Refuses(Due(Cold, tx, S), tx)

\* What the seats hold of the graph is what the seated rows say they hold, each
\* for a sponsor that still has a row (invariant 7).
SeatHoldsAgree ==
    LET seated == {m \in Rows(acct) : acct[m].seat # NoSeat}
    IN /\ \A a \in Arcs : graph.reserved[a] = Sum([m \in seated |-> HeldOn(acct[m].seat.held, a)])
       /\ \A u \in Members : graph.committed[u] = Sum([m \in seated |-> Drawn(acct[m].seat.held, u)])
       /\ \A m \in seated : acct[m].seat.sponsor \in Rows(acct)

GateAudit == TypeOK /\ SeatHoldsAgree

\* A refusal that leaves an id behind was paid for: a member's allowance, its
\* slot or its headroom is down by that step (price_refusal).
NoFreeWrites ==
    applied' \ applied # {} /\ took' = took =>
        \E m \in Members : \/ acct'[m].used > acct[m].used
                           \/ acct[m].slot /\ ~acct'[m].slot
                           \/ Enc(acct', m) > Enc(acct, m)

\* A copy without the signatures it needs costs nobody anything: the complete
\* one can still be applied, against the same budgets (refund, forget_applied).
UnsignedCostsNothing ==
    \A tx \in Envelopes : \A S \in tx.copies :
        ~Authorised(tx, S) => (Apply(tx, S) =>
           /\ UNCHANGED <<applied, graph, forfeited>>
           /\ \A m \in Members : [acct'[m] EXCEPT !.denied = acct[m].denied] = acct[m])

\* Whether a refusal burns its id and what it costs go together.
RefusalsArePriced == [][NoFreeWrites /\ UnsignedCostsNothing]_vars
=============================================================================
