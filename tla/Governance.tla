------------------------------ MODULE Governance ------------------------------
(***************************************************************************)
(* Proposals and what they enact: parameters, the denomination, sanctions, *)
(* the validator set, and the external seed that the votes are a share of  *)
(* (crates/state/src/apply.rs propose and assent, seed.rs).                *)
(*                                                                         *)
(* Signatures are Identity's, and what a re-denomination does to the book  *)
(* is Ledger's.  Whether credit still stands on a supply, or a member owes *)
(* something, is left open: a supply may be lowered and a member leave at  *)
(* any time.  Of the bond gate a proposal passes (Gate) only this is kept: *)
(* what is charged is charged to an active member with reach.  No rule     *)
(* reads a proposal once it is enacted, so it leaves    *)
(* the record here.  A text is open once at a time: a member who already   *)
(* assented to a reinstatement may ask again, and the newer copy stands.   *)
(***************************************************************************)
EXTENDS Naturals, FiniteSets, FiniteSetsExt, Functions

CONSTANTS
    Members,
    Backing,            \* whose supplies a member without one stands on
    GenesisSupply, GenesisValidators, MinValidators,
    Agenda,             \* bound: the texts ever proposed
    MayLower, MayRekey, \* bound: who lowers a supply, or moves a consensus key
    MaxProposals,       \* bound: proposals other than reinstatements
    ThetaNum, ThetaDen,                   \* theta_adopt
    ValidatorThetaNum, ValidatorThetaDen, \* theta_adopt_validator
    GenesisRate, RateDen,                 \* SeedRate
    GenesisBond, BondDen, GenesisBase,    \* BondFraction, v_base
    ScaleNum, ScaleDen, Cooldown, ProposalRetention, Dust,
    MaxEpoch            \* bound

Keys == {"SeedRate", "BondFraction"}

\* of: whom it names (an amendment names its author); value: the new value, the
\* power or the amount
Texts == [kind : Keys \cup {"Redenominate", "Suspend", "Unsuspend", "Power", "Amend"},
          author : Members, of : Members, value : Nat]

ASSUME GovernanceAssumption ==
    /\ IsFiniteSet(Members) /\ MayLower \cup MayRekey \subseteq Members
    /\ Backing \in [Members -> SUBSET Members]
    /\ GenesisSupply \in [Members -> Nat] /\ GenesisValidators \subseteq Members
    /\ Agenda \subseteq Texts
    /\ \A p \in Agenda : p.kind = "Amend" => p.of = p.author /\ p.value > 0
    /\ IsFiniteSet(Agenda)
    /\ {MinValidators, ThetaNum, ValidatorThetaNum, GenesisRate, GenesisBond, GenesisBase} \subseteq Nat
    /\ {ThetaDen, ValidatorThetaDen, RateDen, BondDen, ScaleNum, ScaleDen} \subseteq Nat \ {0}
    /\ {Cooldown, ProposalRetention, Dust, MaxEpoch, MaxProposals} \subseteq Nat

VARIABLES
    epoch, status, supply, validators,
    keyed,      \* who has a consensus key
    open, since, assents,   \* proposals, opened_epoch, assents
    proposed,   \* next_proposal, reinstatements not counted
    rate, bond, base,       \* seed_rate, bond_fraction, v_base
    cool,       \* the epoch from which a parameter, or the unit, may move again
    amended,    \* seed_amended_this_epoch
    year        \* history of the epoch: the seed it opened on, the highest rate
                \* in force, what was admitted, whether the unit changed

order == <<status, validators>>
params == <<rate, bond, base, cool>>
book == <<open, since, assents, proposed>>
seed == <<supply, amended, year>>
vars == <<epoch, order, keyed, book, params, seed>>

External == SumFunction(supply)   \* external_minor

-----------------------------------------------------------------------------
(* Who carries what *)

Mass(V) == SumFunctionOnSet(supply, V)

\* adoption_threshold: the state decides whether a sanction touches the order
BarOfTheKind(p) == IF p.kind = "Power" THEN <<ValidatorThetaNum, ValidatorThetaDen>>
                   ELSE <<ThetaNum, ThetaDen>>   \* mutant
Bar(p) ==
    IF p.kind = "Power" \/ (p.kind \in {"Suspend", "Unsuspend"} /\ p.of \in validators)
    THEN <<ValidatorThetaNum, ValidatorThetaDen>>
    ELSE <<ThetaNum, ThetaDen>>

\* governance_mass against adoption_threshold: no seed, no denominator
Carries(V, p) == External > 0 /\ Mass(V) * Bar(p)[2] >= External * Bar(p)[1]

ActiveOnly(m, p) == status[m] = "Active"   \* mutant
MayGovern(m, p) ==
    \/ status[m] = "Active"
    \/ status[m] = "Suspended" /\ p.kind = "Unsuspend"

Stands(m) == \E u \in Backing[m] : supply[u] > Dust

Conferrable(m) == supply[m] > Dust \/ (supply[m] = 0 /\ Stands(m))

\* due_with_cache: a status that is not Active has no allowance, slot or headroom
MayPay(m) == status[m] = "Active" /\ (supply[m] > Dust \/ Stands(m))

SomebodyPays == \E m \in Members : MayPay(m)

\* unit_survives: the bond unit in minor units
UnitOf(b, v) == (b * v) \div BondDen
Scaled(x) == (x * ScaleNum) \div ScaleDen
Survives(p) ==
    /\ p.kind = "BondFraction" => UnitOf(p.value, base) >= 1
    /\ p.kind = "Redenominate" => UnitOf(bond, Scaled(base)) >= 1

-----------------------------------------------------------------------------
(* The rate at which the seed may grow *)

RateBase == IF External > amended THEN External - amended ELSE 0
Ceiling == (RateBase * rate) \div RateDen
RemainingOfNow == Ceiling   \* mutant: what the epoch already admitted is forgotten
Remaining == IF Ceiling > amended THEN Ceiling - amended ELSE 0

\* seed::check
Admissible(p) == status[p.author] = "Active" /\ p.value <= Remaining

-----------------------------------------------------------------------------
(* Proposing *)

Propose(p) ==
    /\ IF p.kind = "Unsuspend" THEN p \in open => p.author \in assents[p]
       ELSE p \notin open /\ proposed < MaxProposals
    /\ MayGovern(p.author, p)
    /\ status[p.author] = "Active" \/ SomebodyPays   \* bond_gate
    /\ p.kind # "Amend" => Conferrable(p.author)
    /\ Survives(p)
    /\ p.kind = "Power" /\ p.value > 0 => status[p.of] = "Active" /\ p.of \in keyed
    /\ open' = open \cup {p}
    /\ since' = [since EXCEPT ![p] = epoch]
    /\ assents' = [assents EXCEPT ![p] = {}]
    /\ proposed' = IF p.kind = "Unsuspend" THEN proposed ELSE proposed + 1
    /\ UNCHANGED <<epoch, order, keyed, params, seed>>

-----------------------------------------------------------------------------
(* Assenting: the refusals before the vote is written, and those after it *)

SurvivedWhenProposed(p) == TRUE   \* mutant of the check at enactment
StillSurvives(p) == Survives(p)

MayAssent(m, p) ==
    /\ p \in open /\ MayGovern(m, p)
    /\ m \notin assents[p] /\ supply[m] > 0
    /\ p.kind = "Amend" => m # p.author
    /\ Carries(assents[p] \cup {m}, p) =>
          /\ p.kind \in Keys \cup {"Redenominate"} => epoch >= cool[p.kind]
          /\ StillSurvives(p)
          /\ p.kind = "Amend" => Admissible(p)

\* the floor, and what a seat in the validator set asks for
Leaves(p) == p.kind = "Suspend" \/ (p.kind = "Power" /\ p.value = 0)
Seats(p) == p.kind = "Power" /\ p.value > 0
MayBeDone(p) ==
    /\ Leaves(p) /\ p.of \in validators => Cardinality(validators) > MinValidators
    /\ Seats(p) => status[p.of] = "Active" /\ p.of \in keyed

Recorded(m, p) == assents' = [assents EXCEPT ![p] = @ \cup {m}]

Assent(m, p) ==
    /\ MayAssent(m, p) /\ ~Carries(assents[p] \cup {m}, p)
    /\ Recorded(m, p)
    /\ UNCHANGED <<epoch, order, keyed, open, since, proposed, params, seed>>

\* The arms of the enactment may still refuse, and the vote stays.
AssentRefused(m, p) ==
    /\ MayAssent(m, p) /\ Carries(assents[p] \cup {m}, p) /\ ~MayBeDone(p)
    /\ Recorded(m, p)
    /\ UNCHANGED <<epoch, order, keyed, open, since, proposed, params, seed>>

StatusAfter(p) ==
    CASE p.kind = "Suspend" /\ status[p.of] = "Active" -> [status EXCEPT ![p.of] = "Suspended"]
      [] p.kind = "Unsuspend" /\ status[p.of] = "Suspended" -> [status EXCEPT ![p.of] = "Active"]
      [] OTHER -> status

SupplyAfter(p) ==
    CASE p.kind = "Amend" -> [supply EXCEPT ![p.author] = @ + p.value]
      [] p.kind = "Redenominate" -> [m \in Members |-> Scaled(supply[m])]
      [] OTHER -> supply

AmendedAfter(p) ==
    CASE p.kind = "Amend" -> amended + p.value
      [] p.kind = "Redenominate" -> Scaled(amended)
      [] OTHER -> amended

AssentEnacts(m, p) ==
    /\ MayAssent(m, p) /\ Carries(assents[p] \cup {m}, p) /\ MayBeDone(p)
    /\ open' = open \ {p}
    /\ since' = [since EXCEPT ![p] = 0]
    /\ assents' = [assents EXCEPT ![p] = {}]
    /\ status' = StatusAfter(p)
    /\ validators' = IF Seats(p) THEN validators \cup {p.of}
                     ELSE IF Leaves(p) THEN validators \ {p.of} ELSE validators
    /\ rate' = IF p.kind = "SeedRate" THEN p.value ELSE rate
    /\ bond' = IF p.kind = "BondFraction" THEN p.value ELSE bond
    /\ base' = IF p.kind = "Redenominate" THEN Scaled(base) ELSE base
    /\ cool' = IF p.kind \in DOMAIN cool THEN [cool EXCEPT ![p.kind] = epoch + Cooldown] ELSE cool
    /\ supply' = SupplyAfter(p)
    /\ amended' = AmendedAfter(p)
    /\ year' = [year EXCEPT !.peak = IF rate' > @ THEN rate' ELSE @,
                            !.admitted = IF p.kind = "Amend" THEN @ + p.value ELSE @,
                            !.rescaled = @ \/ p.kind = "Redenominate"]
    /\ UNCHANGED <<epoch, keyed, proposed>>

-----------------------------------------------------------------------------
(* What members do by themselves *)

\* declare_supply only lowers
Lower(m, level) ==
    /\ status[m] # "Exited" /\ level < supply[m]
    /\ supply' = [supply EXCEPT ![m] = level]
    /\ UNCHANGED <<epoch, order, keyed, book, params, amended, year>>

Exit(m) ==
    /\ status[m] # "Exited" /\ supply[m] = 0
    /\ m \in validators => Cardinality(validators) > MinValidators
    /\ status' = [status EXCEPT ![m] = "Exited"]
    /\ validators' = validators \ {m}
    /\ UNCHANGED <<epoch, keyed, book, params, seed>>

\* SetConsensusKey and RetireConsensusKey
Rekey(m) ==
    /\ status[m] = "Active"
    /\ m \in keyed => m \notin validators
    /\ keyed' = IF m \in keyed THEN keyed \ {m} ELSE keyed \cup {m}
    /\ UNCHANGED <<epoch, order, book, params, seed>>

\* prune_closed_rows, and the counter a new epoch starts on
BeginBlock ==
    LET kept == {p \in open : epoch + 1 <= since[p] + ProposalRetention}
    IN /\ epoch < MaxEpoch
       /\ epoch' = epoch + 1
       /\ open' = kept
       /\ since' = [p \in Agenda |-> IF p \in kept THEN since[p] ELSE 0]
       /\ assents' = [p \in Agenda |-> IF p \in kept THEN assents[p] ELSE {}]
       /\ amended' = 0
       /\ year' = [roll |-> External, peak |-> rate, admitted |-> 0, rescaled |-> FALSE]
       /\ UNCHANGED <<order, keyed, params, supply, proposed>>

-----------------------------------------------------------------------------
Init ==
    /\ epoch = 0
    /\ status = [m \in Members |-> "Active"]
    /\ supply = GenesisSupply
    /\ validators = GenesisValidators /\ keyed = GenesisValidators
    /\ open = {} /\ proposed = 0 /\ since = [p \in Agenda |-> 0] /\ assents = [p \in Agenda |-> {}]
    /\ rate = GenesisRate /\ bond = GenesisBond /\ base = GenesisBase
    /\ cool = [k \in Keys \cup {"Redenominate"} |-> 0]
    /\ amended = 0
    /\ year = [roll |-> External, peak |-> GenesisRate, admitted |-> 0, rescaled |-> FALSE]

Voting(m, p) == Assent(m, p) \/ AssentRefused(m, p) \/ AssentEnacts(m, p)

\* bound: a reinstatement is asked for while there is something to undo
Worth(p) == p.kind = "Unsuspend" => status[p.of] = "Suspended"

Next ==
    \/ \E p \in Agenda : Worth(p) /\ Propose(p)
    \/ \E p \in Agenda, m \in Members : Voting(m, p)
    \/ \E m \in MayLower, level \in 0..2 : Lower(m, level)
    \/ \E m \in Members : Exit(m)
    \/ \E m \in MayRekey : Rekey(m)
    \/ BeginBlock

\* Assumed of the members: while an active one has the reach to pay, a sanctioned
\* member finds a co-signer to ask with; and whoever may vote on it does, votes
\* being free.  What is signed is executed.
Fairness ==
    \A p \in {q \in Agenda : q.kind = "Unsuspend"} :
        /\ WF_vars(Worth(p) /\ Propose(p))
        /\ \A m \in Members : WF_vars(Voting(m, p))

Spec == Init /\ [][Next]_vars /\ Fairness

-----------------------------------------------------------------------------
(* Properties *)

TypeOK ==
    /\ epoch \in Nat
    /\ status \in [Members -> {"Active", "Suspended", "Exited"}]
    /\ supply \in [Members -> Nat]
    /\ validators \subseteq Members /\ keyed \subseteq Members
    /\ open \subseteq Agenda /\ since \in [Agenda -> Nat] /\ assents \in [Agenda -> SUBSET Members]
    /\ {rate, bond, base, amended, proposed} \subseteq Nat
    /\ cool \in [Keys \cup {"Redenominate"} -> Nat]
    /\ year \in [roll : Nat, peak : Nat, admitted : Nat, rescaled : BOOLEAN]

\* However ceremonies, withdrawals and amendments interleave in an epoch, what
\* it admits stays a fraction of the seed it opened on (seed.rs:85-93: "the
\* base can be under-stated, never over").
SeedRateHolds ==
    ~year.rescaled => year.admitted * RateDen <= year.roll * year.peak

\* No sequence of parameter changes and re-denominations, each admissible when
\* it was proposed, leaves a bond that costs nothing (apply.rs unit_survives),
\* nor a validator that consensus cannot name or count.
LedgerStaysWritable ==
    /\ TypeOK
    /\ UnitOf(bond, base) >= 1
    /\ \A v \in validators : status[v] = "Active" /\ v \in keyed
    /\ Cardinality(validators) >= MinValidators

\* Whoever orders the ledger changes only with the higher bar of the seed as
\* it stands, whatever the proposal is called, or when a validator leaves
\* (apply.rs adoption_threshold).
OrderIsGuarded ==
    validators' # validators =>
        \/ \E m \in Members : validators' = validators \ {m} /\ Exit(m)
        \/ \E m \in Members, p \in Agenda :
              /\ AssentEnacts(m, p)
              /\ Mass(assents[p] \cup {m}) * ValidatorThetaDen >= External * ValidatorThetaNum

OrderTakesTheHigherBar == [][OrderIsGuarded]_vars

\* Half of the seed or more is not held suspended while anybody is left to pay
\* for the question: its own votes are enough to bring it back (apply.rs
\* may_govern).  The proposal itself costs a bond no suspended member can post.
MajorityReturns ==
    LET Silenced == Mass({m \in Members : status[m] = "Suspended"})
    IN External > 0 /\ 2 * Silenced >= External ~> 2 * Silenced < External \/ ~SomebodyPays

\* Not what the code does: "Every rejection in this function now happens before
\* the first write" (apply.rs:2519).  A vote that is recorded and does not enact
\* leaves its proposal short of the bar.
ShortOfTheBar ==
    \A p \in open \cap open' :
        assents'[p] \ assents[p] # {} => ~Carries(assents'[p], p)

NothingIsBanked == [][ShortOfTheBar]_vars
=============================================================================
