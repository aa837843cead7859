-------------------------- MODULE GovernanceProofs --------------------------
(***************************************************************************)
(* Proofs about Governance: what the votes can do to the order, to the     *)
(* bond unit and to the seed they are a share of.                          *)
(***************************************************************************)
EXTENDS Governance, Sums

\* A genesis file starts a ledger that has the validators it asks for, and a
\* bond that costs something.
GenesisIsWritable ==
    /\ UnitOf(GenesisBond, GenesisBase) >= 1
    /\ Cardinality(GenesisValidators) >= MinValidators

-----------------------------------------------------------------------------
(* Arithmetic of fractions *)

\* What a fraction of a number is.
LEMMA QuotientIsNatural ==
    ASSUME NEW a \in Nat, NEW b \in Nat \ {0}
    PROVE  a \div b \in Nat /\ (a \div b) * b <= a
OBVIOUS

LEMMA ProductIsNatural ==
    ASSUME NEW a \in Nat, NEW b \in Nat
    PROVE  a * b \in Nat
OBVIOUS

LEMMA ProductGrows ==
    ASSUME NEW a \in Nat, NEW b \in Nat, NEW c \in Nat, NEW d \in Nat, a <= c, b <= d
    PROVE  a * b <= c * d
OBVIOUS

LEMMA ScaledIsNatural ==
    ASSUME NEW x \in Nat
    PROVE  Scaled(x) \in Nat
BY GovernanceAssumption, QuotientIsNatural, ProductIsNatural DEF Scaled

-----------------------------------------------------------------------------
(* Types *)

LEMMA ExternalIsNatural ==
    ASSUME TypeOK
    PROVE  External \in Nat
<1>1. DOMAIN supply = Members /\ \A x \in Members : supply[x] \in Nat
  BY DEF TypeOK
<1>2. SumFunctionOnSet(supply, Members) \in Nat
  BY <1>1, GovernanceAssumption, SumIsNatural
<1> QED  BY <1>1, <1>2 DEF External, SumFunction

LEMMA AgendaIsTyped ==
    ASSUME NEW p \in Agenda
    PROVE  /\ p.kind \in Keys \cup {"Redenominate", "Suspend", "Unsuspend", "Power", "Amend"}
           /\ p.author \in Members /\ p.of \in Members /\ p.value \in Nat
BY GovernanceAssumption DEF Texts

LEMMA TypeInit ==
    ASSUME Init
    PROVE  TypeOK
<1> USE GovernanceAssumption DEF Init
<1>1. supply \in [Members -> Nat]
  OBVIOUS
<1>2. External \in Nat
  <2>1. DOMAIN supply = Members /\ \A x \in Members : supply[x] \in Nat
    BY <1>1
  <2>2. SumFunctionOnSet(supply, Members) \in Nat
    BY <2>1, SumIsNatural
  <2> QED  BY <2>1, <2>2 DEF External, SumFunction
<1>3. year \in [roll : Nat, peak : Nat, admitted : Nat, rescaled : BOOLEAN]
  BY <1>2
<1>4. /\ status \in [Members -> {"Active", "Suspended", "Exited"}]
      /\ since \in [Agenda -> Nat] /\ assents \in [Agenda -> SUBSET Members]
      /\ cool \in [Keys \cup {"Redenominate"} -> Nat]
  OBVIOUS
<1> QED  BY <1>1, <1>3, <1>4 DEF TypeOK

LEMMA TypePropose ==
    ASSUME TypeOK, NEW p \in Agenda, Propose(p)
    PROVE  TypeOK'
<1>1. /\ open' = open \cup {p} /\ since' = [since EXCEPT ![p] = epoch]
      /\ assents' = [assents EXCEPT ![p] = {}]
      /\ proposed' = proposed \/ proposed' = proposed + 1
      /\ UNCHANGED <<epoch, status, validators, keyed, rate, bond, base, cool, supply, amended, year>>
  BY DEF Propose, order, params, seed
<1>2. open' \subseteq Agenda /\ since' \in [Agenda -> Nat] /\ assents' \in [Agenda -> SUBSET Members]
  BY <1>1 DEF TypeOK
<1>3. proposed' \in Nat
  BY <1>1 DEF TypeOK
<1> QED  BY <1>1, <1>2, <1>3 DEF TypeOK

LEMMA TypeRecorded ==
    ASSUME TypeOK, NEW m \in Members, NEW p \in Agenda, Recorded(m, p),
           UNCHANGED <<epoch, order, keyed, open, since, proposed, params, seed>>
    PROVE  TypeOK'
<1>1. assents' \in [Agenda -> SUBSET Members]
  BY DEF TypeOK, Recorded
<1> QED  BY <1>1 DEF TypeOK, order, params, seed

LEMMA TypeEnacts ==
    ASSUME TypeOK, NEW m \in Members, NEW p \in Agenda, AssentEnacts(m, p)
    PROVE  TypeOK'
<1> USE GovernanceAssumption, AgendaIsTyped
<1>1. status' \in [Members -> {"Active", "Suspended", "Exited"}]
  BY DEF TypeOK, AssentEnacts, StatusAfter
<1>2. supply' \in [Members -> Nat]
  <2>1. CASE p.kind = "Amend"
    BY <2>1 DEF TypeOK, AssentEnacts, SupplyAfter
  <2>2. CASE p.kind = "Redenominate"
    <3>1. supply' = [x \in Members |-> Scaled(supply[x])]
      BY <2>2 DEF AssentEnacts, SupplyAfter
    <3> QED  BY <3>1, ScaledIsNatural DEF TypeOK
  <2>3. CASE p.kind \notin {"Amend", "Redenominate"}
    BY <2>3 DEF TypeOK, AssentEnacts, SupplyAfter
  <2> QED  BY <2>1, <2>2, <2>3
<1>3. amended' \in Nat
  <2>1. amended' = amended + p.value \/ amended' = Scaled(amended) \/ amended' = amended
    BY DEF AssentEnacts, AmendedAfter
  <2> QED  BY <2>1, ScaledIsNatural DEF TypeOK
<1>4. rate' \in Nat /\ bond' \in Nat /\ base' \in Nat
  BY ScaledIsNatural DEF TypeOK, AssentEnacts
<1>5. cool' \in [Keys \cup {"Redenominate"} -> Nat]
  BY DEF TypeOK, AssentEnacts
<1>6. validators' \subseteq Members /\ open' \subseteq Agenda
  BY DEF TypeOK, AssentEnacts
<1>7. since' \in [Agenda -> Nat] /\ assents' \in [Agenda -> SUBSET Members]
  BY DEF TypeOK, AssentEnacts
<1>8. year' \in [roll : Nat, peak : Nat, admitted : Nat, rescaled : BOOLEAN]
  <2>1. year \in [roll : Nat, peak : Nat, admitted : Nat, rescaled : BOOLEAN]
    BY DEF TypeOK
  <2>2. PICK k \in Nat, a \in Nat, r \in BOOLEAN :
          year' = [year EXCEPT !.peak = k, !.admitted = a, !.rescaled = r]
    <3>1. /\ (IF rate' > year.peak THEN rate' ELSE year.peak) \in Nat
          /\ (IF p.kind = "Amend" THEN year.admitted + p.value ELSE year.admitted) \in Nat
          /\ (year.rescaled \/ p.kind = "Redenominate") \in BOOLEAN
      BY <1>4, <2>1
    <3> QED  BY <3>1 DEF AssentEnacts
  <2> QED  BY <2>1, <2>2
<1>9. UNCHANGED <<epoch, keyed, proposed>>
  BY DEF AssentEnacts
<1> QED  BY <1>1, <1>2, <1>3, <1>4, <1>5, <1>6, <1>7, <1>8, <1>9 DEF TypeOK

LEMMA TypeBeginBlock ==
    ASSUME TypeOK, BeginBlock
    PROVE  TypeOK'
<1>1. External \in Nat
  BY ExternalIsNatural
<1>2. year' \in [roll : Nat, peak : Nat, admitted : Nat, rescaled : BOOLEAN]
  BY <1>1 DEF BeginBlock, TypeOK
<1>3. /\ open' \subseteq Agenda /\ since' \in [Agenda -> Nat]
      /\ assents' \in [Agenda -> SUBSET Members]
  BY DEF BeginBlock, TypeOK
<1>4. epoch' \in Nat /\ amended' = 0 /\ UNCHANGED <<status, validators, keyed, rate, bond, base, cool, supply, proposed>>
  BY DEF BeginBlock, TypeOK, order, params
<1> QED  BY <1>2, <1>3, <1>4 DEF TypeOK

\* What a member does by itself.
LEMMA TypeAlone ==
    ASSUME TypeOK, NEW m \in Members, Exit(m) \/ Rekey(m) \/ \E level \in 0..2 : Lower(m, level)
    PROVE  TypeOK'
<1>1. CASE Exit(m)
  <2>1. status' \in [Members -> {"Active", "Suspended", "Exited"}] /\ validators' \subseteq Members
    BY <1>1 DEF TypeOK, Exit
  <2> QED  BY <1>1, <2>1 DEF TypeOK, Exit, params, book, seed
<1>2. CASE Rekey(m)
  BY <1>2 DEF TypeOK, Rekey, params, book, seed, order
<1>3. ASSUME NEW level \in 0..2, Lower(m, level)
      PROVE  TypeOK'
  <2>1. supply' \in [Members -> Nat]
    BY <1>3 DEF TypeOK, Lower
  <2> QED  BY <1>3, <2>1 DEF TypeOK, Lower, params, book, order
<1> QED  BY <1>1, <1>2, <1>3

LEMMA TypeStep ==
    ASSUME TypeOK, [Next]_vars
    PROVE  TypeOK'
<1> USE GovernanceAssumption
<1>1. ASSUME NEW p \in Agenda, Propose(p)
      PROVE  TypeOK'
  BY <1>1, TypePropose
<1>2. ASSUME NEW p \in Agenda, NEW m \in Members, Voting(m, p)
      PROVE  TypeOK'
  BY <1>2, TypeRecorded, TypeEnacts DEF Voting, Assent, AssentRefused
<1>3. ASSUME NEW m \in Members, Exit(m) \/ Rekey(m) \/ \E level \in 0..2 : Lower(m, level)
      PROVE  TypeOK'
  BY <1>3, TypeAlone
<1>4. CASE BeginBlock
  BY <1>4, TypeBeginBlock
<1>5. CASE UNCHANGED vars
  BY <1>5 DEF vars, TypeOK, order, params, book, seed
<1> QED  BY <1>1, <1>2, <1>3, <1>4, <1>5 DEF Next

LEMMA TypeAlways == Spec => []TypeOK
<1>1. Init => TypeOK
  BY TypeInit
<1>2. TypeOK /\ [Next]_vars => TypeOK'
  BY TypeStep
<1> QED  BY <1>1, <1>2, PTL DEF Spec

-----------------------------------------------------------------------------
(***************************************************************************)
(* A ledger that stays writable.                                           *)
(***************************************************************************)

\* What is claimed of it besides the types.
Writable ==
    /\ UnitOf(bond, base) >= 1
    /\ \A v \in validators : status[v] = "Active" /\ v \in keyed
    /\ Cardinality(validators) >= MinValidators

\* The set stays above its floor when someone joins it, and when one of more
\* than the floor leaves.
LEMMA ValidatorsCount ==
    ASSUME TypeOK, NEW m \in Members
    PROVE  /\ Cardinality(validators) \in Nat
           /\ Cardinality(validators \cup {m}) \in Nat /\ Cardinality(validators \ {m}) \in Nat
           /\ Cardinality(validators \cup {m}) >= Cardinality(validators)
           /\ Cardinality(validators \ {m}) >= Cardinality(validators) - 1
           /\ m \notin validators => validators \ {m} = validators
<1>1. IsFiniteSet(validators)
  BY GovernanceAssumption, FS_Subset DEF TypeOK
<1>2. Cardinality(validators) \in Nat
  BY <1>1, FS_CardinalityType
<1>3. Cardinality(validators \cup {m}) \in {Cardinality(validators), Cardinality(validators) + 1}
  BY <1>1, FS_AddElement
<1>4. Cardinality(validators \ {m}) = IF m \in validators THEN Cardinality(validators) - 1
                                      ELSE Cardinality(validators)
  BY <1>1, FS_RemoveElement
<1>5. IsFiniteSet(validators \ {m})
  BY <1>1, FS_RemoveElement
<1>6. Cardinality(validators \ {m}) \in Nat
  BY <1>5, FS_CardinalityType
<1> QED  BY <1>2, <1>3, <1>4, <1>6

\* What the floor asks of whoever leaves, and of whoever comes.
LEMMA FloorKept ==
    ASSUME TypeOK, Cardinality(validators) >= MinValidators, NEW m \in Members
    PROVE  /\ Cardinality(validators \cup {m}) >= MinValidators
           /\ (m \in validators => Cardinality(validators) > MinValidators)
                 => Cardinality(validators \ {m}) >= MinValidators
<1>1. MinValidators \in Nat
  BY GovernanceAssumption
<1>2. CASE m \in validators
  BY <1>1, <1>2, ValidatorsCount
<1>3. CASE m \notin validators
  BY <1>1, <1>3, ValidatorsCount
<1> QED  BY <1>2, <1>3

LEMMA WritableEnacts ==
    ASSUME TypeOK, Writable, NEW m \in Members, NEW p \in Agenda, AssentEnacts(m, p)
    PROVE  Writable'
<1> USE GovernanceAssumption, AgendaIsTyped
<1>1. UnitOf(bond', base') >= 1
  <2>1. Survives(p)
    BY DEF AssentEnacts, MayAssent, StillSurvives
  <2>2. CASE p.kind = "BondFraction"
    BY <2>1, <2>2 DEF AssentEnacts, Survives
  <2>3. CASE p.kind = "Redenominate"
    BY <2>1, <2>3 DEF AssentEnacts, Survives
  <2>4. CASE p.kind \notin {"BondFraction", "Redenominate"}
    BY <2>4 DEF AssentEnacts, Writable
  <2> QED  BY <2>2, <2>3, <2>4
<1>2. \A v \in validators' : status'[v] = "Active" /\ v \in keyed'
  <2> SUFFICES ASSUME NEW v \in validators'
               PROVE  status'[v] = "Active" /\ v \in keyed'
    OBVIOUS
  <2>1. v \in Members /\ status' = StatusAfter(p) /\ UNCHANGED keyed
    BY DEF AssentEnacts, TypeOK
  <2>2. CASE Seats(p)
    BY <2>1, <2>2 DEF AssentEnacts, MayBeDone, Writable, StatusAfter, Seats
  <2>3. CASE Leaves(p)
    <3>1. v \in validators /\ v # p.of
      BY <2>3 DEF AssentEnacts, Seats, Leaves
    <3> QED  BY <2>1, <3>1 DEF Writable, StatusAfter, TypeOK
  <2>4. CASE ~Seats(p) /\ ~Leaves(p)
    <3>1. v \in validators /\ p.kind # "Suspend"
      BY <2>4 DEF AssentEnacts, Leaves
    <3> QED  BY <2>1, <3>1 DEF Writable, StatusAfter, TypeOK
  <2> QED  BY <2>2, <2>3, <2>4
<1>3. Cardinality(validators') >= MinValidators
  <2>1. CASE Seats(p)
    <3>1. validators' = validators \cup {p.of}
      BY <2>1 DEF AssentEnacts
    <3> QED  BY <3>1, FloorKept DEF Writable
  <2>2. CASE ~Seats(p) /\ Leaves(p)
    <3>1. validators' = validators \ {p.of}
      BY <2>2 DEF AssentEnacts
    <3>2. p.of \in validators => Cardinality(validators) > MinValidators
      BY <2>2 DEF AssentEnacts, MayBeDone
    <3> QED  BY <3>1, <3>2, FloorKept DEF Writable
  <2>3. CASE ~Seats(p) /\ ~Leaves(p)
    BY <2>3 DEF AssentEnacts, Writable
  <2> QED  BY <2>1, <2>2, <2>3
<1> QED  BY <1>1, <1>2, <1>3 DEF Writable, UnitOf

LEMMA WritableAlone ==
    ASSUME TypeOK, Writable, NEW m \in Members,
           Exit(m) \/ Rekey(m) \/ \E level \in 0..2 : Lower(m, level)
    PROVE  Writable'
<1> USE GovernanceAssumption
<1>1. CASE Exit(m)
  <2>1. \A v \in validators' : status'[v] = "Active" /\ v \in keyed'
    BY <1>1 DEF Exit, Writable, TypeOK
  <2>2. validators' = validators \ {m} /\ (m \in validators => Cardinality(validators) > MinValidators)
    BY <1>1 DEF Exit
  <2>3. Cardinality(validators') >= MinValidators
    BY <2>2, FloorKept DEF Writable
  <2> QED  BY <1>1, <2>1, <2>3 DEF Exit, Writable, params, UnitOf
<1>2. CASE Rekey(m)
  BY <1>2 DEF Rekey, Writable, params, order, UnitOf
<1>3. ASSUME NEW level \in 0..2, Lower(m, level)
      PROVE  Writable'
  BY <1>3 DEF Lower, Writable, params, order, UnitOf
<1> QED  BY <1>1, <1>2, <1>3

LEMMA WritableStep ==
    ASSUME TypeOK, Writable, [Next]_vars
    PROVE  Writable'
<1> USE GovernanceAssumption
<1>1. ASSUME NEW p \in Agenda, NEW m \in Members, Voting(m, p)
      PROVE  Writable'
  <2>1. CASE AssentEnacts(m, p)
    BY <2>1, WritableEnacts
  <2>2. CASE Assent(m, p) \/ AssentRefused(m, p)
    BY <2>2 DEF Assent, AssentRefused, Writable, params, order, UnitOf
  <2> QED  BY <1>1, <2>1, <2>2 DEF Voting
<1>2. ASSUME NEW m \in Members, Exit(m) \/ Rekey(m) \/ \E level \in 0..2 : Lower(m, level)
      PROVE  Writable'
  BY <1>2, WritableAlone
<1>3. CASE BeginBlock \/ (\E p \in Agenda : Propose(p)) \/ UNCHANGED vars
  <2>1. UNCHANGED <<bond, base, validators, status, keyed>>
    BY <1>3 DEF BeginBlock, Propose, vars, params, order
  <2> QED  BY <2>1 DEF Writable, UnitOf
<1> QED  BY <1>1, <1>2, <1>3 DEF Next

\* A ledger that starts writable stays writable: no sequence of proposals,
\* exits and key changes leaves a bond that costs nothing, a validator that is
\* not in standing or has no key, or fewer validators than the floor (apply.rs
\* unit_survives, assent, exit).
THEOREM LedgerStaysWritableAlways ==
    ASSUME GenesisIsWritable
    PROVE  Spec => []LedgerStaysWritable
<1>1. Init => Writable
  <2> SUFFICES ASSUME Init
               PROVE  Writable
    OBVIOUS
  <2>1. validators = GenesisValidators /\ bond = GenesisBond /\ base = GenesisBase
    BY DEF Init
  <2>2. \A v \in validators : status[v] = "Active" /\ v \in keyed
    BY GovernanceAssumption DEF Init
  <2> QED  BY <2>1, <2>2 DEF Writable, GenesisIsWritable
<1>2. TypeOK /\ Writable /\ [Next]_vars => Writable'
  BY WritableStep
<1>3. TypeOK /\ Writable => LedgerStaysWritable
  BY DEF Writable, LedgerStaysWritable
<1> QED  BY <1>1, <1>2, <1>3, TypeAlways, PTL DEF Spec

-----------------------------------------------------------------------------
(* Who orders the ledger *)

\* The order changes only when a validator leaves, or by a vote that reached
\* the higher bar of the seed as it stands (apply.rs adoption_threshold).
THEOREM OrderTakesTheHigherBarAlways == Spec => OrderTakesTheHigherBar
<1>1. ASSUME [Next]_vars, validators' # validators
      PROVE  OrderIsGuarded
  <2>1. ASSUME NEW m \in Members, NEW p \in Agenda, AssentEnacts(m, p)
        PROVE  Mass(assents[p] \cup {m}) * ValidatorThetaDen >= External * ValidatorThetaNum
    <3>1. p.kind = "Power" \/ (p.kind = "Suspend" /\ p.of \in validators)
      BY <1>1, <2>1 DEF AssentEnacts, Seats, Leaves
    <3>2. Bar(p) = <<ValidatorThetaNum, ValidatorThetaDen>>
      BY <3>1 DEF Bar
    <3> QED  BY <2>1, <3>2 DEF AssentEnacts, Carries
  <2>2. ASSUME NEW m \in Members, Exit(m)
        PROVE  OrderIsGuarded
    BY <2>2 DEF Exit, OrderIsGuarded
  <2>3. ASSUME NEW m \in Members, NEW p \in Agenda, Voting(m, p)
        PROVE  OrderIsGuarded
    <3>1. AssentEnacts(m, p)
      BY <1>1, <2>3 DEF Voting, Assent, AssentRefused, order
    <3> QED  BY <2>1, <3>1 DEF OrderIsGuarded
  <2>4. \/ \E m \in Members : Exit(m)
        \/ \E m \in Members, p \in Agenda : Voting(m, p)
    BY <1>1 DEF Next, vars, order, Propose, Lower, Rekey, BeginBlock
  <2> QED  BY <2>2, <2>3, <2>4
<1>2. [Next]_vars => [OrderIsGuarded]_vars
  BY <1>1 DEF OrderIsGuarded
<1> QED  BY <1>2, PTL DEF Spec, OrderTakesTheHigherBar

-----------------------------------------------------------------------------
(***************************************************************************)
(* The rate at which the seed grows.  Until the unit changes, the counter  *)
(* of the epoch is what the epoch admitted, and the seed is at most what   *)
(* it was when the epoch opened and what was admitted since: what is left  *)
(* of the two is the base the rate is taken of.                            *)
(***************************************************************************)
SeedInv ==
    ~year.rescaled =>
        /\ amended = year.admitted
        /\ External <= year.roll + year.admitted
        /\ rate <= year.peak
        /\ year.admitted * RateDen <= year.roll * year.peak

\* What is left of the epoch's rate, when the counter has not gone astray.
LEMMA RemainingIsBounded ==
    ASSUME TypeOK, SeedInv, ~year.rescaled, NEW v \in Nat \ {0}, v <= Remaining
    PROVE  (year.admitted + v) * RateDen <= year.roll * year.peak
<1> USE GovernanceAssumption
<1>1. /\ External \in Nat /\ amended \in Nat /\ rate \in Nat
      /\ year.roll \in Nat /\ year.peak \in Nat /\ year.admitted \in Nat
  BY ExternalIsNatural DEF TypeOK
<1>2. RateBase \in Nat /\ RateBase <= year.roll
  BY <1>1 DEF RateBase, SeedInv
<1>3. RateBase * rate <= year.roll * year.peak
  BY <1>1, <1>2, ProductGrows DEF SeedInv
<1>4. Ceiling \in Nat /\ Ceiling * RateDen <= RateBase * rate
  <2>1. RateBase * rate \in Nat
    BY <1>1, <1>2, ProductIsNatural
  <2> QED  BY <2>1, QuotientIsNatural DEF Ceiling
<1>5. year.admitted + v <= Ceiling
  BY <1>1, <1>4 DEF Remaining, SeedInv
<1>6. (year.admitted + v) * RateDen <= Ceiling * RateDen
  BY <1>1, <1>4, <1>5, ProductGrows
<1>7. /\ (year.admitted + v) * RateDen \in Nat /\ Ceiling * RateDen \in Nat
      /\ RateBase * rate \in Nat /\ year.roll * year.peak \in Nat
  BY <1>1, <1>2, <1>4, ProductIsNatural
<1> QED  BY <1>3, <1>4, <1>6, <1>7

\* The seed when one supply changes.
LEMMA ExternalUpdate ==
    ASSUME TypeOK, NEW m \in Members, NEW v \in Nat, supply' = [supply EXCEPT ![m] = v]
    PROVE  External' + supply[m] = External + v
<1>1. /\ DOMAIN supply = Members /\ DOMAIN supply' = Members
      /\ \A x \in Members : supply[x] \in Nat /\ supply'[x] \in Nat
      /\ \A x \in Members : x # m => supply'[x] = supply[x]
      /\ supply'[m] = v
  BY DEF TypeOK
<1>2. SumFunctionOnSet(supply', Members) + supply[m] = SumFunctionOnSet(supply, Members) + supply'[m]
  <2>1. Weighs(supply, Members) /\ Weighs(supply', Members) /\ AgreeOff(supply, supply', Members, m)
    BY <1>1 DEF Weighs, AgreeOff
  <2>2. IsFiniteSet(Members)
    BY GovernanceAssumption
  <2>3. PICK f, h : f = supply /\ h = supply'
    OBVIOUS
  <2>4. Weighs(f, Members) /\ Weighs(h, Members) /\ AgreeOff(f, h, Members, m)
    BY <2>1, <2>3
  <2>5. SumFunctionOnSet(h, Members) + f[m] = SumFunctionOnSet(f, Members) + h[m]
    BY <2>2, <2>4, SumUpdate
  <2> QED  BY <2>3, <2>5
<1> QED  BY <1>1, <1>2 DEF External, SumFunction

LEMMA SeedEnacts ==
    ASSUME TypeOK, SeedInv, NEW m \in Members, NEW p \in Agenda, AssentEnacts(m, p)
    PROVE  SeedInv'
<1> USE GovernanceAssumption, AgendaIsTyped
<1>1. SUFFICES ASSUME ~year'.rescaled
               PROVE  SeedInv'
  BY DEF SeedInv
<1>2. year \in [roll : Nat, peak : Nat, admitted : Nat, rescaled : BOOLEAN] /\ rate \in Nat /\ amended \in Nat
  BY DEF TypeOK
<1>3. /\ ~year.rescaled /\ p.kind # "Redenominate"
      /\ year'.roll = year.roll
      /\ year'.peak = IF rate' > year.peak THEN rate' ELSE year.peak
      /\ year'.admitted = IF p.kind = "Amend" THEN year.admitted + p.value ELSE year.admitted
  BY <1>1, <1>2 DEF AssentEnacts
<1>4. rate' = (IF p.kind = "SeedRate" THEN p.value ELSE rate) /\ rate' \in Nat
  BY <1>2 DEF AssentEnacts
<1>5. rate' <= year'.peak /\ year.peak <= year'.peak /\ year'.peak \in Nat
  BY <1>2, <1>3, <1>4
<1>6. /\ year.roll * year.peak <= year'.roll * year'.peak
      /\ year.roll * year.peak \in Nat /\ year'.roll * year'.peak \in Nat
  BY <1>2, <1>3, <1>5, ProductGrows, ProductIsNatural
<1>7. CASE p.kind = "Amend"
  <2>1. p.value \in Nat \ {0} /\ p.value <= Remaining
    BY <1>7 DEF AssentEnacts, MayAssent, Admissible
  <2>2. (year.admitted + p.value) * RateDen <= year.roll * year.peak
    BY <1>3, <2>1, RemainingIsBounded
  <2>3. supply' = [supply EXCEPT ![p.author] = supply[p.author] + p.value] /\ amended' = amended + p.value
    BY <1>7 DEF AssentEnacts, SupplyAfter, AmendedAfter
  <2>4. supply[p.author] \in Nat /\ External \in Nat /\ External' \in Nat
    <3>1. TypeOK'
      BY TypeEnacts
    <3>2. External' \in Nat
      <4>1. DOMAIN supply' = Members /\ \A x \in Members : supply'[x] \in Nat
        BY <3>1 DEF TypeOK
      <4>2. SumFunctionOnSet(supply', Members) \in Nat
        BY <4>1, SumIsNatural
      <4> QED  BY <4>1, <4>2 DEF External, SumFunction
    <3> QED  BY <3>2, ExternalIsNatural DEF TypeOK
  <2>5. External' + supply[p.author] = External + (supply[p.author] + p.value)
    <3>1. supply[p.author] + p.value \in Nat /\ p.author \in Members
      BY <2>1, <2>4
    <3> QED  BY <2>3, <3>1, ExternalUpdate, Zenon
  <2>6. External' = External + p.value
    BY <2>1, <2>4, <2>5
  <2>7. (year.admitted + p.value) * RateDen \in Nat
    BY <1>2, <2>1, ProductIsNatural
  <2>8. year'.admitted * RateDen <= year'.roll * year'.peak
    BY <1>3, <1>6, <1>7, <2>2, <2>7
  <2>9. amended' = year'.admitted /\ External' <= year'.roll + year'.admitted
    BY <1>2, <1>3, <1>7, <2>1, <2>3, <2>4, <2>6 DEF SeedInv
  <2> QED  BY <1>5, <2>8, <2>9 DEF SeedInv
<1>8. CASE p.kind # "Amend"
  <2>1. UNCHANGED <<supply, amended>> /\ year'.admitted = year.admitted
    BY <1>3, <1>8 DEF AssentEnacts, SupplyAfter, AmendedAfter
  <2>2. External' = External
    BY <2>1 DEF External
  <2>3. year.admitted * RateDen \in Nat
    BY <1>2, ProductIsNatural
  <2>4. year'.admitted * RateDen <= year'.roll * year'.peak
    BY <1>3, <1>6, <2>1, <2>3 DEF SeedInv
  <2> QED  BY <1>3, <1>5, <2>1, <2>2, <2>4 DEF SeedInv
<1> QED  BY <1>7, <1>8

LEMMA SeedBeginBlock ==
    ASSUME TypeOK, BeginBlock
    PROVE  SeedInv'
<1>1. /\ amended' = 0 /\ UNCHANGED <<rate, supply>>
      /\ year' = [roll |-> External, peak |-> rate, admitted |-> 0, rescaled |-> FALSE]
  BY DEF BeginBlock, params
<1>2. External' = External /\ External \in Nat /\ rate \in Nat
  BY <1>1, ExternalIsNatural DEF External, TypeOK
<1>3. External * rate \in Nat /\ 0 * RateDen = 0
  <2>1. RateDen \in Nat
    BY GovernanceAssumption
  <2>2. External * rate \in Nat
    BY <1>2, ProductIsNatural
  <2> QED  BY <2>1, <2>2
<1> QED  BY <1>1, <1>2, <1>3 DEF SeedInv

LEMMA SeedStep ==
    ASSUME TypeOK, SeedInv, [Next]_vars
    PROVE  SeedInv'
<1> USE GovernanceAssumption
<1>1. ASSUME NEW m \in Members, NEW p \in Agenda, AssentEnacts(m, p)
      PROVE  SeedInv'
  BY <1>1, SeedEnacts
<1>2. CASE BeginBlock
  BY <1>2, SeedBeginBlock
<1>3. ASSUME NEW m \in Members, NEW level \in 0..2, Lower(m, level)
      PROVE  SeedInv'
  <2>1. supply' = [supply EXCEPT ![m] = level] /\ level < supply[m] /\ UNCHANGED <<rate, amended, year>>
    BY <1>3 DEF Lower, params
  <2>2. External' + supply[m] = External + level
    <3>1. level \in Nat
      OBVIOUS
    <3> QED  BY <2>1, <3>1, ExternalUpdate, Zenon
  <2>3. External \in Nat /\ supply[m] \in Nat /\ year.roll \in Nat /\ year.admitted \in Nat
    BY ExternalIsNatural DEF TypeOK
  <2>4. External' \in Nat
    <3>1. TypeOK'
      BY <1>3, TypeAlone
    <3>2. DOMAIN supply' = Members /\ Weighs(supply', Members)
      BY <3>1 DEF TypeOK, Weighs
    <3>3. SumFunctionOnSet(supply', Members) \in Nat
      BY <3>2, SumIsNatural DEF Weighs
    <3> QED  BY <3>2, <3>3 DEF External, SumFunction
  <2>5. External' <= External
    BY <2>1, <2>2, <2>3, <2>4
  <2> QED  BY <2>1, <2>3, <2>4, <2>5 DEF SeedInv
<1>4. CASE UNCHANGED <<supply, rate, amended, year>>
  BY <1>4 DEF SeedInv, External
<1>5. \/ \E m \in Members, p \in Agenda : AssentEnacts(m, p)
      \/ BeginBlock
      \/ \E m \in Members, level \in 0..2 : Lower(m, level)
      \/ UNCHANGED <<supply, rate, amended, year>>
  BY DEF Next, Voting, Assent, AssentRefused, Propose, Exit, Rekey, vars, params, seed
<1> QED  BY <1>1, <1>2, <1>3, <1>4, <1>5

\* However ceremonies, withdrawals and amendments interleave in an epoch, what
\* it admits stays a fraction of the seed it opened on (seed.rs check).
THEOREM SeedRateHoldsAlways == Spec => []SeedRateHolds
<1>1. Init => SeedInv
  <2> SUFFICES ASSUME Init
               PROVE  SeedInv
    OBVIOUS
  <2>1. TypeOK
    BY TypeInit
  <2>2. External \in Nat /\ External * GenesisRate \in Nat /\ 0 * RateDen = 0
    BY <2>1, ExternalIsNatural, ProductIsNatural, GovernanceAssumption
  <2> QED  BY <2>2, GovernanceAssumption DEF Init, SeedInv
<1>2. TypeOK /\ SeedInv /\ [Next]_vars => SeedInv'
  BY SeedStep
<1>3. SeedInv => SeedRateHolds
  BY DEF SeedInv, SeedRateHolds
<1> QED  BY <1>1, <1>2, <1>3, TypeAlways, PTL DEF Spec
=============================================================================
