------------------------------- MODULE Identity -------------------------------
(***************************************************************************)
(* Who a key speaks for: accounts and their keys, guardians and the key    *)
(* rotation they may ask for, consensus keys, validators, and the rows a   *)
(* ledger forgets (crates/state/src/apply.rs).                             *)
(*                                                                         *)
(* The trade that seats an account, the vote that enacts a sanction, and   *)
(* what else of the state names a row are other components: an account     *)
(* may be seated, a member sanctioned, or a row found busy at any time.    *)
(***************************************************************************)
EXTENDS Naturals, FiniteSets

CONSTANTS
    Ids,           \* account ids, in the order they are given out
    Keys,
    SignerSets,    \* the signatures a transaction may carry
    Founders, FounderKey,           \* genesis: who, and their key
    FirstValidators, FounderVote,   \* which of them vote, with which consensus key
    MinValidators, \* Params::min_validators
    GuardianMin, VetoFloor, MaxWindow, MaxKeys,
    RowRetention,
    NoKey, Nobody,
    Offers,        \* bound: guardian lists members register, <<guardians, threshold>>
    Ballots,       \* bound: keys offered as consensus keys
    MaxEpoch       \* bound

ASSUME IdentityAssumption ==
    /\ Ids \subseteq Nat /\ Founders \subseteq Ids /\ FirstValidators \subseteq Founders
    /\ IsFiniteSet(Founders) /\ \A m \in Founders : m < Cardinality(Founders)
    /\ Nobody \notin Ids /\ NoKey \notin Keys
    /\ SignerSets \subseteq SUBSET Keys /\ Offers \subseteq (SUBSET Ids) \X Nat
    /\ Ballots \subseteq Keys
    /\ FounderKey \in [Founders -> Keys] /\ FounderVote \in [FirstValidators -> Keys]
    /\ \A f, g \in Founders : f # g => FounderKey[f] # FounderKey[g]
    /\ \A f, g \in FirstValidators : f # g => FounderVote[f] # FounderVote[g]
    /\ \A f \in Founders, v \in FirstValidators : FounderKey[f] # FounderVote[v]
    /\ {MinValidators, GuardianMin, VetoFloor, MaxWindow, MaxKeys, RowRetention, MaxEpoch} \subseteq Nat

VARIABLES
    epoch,
    next,       \* State::next_member
    status,     \* "none" for a row that was never written or has been retired
    keys,       \* Member::keys
    vote,       \* Member::consensus_key
    guardians, threshold, window,  \* Member::guardian; no guardians = None
    incoming, opened,              \* Member::pending_rotation; no keys = None
    joined,
    sponsor,    \* Seat::sponsor
    index,      \* State::key_index
    validators,
    asked       \* history: the guardians who signed the request that stands

guard == <<guardians, threshold, window>>
rotation == <<incoming, opened, asked>>
vars == <<epoch, next, status, keys, vote, guard, rotation, joined, sponsor, index, validators>>

Member == {m \in Ids : status[m] # "none"}

\* key_is_claimed
KeyIsIndexed(k) == index[k] # Nobody \/ \E m \in Ids : vote[m] = k   \* mutant: incoming keys are free
KeyIsClaimed(k) == index[k] # Nobody \/ \E m \in Ids : vote[m] = k \/ k \in incoming[m]

\* require_signed
Signed(m, S) == m \in Member /\ keys[m] \cap S # {}

-----------------------------------------------------------------------------
(* Accounts *)

NextIdKept == next   \* mutant: an id is given twice
NextId == next + 1

\* resolve, then seat_pair: a key that speaks for nobody signs its first trade
Seat(k, by, S) ==
    /\ next \in Ids
    /\ k \in S /\ ~KeyIsClaimed(k)
    /\ by \in Member /\ status[by] = "Active"
    /\ next' = NextId
    /\ status' = [status EXCEPT ![next] = "Active"]
    /\ keys' = [keys EXCEPT ![next] = {k}]
    /\ index' = [index EXCEPT ![k] = next]
    /\ joined' = [joined EXCEPT ![next] = epoch]
    /\ sponsor' = [sponsor EXCEPT ![next] = by]
    /\ UNCHANGED <<epoch, vote, guard, rotation, validators>>

\* The floor exit, Suspend and a zero power share.
MayLoseUnfloored(m) == TRUE   \* mutant
MayLose(m) == m \in validators => Cardinality(validators) > MinValidators

\* A member with no debt, no bonds and no supply leaves for good.
Exit(m, S) ==
    /\ Signed(m, S) /\ status[m] # "Exited"
    /\ MayLose(m)
    /\ status' = [status EXCEPT ![m] = "Exited"]
    /\ validators' = validators \ {m}
    /\ UNCHANGED <<epoch, next, keys, vote, guard, rotation, joined, sponsor, index>>

-----------------------------------------------------------------------------
(* Guardians and rotation *)

RequestKept(m) == UNCHANGED rotation   \* mutant: the request survives
RequestWithdrawn(m) == /\ incoming' = [incoming EXCEPT ![m] = {}]
                       /\ opened' = [opened EXCEPT ![m] = 0]
                       /\ asked' = [asked EXCEPT ![m] = {}]

\* The threshold is measured against the names given, so one guardian named
\* twice satisfies a threshold that the set of them may never reach.
RegisterGuardians(m, G, t, w, S) ==
    /\ Signed(m, S)
    /\ G # {} /\ t >= GuardianMin
    /\ w \in VetoFloor..MaxWindow
    /\ G \subseteq Member \ {m}
    /\ guardians' = [guardians EXCEPT ![m] = G]
    /\ threshold' = [threshold EXCEPT ![m] = t]
    /\ window' = [window EXCEPT ![m] = w]
    /\ RequestWithdrawn(m)
    /\ UNCHANGED <<epoch, next, status, keys, vote, joined, sponsor, index, validators>>

RotateRequest(m, K, S) ==
    LET signing == {g \in guardians[m] : Signed(g, S)}
    IN /\ m \in Member /\ guardians[m] # {}
       /\ K # {} /\ Cardinality(K) <= MaxKeys
       /\ \A k \in K : ~KeyIsClaimed(k)
       /\ Cardinality(signing) >= threshold[m]
       /\ incoming' = [incoming EXCEPT ![m] = K]
       /\ opened' = [opened EXCEPT ![m] = epoch]
       /\ asked' = [asked EXCEPT ![m] = signing]
       /\ UNCHANGED <<epoch, next, status, keys, vote, guard, joined, sponsor, index, validators>>

RotateVeto(m, S) ==
    /\ Signed(m, S) /\ incoming[m] # {}
    /\ RequestWithdrawn(m)
    /\ UNCHANGED <<epoch, next, status, keys, vote, guard, joined, sponsor, index, validators>>

\* Anyone may finalize.  Nothing is asked of the keys again.
RotateFinalize(m) ==
    /\ m \in Member /\ guardians[m] # {} /\ incoming[m] # {}
    /\ epoch >= opened[m] + window[m]
    /\ index' = [k \in Keys |-> IF k \in incoming[m] THEN m
                                ELSE IF k \in keys[m] THEN Nobody ELSE index[k]]
    /\ keys' = [keys EXCEPT ![m] = incoming[m]]
    /\ RequestWithdrawn(m)
    /\ UNCHANGED <<epoch, next, status, vote, guard, joined, sponsor, validators>>

-----------------------------------------------------------------------------
(* Validators *)

SetConsensusKey(m, k, S) ==
    /\ Signed(m, S) /\ status[m] = "Active"
    /\ index[k] = Nobody
    /\ \A n \in Ids \ {m} : vote[n] # k
    /\ vote' = [vote EXCEPT ![m] = k]
    /\ UNCHANGED <<epoch, next, status, keys, guard, rotation, joined, sponsor, index, validators>>

RetireConsensusKey(m, S) ==
    /\ Signed(m, S) /\ status[m] = "Active"
    /\ m \notin validators
    /\ vote' = [vote EXCEPT ![m] = NoKey]
    /\ UNCHANGED <<epoch, next, status, keys, guard, rotation, joined, sponsor, index, validators>>

\* what an adopted Suspend, Unsuspend or ValidatorPower proposal does
Suspend(m) ==
    /\ m \in Member /\ MayLose(m)
    /\ status' = [status EXCEPT ![m] = IF @ = "Active" THEN "Suspended" ELSE @]
    /\ validators' = validators \ {m}
    /\ UNCHANGED <<epoch, next, keys, vote, guard, rotation, joined, sponsor, index>>

Unsuspend(m) ==
    /\ m \in Member /\ status[m] = "Suspended"
    /\ status' = [status EXCEPT ![m] = "Active"]
    /\ UNCHANGED <<epoch, next, keys, vote, guard, rotation, joined, sponsor, index, validators>>

GivePower(m) ==
    /\ status[m] = "Active" /\ vote[m] # NoKey
    /\ validators' = validators \cup {m}
    /\ UNCHANGED <<epoch, next, status, keys, vote, guard, rotation, joined, sponsor, index>>

TakePower(m) ==
    /\ MayLose(m)
    /\ validators' = validators \ {m}
    /\ UNCHANGED <<epoch, next, status, keys, vote, guard, rotation, joined, sponsor, index>>

-----------------------------------------------------------------------------
(* The epoch boundary *)

NamedBySeats == {sponsor[m] : m \in Member}   \* mutant: guardians are not counted
Named == (UNION {guardians[m] : m \in Member}) \cup {sponsor[m] : m \in Member}

\* retire_empty_rows; busy: the rows the book, the graph, a proposal, a bond or
\* a supply still names
Empty(e, busy) ==
    {m \in Member \ (Named \cup busy \cup validators) :
        status[m] # "Suspended" /\ e > joined[m] + RowRetention /\ incoming[m] = {}}

BeginBlock(e, busy) ==
    LET gone == Empty(e, busy)
        Cleared(f, x) == [m \in Ids |-> IF m \in gone THEN x ELSE f[m]]
    IN /\ epoch < e
       /\ epoch' = e
       /\ status' = Cleared(status, "none")
       /\ index' = [k \in Keys |-> IF \E m \in gone : k \in keys[m] THEN Nobody ELSE index[k]]
       /\ keys' = Cleared(keys, {})
       /\ vote' = Cleared(vote, NoKey)
       /\ guardians' = Cleared(guardians, {})
       /\ threshold' = Cleared(threshold, 0)
       /\ window' = Cleared(window, 0)
       /\ joined' = Cleared(joined, 0)
       /\ sponsor' = Cleared(sponsor, Nobody)
       /\ UNCHANGED <<next, rotation, validators>>

-----------------------------------------------------------------------------
Init ==
    /\ epoch = 0
    /\ next = Cardinality(Founders)
    /\ status = [m \in Ids |-> IF m \in Founders THEN "Active" ELSE "none"]
    /\ keys = [m \in Ids |-> IF m \in Founders THEN {FounderKey[m]} ELSE {}]
    /\ vote = [m \in Ids |-> IF m \in FirstValidators THEN FounderVote[m] ELSE NoKey]
    /\ guardians = [m \in Ids |-> {}] /\ threshold = [m \in Ids |-> 0] /\ window = [m \in Ids |-> 0]
    /\ incoming = [m \in Ids |-> {}] /\ opened = [m \in Ids |-> 0] /\ asked = [m \in Ids |-> {}]
    /\ joined = [m \in Ids |-> 0] /\ sponsor = [m \in Ids |-> Nobody]
    /\ index = [k \in Keys |-> IF \E m \in Founders : FounderKey[m] = k
                               THEN CHOOSE m \in Founders : FounderKey[m] = k ELSE Nobody]
    /\ validators = FirstValidators

Guarding(m, S) ==
    \/ \E o \in Offers, w \in VetoFloor..MaxWindow : RegisterGuardians(m, o[1], o[2], w, S)
    \/ \E K \in SUBSET Keys : RotateRequest(m, K, S)
    \/ RotateVeto(m, S)

Voting(m, S) ==
    \/ \E k \in Ballots : SetConsensusKey(m, k, S)
    \/ RetireConsensusKey(m, S)

Enacted(m) == Suspend(m) \/ Unsuspend(m) \/ GivePower(m) \/ TakePower(m)

Next ==
    \/ \E S \in SignerSets :
          \/ \E k \in Keys, by \in Ids : Seat(k, by, S)
          \/ \E m \in Ids : Exit(m, S) \/ Guarding(m, S) \/ Voting(m, S)
    \/ \E m \in Ids : RotateFinalize(m) \/ Enacted(m)
    \/ \E e \in 1..MaxEpoch, busy \in SUBSET Ids : BeginBlock(e, busy)

Spec == Init /\ [][Next]_vars

-----------------------------------------------------------------------------
(* Properties *)

\* An id is given once: no row stands at or above the next one.
TypeOK ==
    /\ epoch \in Nat /\ next \in Nat /\ \A m \in Member : m < next
    /\ status \in [Ids -> {"none", "Active", "Suspended", "Exited"}]
    /\ keys \in [Ids -> SUBSET Keys] /\ vote \in [Ids -> Keys \cup {NoKey}]
    /\ guardians \in [Ids -> SUBSET Ids] /\ threshold \in [Ids -> Nat] /\ window \in [Ids -> Nat]
    /\ incoming \in [Ids -> SUBSET Keys] /\ opened \in [Ids -> Nat] /\ asked \in [Ids -> SUBSET Ids]
    /\ joined \in [Ids -> Nat] /\ sponsor \in [Ids -> Ids \cup {Nobody}]
    /\ index \in [Keys -> Ids \cup {Nobody}]
    /\ validators \subseteq Ids

\* One key, one member, from both ends: the index names the member that holds
\* the key, and every key a member holds is indexed to them (invariants.rs; a
\* rotation's incoming keys are indexed only when it is finalized).
OneKeyOneMember == \A k \in Keys, m \in Ids : index[k] = m <=> k \in keys[m]

\* An account's keys change under it only after the rotation stood for the
\* whole veto window, at the request of a threshold of the guardians it has NOW
\* (register_guardians withdraws a request made under others).
ChangesAreAuthorised ==
    \A m \in Member :
        keys'[m] # keys[m] /\ status'[m] # "none" =>
            /\ epoch >= opened[m] + window[m] /\ window[m] >= VetoFloor
            /\ asked[m] \subseteq guardians[m] /\ Cardinality(asked[m]) >= threshold[m]
            /\ threshold[m] >= GuardianMin

RotationIsAuthorised == [][ChangesAreAuthorised]_vars

\* Consensus can name and count its voters after every transition: each is an
\* active member with a consensus key of its own, and no fewer than the floor
\* remain (apply.rs exit, assent, set_consensus_key).
QuorumStands ==
    /\ \A v \in validators : status[v] = "Active" /\ vote[v] # NoKey
    /\ \A m, n \in Member : m # n /\ vote[m] = vote[n] => vote[m] = NoKey
    /\ Cardinality(FirstValidators) >= MinValidators => Cardinality(validators) >= MinValidators

\* Retirement never leaves a guardian list or a seat that names a row which is
\* gone (retire_empty_rows).
NobodyNamedIsGone ==
    \A m \in Member : guardians[m] \subseteq Member /\ sponsor[m] \in Member \cup {Nobody}

\* Not what the code does: the separation invariants.rs:314-318 audits.  A key
\* a rotation has asked for can be registered as a consensus key while it
\* waits, and nothing is asked again when the rotation is finalized.
ConsensusKeyIsNoMemberKey == \A m \in Member : vote[m] # NoKey => index[vote[m]] = Nobody
=============================================================================
