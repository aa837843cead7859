---------------------------- MODULE ConsensusProofs ----------------------------
(***************************************************************************)
(* What consensus rests on: who may sign for whom and who votes (Identity),*)
(* what the engine's screen answers about the blocks of correct nodes, and *)
(* what survives a commit (Engine).                                        *)
(***************************************************************************)
EXTENDS Identity, Engine, FiniteSetTheorems, TLAPS

-----------------------------------------------------------------------------
(* Identity *)

(***************************************************************************)
(* A row that was never written, or has been retired, has no keys and no   *)
(* request: without it a new row could inherit either.                     *)
(***************************************************************************)
Blank == \A m \in Ids : m \notin Member => keys[m] = {} /\ incoming[m] = {}

TypeInv == TypeOK /\ Blank

LEMMA TypeInit ==
    ASSUME Init
    PROVE  TypeInv
<1> USE IdentityAssumption DEF Init
<1>1. Cardinality(Founders) \in Nat
  BY FS_CardinalityType
<1>2. \A m \in Member : m < next
  BY DEF Member
<1>3. index \in [Keys -> Ids \cup {Nobody}]
  <2> SUFFICES ASSUME NEW k \in Keys, \E m \in Founders : FounderKey[m] = k
               PROVE  (CHOOSE m \in Founders : FounderKey[m] = k) \in Ids
    OBVIOUS
  <2> QED  OBVIOUS
<1>4. TypeOK
  BY <1>1, <1>2, <1>3 DEF TypeOK
<1>5. Blank
  BY DEF Blank, Member
<1> QED  BY <1>4, <1>5 DEF TypeInv

LEMMA TypeSeat ==
    ASSUME TypeInv, NEW k \in Keys, NEW by \in Ids, NEW S \in SignerSets, Seat(k, by, S)
    PROVE  TypeInv'
<1> USE IdentityAssumption DEF Seat, NextId, guard, rotation
<1>1. next \in Ids /\ next' = next + 1 /\ next \in Nat
  BY DEF TypeInv, TypeOK
<1>2. Member' = Member \cup {next}
  BY <1>1 DEF TypeInv, TypeOK, Member
<1>3. \A m \in Member' : m < next'
  BY <1>1, <1>2 DEF TypeInv, TypeOK
<1>4. TypeOK'
  BY <1>1, <1>3 DEF TypeInv, TypeOK
<1>5. Blank'
  BY <1>2 DEF TypeInv, TypeOK, Blank
<1> QED  BY <1>4, <1>5 DEF TypeInv

LEMMA TypeGuardians ==
    ASSUME TypeInv, NEW m \in Ids, NEW S \in SignerSets, Guarding(m, S)
    PROVE  TypeInv'
<1> USE IdentityAssumption
<1>1. ASSUME NEW o \in Offers, NEW w \in VetoFloor..MaxWindow, RegisterGuardians(m, o[1], o[2], w, S)
      PROVE  TypeInv'
  <2>1. o[1] \in SUBSET Ids /\ o[2] \in Nat /\ w \in Nat
    OBVIOUS
  <2>2. /\ guardians' = [guardians EXCEPT ![m] = o[1]] /\ threshold' = [threshold EXCEPT ![m] = o[2]]
        /\ window' = [window EXCEPT ![m] = w]
        /\ incoming' = [incoming EXCEPT ![m] = {}] /\ opened' = [opened EXCEPT ![m] = 0]
        /\ asked' = [asked EXCEPT ![m] = {}]
        /\ UNCHANGED <<epoch, next, status, keys, vote, joined, sponsor, index, validators>>
    BY <1>1 DEF RegisterGuardians, RequestWithdrawn
  <2> QED  BY <2>1, <2>2 DEF TypeInv, TypeOK, Blank, Member
<1>2. ASSUME NEW K \in SUBSET Keys, RotateRequest(m, K, S)
      PROVE  TypeInv'
  BY <1>2 DEF RotateRequest, guard, TypeInv, TypeOK, Blank, Member
<1>3. CASE RotateVeto(m, S)
  BY <1>3 DEF RotateVeto, RequestWithdrawn, guard, TypeInv, TypeOK, Blank, Member
<1> QED  BY <1>1, <1>2, <1>3 DEF Guarding

LEMMA TypeFinalize ==
    ASSUME TypeInv, NEW m \in Ids, RotateFinalize(m)
    PROVE  TypeInv'
<1> USE IdentityAssumption DEF RotateFinalize, RequestWithdrawn, guard
<1>1. TypeOK'
  BY DEF TypeInv, TypeOK, Member
<1>2. Blank'
  BY DEF TypeInv, TypeOK, Blank, Member
<1> QED  BY <1>1, <1>2 DEF TypeInv

\* A step that only moves statuses, consensus keys and validators keeps types.
LEMMA TypeStanding ==
    ASSUME TypeInv,
           status' \in [Ids -> {"none", "Active", "Suspended", "Exited"}], Member' = Member,
           vote' \in [Ids -> Keys \cup {NoKey}], validators' \subseteq Ids,
           UNCHANGED <<epoch, next, keys, guard, rotation, joined, sponsor, index>>
    PROVE  TypeInv'
<1>1. TypeOK'
  BY DEF TypeInv, TypeOK, guard, rotation
<1>2. Blank'
  BY DEF TypeInv, Blank, rotation
<1> QED  BY <1>1, <1>2 DEF TypeInv

LEMMA TypeSigned ==
    ASSUME TypeInv, NEW m \in Ids, NEW S \in SignerSets, Exit(m, S) \/ Voting(m, S)
    PROVE  TypeInv'
<1>1. CASE Exit(m, S)
  <2>1. status' \in [Ids -> {"none", "Active", "Suspended", "Exited"}] /\ Member' = Member
    BY <1>1 DEF Exit, Signed, TypeInv, TypeOK, Member
  <2> QED  BY <1>1, <2>1, TypeStanding DEF Exit, TypeInv, TypeOK
<1>2. CASE Voting(m, S)
  <2>1. vote' \in [Ids -> Keys \cup {NoKey}]
    BY <1>2, IdentityAssumption DEF Voting, SetConsensusKey, RetireConsensusKey, TypeInv, TypeOK
  <2>2. UNCHANGED <<epoch, next, status, keys, guard, rotation, joined, sponsor, index, validators>>
    BY <1>2 DEF Voting, SetConsensusKey, RetireConsensusKey
  <2>3. Member' = Member
    BY <2>2 DEF Member
  <2> QED  BY <2>1, <2>2, <2>3, TypeStanding DEF TypeInv, TypeOK
<1> QED  BY <1>1, <1>2

LEMMA TypeEnacted ==
    ASSUME TypeInv, NEW m \in Ids, Enacted(m)
    PROVE  TypeInv'
<1>1. status' \in [Ids -> {"none", "Active", "Suspended", "Exited"}] /\ Member' = Member
  BY DEF Enacted, Suspend, Unsuspend, GivePower, TakePower, TypeInv, TypeOK, Member
<1>2. validators' \subseteq Ids /\ UNCHANGED <<epoch, next, keys, vote, guard, rotation, joined, sponsor, index>>
  BY DEF Enacted, Suspend, Unsuspend, GivePower, TakePower, TypeInv, TypeOK
<1> QED  BY <1>1, <1>2, TypeStanding DEF TypeInv, TypeOK

LEMMA TypeBoundary ==
    ASSUME TypeInv, NEW e \in 1..MaxEpoch, NEW busy \in SUBSET Ids, BeginBlock(e, busy)
    PROVE  TypeInv'
<1> USE IdentityAssumption DEF BeginBlock, rotation
<1>1. TypeOK'
  BY DEF TypeInv, TypeOK, Member
<1>2. Blank'
  BY DEF TypeInv, TypeOK, Blank, Member, Empty
<1> QED  BY <1>1, <1>2 DEF TypeInv

LEMMA TypeStep ==
    ASSUME TypeInv, [Next]_vars
    PROVE  TypeInv'
<1>1. CASE UNCHANGED vars
  BY <1>1 DEF vars, guard, rotation, TypeInv, TypeOK, Blank, Member
<1>2. CASE Next
  BY <1>2, TypeSeat, TypeGuardians, TypeFinalize, TypeSigned, TypeEnacted, TypeBoundary DEF Next
<1> QED  BY <1>1, <1>2

\* Every variable keeps its type, and no id is ever given twice, whoever signs.
THEOREM IdentityTypeCorrect == Spec => []TypeOK
<1>1. Init => TypeInv
  BY TypeInit
<1>2. TypeInv /\ [Next]_vars => TypeInv'
  BY TypeStep
<1>3. TypeInv => TypeOK
  BY DEF TypeInv
<1> QED  BY <1>1, <1>2, <1>3, PTL DEF Spec

-----------------------------------------------------------------------------
(***************************************************************************)
(* One key, one member.  Inductive with: a key that a rotation has asked   *)
(* for is indexed to nobody, and no other rotation has asked for it, so    *)
(* the finalize that asks nothing again has nothing to overwrite.          *)
(***************************************************************************)
Apart == \A k \in Keys, m \in Ids :
            k \in incoming[m] => index[k] = Nobody /\ \A n \in Ids \ {m} : k \notin incoming[n]

KeyInv == TypeInv /\ OneKeyOneMember /\ Apart

LEMMA KeyInit ==
    ASSUME Init
    PROVE  KeyInv
<1>1. Apart
  BY DEF Init, Apart
<1>2. ASSUME NEW k \in Keys, NEW m \in Ids  PROVE index[k] = m <=> k \in keys[m]
  <2>1. CASE \E f \in Founders : FounderKey[f] = k
    <3>1. PICK f \in Founders : FounderKey[f] = k
      BY <2>1
    <3>2. \A g \in Founders : FounderKey[g] = k <=> g = f
      BY <3>1, IdentityAssumption
    <3>3. (CHOOSE g \in Founders : FounderKey[g] = k) = f
      BY <3>2
    <3> QED  BY <3>2, <3>3, <2>1, IdentityAssumption DEF Init
  <2>2. CASE ~ \E f \in Founders : FounderKey[f] = k
    BY <2>2, IdentityAssumption DEF Init
  <2> QED  BY <2>1, <2>2
<1> QED  BY <1>1, <1>2, TypeInit DEF KeyInv, OneKeyOneMember

\* What leaves the keys and their index alone, and asks for nothing new.
LEMMA KeyUnmoved ==
    ASSUME KeyInv, UNCHANGED <<keys, index>>, \A m \in Ids : incoming'[m] \subseteq incoming[m], TypeInv'
    PROVE  KeyInv'
BY DEF KeyInv, OneKeyOneMember, Apart

LEMMA KeySeat ==
    ASSUME KeyInv, NEW k \in Keys, NEW by \in Ids, NEW S \in SignerSets, Seat(k, by, S), TypeInv'
    PROVE  KeyInv'
<1>1. next \in Ids /\ next \notin Member /\ index[k] = Nobody /\ \A m \in Ids : k \notin incoming[m]
  BY IdentityAssumption DEF Seat, KeyIsClaimed, KeyInv, TypeInv, TypeOK, Member
<1>2. keys[next] = {}
  BY <1>1 DEF KeyInv, TypeInv, Blank
<1>3. /\ keys' = [keys EXCEPT ![next] = {k}] /\ index' = [index EXCEPT ![k] = next]
      /\ incoming' = incoming
  BY DEF Seat, rotation
<1>4. ASSUME NEW j \in Keys, NEW m \in Ids  PROVE index'[j] = m <=> j \in keys'[m]
  <2>1. index[j] = m <=> j \in keys[m]
    BY DEF KeyInv, OneKeyOneMember
  <2>2. index'[j] = (IF j = k THEN next ELSE index[j]) /\ keys'[m] = (IF m = next THEN {k} ELSE keys[m])
    BY <1>1, <1>3 DEF KeyInv, TypeInv, TypeOK
  <2> QED  BY <1>1, <1>2, <2>1, <2>2, IdentityAssumption
<1>5. Apart'
  BY <1>1, <1>3 DEF KeyInv, TypeInv, TypeOK, Apart
<1> QED  BY <1>4, <1>5 DEF KeyInv, OneKeyOneMember

LEMMA KeyGuardians ==
    ASSUME KeyInv, NEW m \in Ids, NEW S \in SignerSets, Guarding(m, S), TypeInv'
    PROVE  KeyInv'
<1>1. ASSUME NEW o \in Offers, NEW w \in VetoFloor..MaxWindow, RegisterGuardians(m, o[1], o[2], w, S)
      PROVE  KeyInv'
  <2>1. UNCHANGED <<keys, index>> /\ incoming' = [incoming EXCEPT ![m] = {}]
    BY <1>1 DEF RegisterGuardians, RequestWithdrawn
  <2> QED  BY <2>1, KeyUnmoved DEF KeyInv, TypeInv, TypeOK
<1>2. ASSUME NEW K \in SUBSET Keys, RotateRequest(m, K, S)
      PROVE  KeyInv'
  <2>1. UNCHANGED <<keys, index>> /\ incoming' = [incoming EXCEPT ![m] = K]
    BY <1>2 DEF RotateRequest
  <2>2. \A k \in K : index[k] = Nobody /\ \A n \in Ids : k \notin incoming[n]
    BY <1>2 DEF RotateRequest, KeyIsClaimed
  <2>3. Apart'
    BY <2>1, <2>2 DEF KeyInv, TypeInv, TypeOK, Apart
  <2> QED  BY <2>1, <2>3 DEF KeyInv, OneKeyOneMember
<1>3. CASE RotateVeto(m, S)
  <2>1. UNCHANGED <<keys, index>> /\ incoming' = [incoming EXCEPT ![m] = {}]
    BY <1>3 DEF RotateVeto, RequestWithdrawn
  <2> QED  BY <2>1, KeyUnmoved DEF KeyInv, TypeInv, TypeOK
<1> QED  BY <1>1, <1>2, <1>3 DEF Guarding

LEMMA KeyFinalize ==
    ASSUME KeyInv, NEW m \in Ids, RotateFinalize(m), TypeInv'
    PROVE  KeyInv'
<1>1. /\ index' = [k \in Keys |-> IF k \in incoming[m] THEN m
                                  ELSE IF k \in keys[m] THEN Nobody ELSE index[k]]
      /\ keys' = [keys EXCEPT ![m] = incoming[m]]
      /\ incoming' = [incoming EXCEPT ![m] = {}]
  BY DEF RotateFinalize, RequestWithdrawn
<1>2. ASSUME NEW k \in Keys, NEW n \in Ids  PROVE index'[k] = n <=> k \in keys'[n]
  <2>1. CASE k \in incoming[m]
    <3>1. index[k] = Nobody /\ k \notin keys[n]
      BY <2>1, IdentityAssumption DEF KeyInv, Apart, OneKeyOneMember
    <3> QED  BY <1>1, <2>1, <3>1 DEF KeyInv, TypeInv, TypeOK
  <2>2. CASE k \notin incoming[m]
    BY <1>1, <2>2, IdentityAssumption DEF KeyInv, TypeInv, TypeOK, OneKeyOneMember
  <2> QED  BY <2>1, <2>2
<1>3. Apart'
  BY <1>1, IdentityAssumption DEF KeyInv, TypeInv, TypeOK, Apart
<1> QED  BY <1>2, <1>3 DEF KeyInv, OneKeyOneMember

LEMMA KeyBoundary ==
    ASSUME KeyInv, NEW e \in 1..MaxEpoch, NEW busy \in SUBSET Ids, BeginBlock(e, busy), TypeInv'
    PROVE  KeyInv'
<1> DEFINE gone == Empty(e, busy)
<1>1. /\ index' = [k \in Keys |-> IF \E m \in gone : k \in keys[m] THEN Nobody ELSE index[k]]
      /\ keys' = [m \in Ids |-> IF m \in gone THEN {} ELSE keys[m]]
      /\ incoming' = incoming
  BY DEF BeginBlock, rotation
<1>2. gone \subseteq Ids
  BY DEF Empty, Member
<1> HIDE DEF gone
<1>3. OneKeyOneMember'
  BY <1>1, <1>2, IdentityAssumption DEF KeyInv, TypeInv, TypeOK, OneKeyOneMember
<1>4. Apart'
  BY <1>1 DEF KeyInv, Apart
<1> QED  BY <1>3, <1>4 DEF KeyInv

LEMMA KeyStep ==
    ASSUME KeyInv, [Next]_vars
    PROVE  KeyInv'
<1>1. TypeInv'
  BY TypeStep DEF KeyInv
<1>2. CASE UNCHANGED vars
  BY <1>1, <1>2, KeyUnmoved DEF vars, rotation
<1>3. ASSUME NEW m \in Ids, NEW S \in SignerSets, Exit(m, S) \/ Voting(m, S)  PROVE KeyInv'
  <2>1. UNCHANGED <<keys, index, incoming>>
    BY <1>3 DEF Exit, Voting, SetConsensusKey, RetireConsensusKey, rotation
  <2> QED  BY <1>1, <2>1, KeyUnmoved
<1>4. ASSUME NEW m \in Ids, Enacted(m)  PROVE KeyInv'
  <2>1. UNCHANGED <<keys, index, incoming>>
    BY <1>4 DEF Enacted, Suspend, Unsuspend, GivePower, TakePower, rotation
  <2> QED  BY <1>1, <2>1, KeyUnmoved
<1>5. CASE Next
  BY <1>1, <1>3, <1>4, <1>5, KeySeat, KeyGuardians, KeyFinalize, KeyBoundary DEF Next
<1> QED  BY <1>2, <1>5

\* One key speaks for one member, from both ends, through every seating,
\* rotation, veto and retirement and whoever signs them.
THEOREM OneKeyOneMemberAlways == Spec => []OneKeyOneMember
<1>1. Init => KeyInv
  BY KeyInit
<1>2. KeyInv /\ [Next]_vars => KeyInv'
  BY KeyStep
<1>3. KeyInv => OneKeyOneMember
  BY DEF KeyInv
<1> QED  BY <1>1, <1>2, <1>3, PTL DEF Spec

-----------------------------------------------------------------------------
(***************************************************************************)
(* A rotation answers to the guardians in force.  Inductive with: whoever  *)
(* asked for the request that stands is a threshold of them, because to    *)
(* replace the guardians is to withdraw the request.                       *)
(***************************************************************************)
Answerable ==
    \A m \in Ids :
        /\ guardians[m] # {} => window[m] >= VetoFloor /\ threshold[m] >= GuardianMin
        /\ incoming[m] # {} =>
              /\ guardians[m] # {}
              /\ asked[m] \subseteq guardians[m] /\ Cardinality(asked[m]) >= threshold[m]

LEMMA AnswerableGuardians ==
    ASSUME TypeInv, Answerable, NEW m \in Ids, NEW S \in SignerSets, Guarding(m, S)
    PROVE  Answerable'
<1>1. ASSUME NEW o \in Offers, NEW w \in VetoFloor..MaxWindow, RegisterGuardians(m, o[1], o[2], w, S)
      PROVE  Answerable'
  <2>1. /\ guardians' = [guardians EXCEPT ![m] = o[1]] /\ threshold' = [threshold EXCEPT ![m] = o[2]]
        /\ window' = [window EXCEPT ![m] = w]
        /\ incoming' = [incoming EXCEPT ![m] = {}] /\ asked' = [asked EXCEPT ![m] = {}]
    BY <1>1 DEF RegisterGuardians, RequestWithdrawn
  <2>2. w >= VetoFloor /\ o[2] >= GuardianMin
    BY <1>1, IdentityAssumption DEF RegisterGuardians
  <2> QED  BY <2>1, <2>2 DEF Answerable, TypeInv, TypeOK
<1>2. ASSUME NEW K \in SUBSET Keys, RotateRequest(m, K, S)
      PROVE  Answerable'
  <2> DEFINE signing == {g \in guardians[m] : Signed(g, S)}
  <2>1. /\ UNCHANGED <<guardians, threshold, window>>
        /\ incoming' = [incoming EXCEPT ![m] = K] /\ asked' = [asked EXCEPT ![m] = signing]
        /\ guardians[m] # {} /\ Cardinality(signing) >= threshold[m]
    BY <1>2 DEF RotateRequest, guard
  <2>2. signing \subseteq guardians[m]
    OBVIOUS
  <2> HIDE DEF signing
  <2> QED  BY <2>1, <2>2 DEF Answerable, TypeInv, TypeOK
<1>3. CASE RotateVeto(m, S)
  BY <1>3 DEF RotateVeto, RequestWithdrawn, guard, Answerable, TypeInv, TypeOK
<1> QED  BY <1>1, <1>2, <1>3 DEF Guarding

LEMMA AnswerableStep ==
    ASSUME TypeInv, Answerable, [Next]_vars
    PROVE  Answerable'
<1>1. CASE UNCHANGED vars
  BY <1>1 DEF vars, guard, rotation, Answerable
<1>2. ASSUME NEW S \in SignerSets, NEW k \in Keys, NEW by \in Ids, Seat(k, by, S)  PROVE Answerable'
  BY <1>2 DEF Seat, guard, rotation, Answerable
<1>3. ASSUME NEW S \in SignerSets, NEW m \in Ids, Exit(m, S) \/ Voting(m, S)  PROVE Answerable'
  BY <1>3 DEF Exit, Voting, SetConsensusKey, RetireConsensusKey, guard, rotation, Answerable
<1>4. ASSUME NEW m \in Ids, RotateFinalize(m)  PROVE Answerable'
  BY <1>4 DEF RotateFinalize, RequestWithdrawn, guard, Answerable, TypeInv, TypeOK
<1>5. ASSUME NEW m \in Ids, Enacted(m)  PROVE Answerable'
  BY <1>5 DEF Enacted, Suspend, Unsuspend, GivePower, TakePower, guard, rotation, Answerable
<1>6. ASSUME NEW e \in 1..MaxEpoch, NEW busy \in SUBSET Ids, BeginBlock(e, busy)  PROVE Answerable'
  <2> DEFINE gone == Empty(e, busy)
  <2>1. /\ guardians' = [m \in Ids |-> IF m \in gone THEN {} ELSE guardians[m]]
        /\ threshold' = [m \in Ids |-> IF m \in gone THEN 0 ELSE threshold[m]]
        /\ window' = [m \in Ids |-> IF m \in gone THEN 0 ELSE window[m]]
        /\ UNCHANGED <<incoming, asked>>
    BY <1>6 DEF BeginBlock, rotation
  <2>2. \A m \in gone : incoming[m] = {}
    BY DEF Empty
  <2> HIDE DEF gone
  <2> QED  BY <2>1, <2>2 DEF Answerable, TypeInv, TypeOK
<1>7. CASE Next
  BY <1>2, <1>3, <1>4, <1>5, <1>6, <1>7, AnswerableGuardians DEF Next
<1> QED  BY <1>1, <1>7

LEMMA ChangesStep ==
    ASSUME TypeInv, Answerable, Next
    PROVE  ChangesAreAuthorised
<1> SUFFICES ASSUME NEW m \in Member, keys'[m] # keys[m], status'[m] # "none"
             PROVE  /\ epoch >= opened[m] + window[m] /\ window[m] >= VetoFloor
                    /\ asked[m] \subseteq guardians[m] /\ Cardinality(asked[m]) >= threshold[m]
                    /\ threshold[m] >= GuardianMin
  BY DEF ChangesAreAuthorised
<1>1. m \in Ids
  BY DEF Member
<1>2. CASE RotateFinalize(m)
  BY <1>1, <1>2 DEF RotateFinalize, Answerable
<1>3. ASSUME NEW n \in Ids, RotateFinalize(n), n # m  PROVE FALSE
  BY <1>1, <1>3 DEF RotateFinalize, TypeInv, TypeOK
<1>4. ASSUME NEW S \in SignerSets, NEW k \in Keys, NEW by \in Ids, Seat(k, by, S)  PROVE FALSE
  <2>1. m # next
    BY DEF TypeInv, TypeOK
  <2> QED  BY <1>1, <1>4, <2>1 DEF Seat, TypeInv, TypeOK
<1>5. ASSUME NEW S \in SignerSets, NEW n \in Ids, Exit(n, S) \/ Guarding(n, S) \/ Voting(n, S)  PROVE FALSE
  BY <1>5 DEF Exit, Guarding, RegisterGuardians, RotateRequest, RotateVeto,
              Voting, SetConsensusKey, RetireConsensusKey
<1>6. ASSUME NEW n \in Ids, Enacted(n)  PROVE FALSE
  BY <1>6 DEF Enacted, Suspend, Unsuspend, GivePower, TakePower
<1>7. ASSUME NEW e \in 1..MaxEpoch, NEW busy \in SUBSET Ids, BeginBlock(e, busy)  PROVE FALSE
  BY <1>1, <1>7 DEF BeginBlock
<1> QED  BY <1>2, <1>3, <1>4, <1>5, <1>6, <1>7 DEF Next

\* Whatever guardians, vetoes and re-registrations interleave, an account's
\* keys change only at the word of a threshold of the guardians it then has,
\* given at least the veto window in force before.
THEOREM RotationIsAuthorisedAlways == Spec => RotationIsAuthorised
<1>1. Init => TypeInv /\ Answerable
  BY TypeInit DEF Init, Answerable
<1>2. TypeInv /\ Answerable /\ [Next]_vars => (TypeInv /\ Answerable)'
  BY TypeStep, AnswerableStep
<1>3. TypeInv /\ Answerable /\ [Next]_vars => [ChangesAreAuthorised]_vars
  BY ChangesStep
<1> QED  BY <1>1, <1>2, <1>3, PTL DEF Spec, RotationIsAuthorised

-----------------------------------------------------------------------------
(***************************************************************************)
(* What names a row keeps it.  Inductive with: a blank row names nobody,   *)
(* so the rows a boundary spares name only rows it spares.                 *)
(***************************************************************************)
Naming ==
    /\ NobodyNamedIsGone
    /\ \A m \in Ids : m \notin Member => guardians[m] = {} /\ sponsor[m] = Nobody

LEMMA NamingUnmoved ==
    ASSUME Naming, Member' = Member, UNCHANGED <<guardians, sponsor>>
    PROVE  Naming'
BY DEF Naming, NobodyNamedIsGone

LEMMA NamingStep ==
    ASSUME TypeInv, Naming, Next
    PROVE  Naming'
<1>1. ASSUME NEW S \in SignerSets, NEW k \in Keys, NEW by \in Ids, Seat(k, by, S)  PROVE Naming'
  <2>1. /\ next \in Ids /\ next \notin Member /\ by \in Member
        /\ status' = [status EXCEPT ![next] = "Active"]
        /\ sponsor' = [sponsor EXCEPT ![next] = by] /\ UNCHANGED guardians
    BY <1>1 DEF Seat, guard, TypeInv, TypeOK
  <2>2. Member' = Member \cup {next}
    BY <2>1 DEF Member, TypeInv, TypeOK
  <2> QED  BY <2>1, <2>2 DEF Naming, NobodyNamedIsGone, TypeInv, TypeOK
<1>2. ASSUME NEW S \in SignerSets, NEW m \in Ids, NEW o \in Offers, NEW w \in VetoFloor..MaxWindow,
             RegisterGuardians(m, o[1], o[2], w, S)
      PROVE  Naming'
  <2>1. /\ o[1] \subseteq Member /\ m \in Member
        /\ guardians' = [guardians EXCEPT ![m] = o[1]] /\ UNCHANGED <<status, sponsor>>
    BY <1>2 DEF RegisterGuardians, Signed
  <2>2. Member' = Member
    BY <2>1 DEF Member
  <2> QED  BY <2>1, <2>2 DEF Naming, NobodyNamedIsGone, TypeInv, TypeOK
<1>3. ASSUME NEW S \in SignerSets, NEW m \in Ids,
             \/ \E K \in SUBSET Keys : RotateRequest(m, K, S)
             \/ RotateVeto(m, S) \/ Voting(m, S)
      PROVE  Naming'
  <2>1. UNCHANGED <<status, guardians, sponsor>>
    BY <1>3 DEF RotateRequest, RotateVeto, Voting, SetConsensusKey, RetireConsensusKey, guard
  <2> QED  BY <2>1, NamingUnmoved DEF Member
<1>4. ASSUME NEW S \in SignerSets, NEW m \in Ids, Exit(m, S)  PROVE Naming'
  <2>1. Member' = Member /\ UNCHANGED <<guardians, sponsor>>
    BY <1>4 DEF Exit, Signed, guard, Member, TypeInv, TypeOK
  <2> QED  BY <2>1, NamingUnmoved
<1>5. ASSUME NEW m \in Ids, RotateFinalize(m) \/ Enacted(m)  PROVE Naming'
  <2>1. Member' = Member
    BY <1>5 DEF RotateFinalize, Enacted, Suspend, Unsuspend, GivePower, TakePower, Member, TypeInv, TypeOK
  <2>2. UNCHANGED <<guardians, sponsor>>
    BY <1>5 DEF RotateFinalize, Enacted, Suspend, Unsuspend, GivePower, TakePower, guard
  <2> QED  BY <2>1, <2>2, NamingUnmoved
<1>6. ASSUME NEW e \in 1..MaxEpoch, NEW busy \in SUBSET Ids, BeginBlock(e, busy)  PROVE Naming'
  <2> DEFINE gone == Empty(e, busy)
  <2>1. /\ status' = [m \in Ids |-> IF m \in gone THEN "none" ELSE status[m]]
        /\ guardians' = [m \in Ids |-> IF m \in gone THEN {} ELSE guardians[m]]
        /\ sponsor' = [m \in Ids |-> IF m \in gone THEN Nobody ELSE sponsor[m]]
    BY <1>6 DEF BeginBlock
  <2>2. \A m \in Member : guardians[m] \cap gone = {} /\ sponsor[m] \notin gone
    BY DEF Empty, Named
  <2>3. gone \subseteq Member
    BY DEF Empty
  <2> HIDE DEF gone
  <2>4. Member' = Member \ gone
    BY <2>1, <2>3 DEF Member
  <2>5. ASSUME NEW m \in Member'  PROVE guardians'[m] \subseteq Member' /\ sponsor'[m] \in Member' \cup {Nobody}
    <3>1. m \in Ids /\ m \in Member /\ m \notin gone
      BY <2>4 DEF Member
    <3>2. guardians'[m] = guardians[m] /\ sponsor'[m] = sponsor[m]
      BY <2>1, <3>1
    <3> QED  BY <2>2, <2>4, <3>1, <3>2 DEF Naming, NobodyNamedIsGone
  <2>6. ASSUME NEW m \in Ids, m \notin Member'  PROVE guardians'[m] = {} /\ sponsor'[m] = Nobody
    BY <2>1, <2>4, <2>6 DEF Naming
  <2>7. NobodyNamedIsGone'
    BY <2>5 DEF NobodyNamedIsGone
  <2> QED  BY <2>6, <2>7 DEF Naming
<1> QED  BY <1>1, <1>2, <1>3, <1>4, <1>5, <1>6 DEF Next, Guarding

\* No boundary retires a row that a guardian list or a seat still names.
THEOREM NobodyNamedIsGoneEver == Spec => []NobodyNamedIsGone
<1>1. Init => TypeInv /\ Naming
  <2> SUFFICES ASSUME Init  PROVE Naming
    BY TypeInit
  <2>1. guardians = [m \in Ids |-> {}] /\ sponsor = [m \in Ids |-> Nobody]
    BY DEF Init
  <2> QED  BY <2>1 DEF Naming, NobodyNamedIsGone, Member
<1>2. TypeInv /\ Naming /\ [Next]_vars => (TypeInv /\ Naming)'
  <2> SUFFICES ASSUME TypeInv, Naming, [Next]_vars  PROVE Naming'
    BY TypeStep
  <2>1. CASE UNCHANGED vars
    BY <2>1, NamingUnmoved DEF vars, guard, Member
  <2> QED  BY <2>1, NamingStep
<1>3. Naming => NobodyNamedIsGone
  BY DEF Naming
<1> QED  BY <1>1, <1>2, <1>3, PTL DEF Spec

-----------------------------------------------------------------------------
(***************************************************************************)
(* Consensus keeps voters it can name and count.  Inductive with: there    *)
(* are finitely many, and a blank row has no consensus key.                *)
(***************************************************************************)
Voters ==
    /\ \A v \in validators : status[v] = "Active" /\ vote[v] # NoKey
    /\ \A m, n \in Ids : m # n /\ vote[m] = vote[n] => vote[m] = NoKey
    /\ \A m \in Ids : m \notin Member => vote[m] = NoKey

Enough ==
    /\ IsFiniteSet(validators)
    /\ Cardinality(FirstValidators) >= MinValidators => Cardinality(validators) >= MinValidators

\* Whoever leaves the set leaves the floor standing.
LEMMA EnoughWithout ==
    ASSUME Enough, NEW m \in Ids, MayLose(m), validators' = validators \ {m}
    PROVE  Enough'
<1>1. IsFiniteSet(validators') /\ Cardinality(validators) \in Nat
  BY FS_RemoveElement, FS_CardinalityType DEF Enough
<1>2. CASE m \in validators
  <2>1. Cardinality(validators') = Cardinality(validators) - 1
    BY <1>2, FS_RemoveElement DEF Enough
  <2>2. Cardinality(validators) > MinValidators
    BY <1>2 DEF MayLose
  <2> QED  BY <1>1, <2>1, <2>2, IdentityAssumption DEF Enough
<1>3. CASE m \notin validators
  <2>1. validators' = validators
    BY <1>3
  <2> QED  BY <2>1 DEF Enough
<1> QED  BY <1>2, <1>3

LEMMA EnoughWith ==
    ASSUME Enough, NEW m \in Ids, validators' = validators \cup {m}
    PROVE  Enough'
<1>1. IsFiniteSet(validators') /\ Cardinality(validators) \in Nat
  BY FS_AddElement, FS_CardinalityType DEF Enough
<1>2. Cardinality(validators') = Cardinality(validators) \/ Cardinality(validators') = Cardinality(validators) + 1
  BY FS_AddElement DEF Enough
<1> QED  BY <1>1, <1>2, IdentityAssumption DEF Enough

LEMMA EnoughStep ==
    ASSUME TypeInv, Enough, [Next]_vars
    PROVE  Enough'
<1>1. CASE UNCHANGED validators
  BY <1>1 DEF Enough
<1>2. ASSUME NEW m \in Ids, NEW S \in SignerSets, Exit(m, S)  PROVE Enough'
  BY <1>2, EnoughWithout DEF Exit
<1>3. ASSUME NEW m \in Ids, Enacted(m)  PROVE Enough'
  <2>1. CASE Suspend(m) \/ TakePower(m)
    BY <2>1, EnoughWithout DEF Suspend, TakePower
  <2>2. CASE GivePower(m)
    BY <2>2, EnoughWith DEF GivePower
  <2>3. CASE Unsuspend(m)
    BY <2>3, <1>1 DEF Unsuspend
  <2> QED  BY <1>3, <2>1, <2>2, <2>3 DEF Enacted
<1>4. ASSUME NEW m \in Ids, NEW S \in SignerSets, Guarding(m, S) \/ Voting(m, S)  PROVE UNCHANGED validators
  BY <1>4 DEF Guarding, RegisterGuardians, RotateRequest, RotateVeto, Voting, SetConsensusKey, RetireConsensusKey
<1>5. ASSUME NEW k \in Keys, NEW by \in Ids, NEW S \in SignerSets, Seat(k, by, S)  PROVE UNCHANGED validators
  BY <1>5 DEF Seat
<1>6. ASSUME NEW m \in Ids, RotateFinalize(m)  PROVE UNCHANGED validators
  BY <1>6 DEF RotateFinalize
<1>7. ASSUME NEW e \in 1..MaxEpoch, NEW busy \in SUBSET Ids, BeginBlock(e, busy)  PROVE UNCHANGED validators
  BY <1>7 DEF BeginBlock
<1>8. CASE UNCHANGED vars
  BY <1>1, <1>8 DEF vars
<1> QED  BY <1>1, <1>2, <1>3, <1>4, <1>5, <1>6, <1>7, <1>8 DEF Next

LEMMA VotersStep ==
    ASSUME TypeInv, Voters, [Next]_vars
    PROVE  Voters'
<1>1. ASSUME UNCHANGED <<status, vote, validators>>  PROVE Voters'
  BY <1>1 DEF Voters, Member
<1>2. ASSUME NEW k \in Keys, NEW by \in Ids, NEW S \in SignerSets, Seat(k, by, S)  PROVE Voters'
  <2>1. next \in Ids /\ status' = [status EXCEPT ![next] = "Active"] /\ UNCHANGED <<vote, validators>>
    BY <1>2 DEF Seat
  <2> QED  BY <2>1 DEF Voters, Member, TypeInv, TypeOK
<1>3. ASSUME NEW m \in Ids, NEW S \in SignerSets, Exit(m, S)  PROVE Voters'
  BY <1>3 DEF Exit, Signed, Voters, Member, TypeInv, TypeOK
<1>4. ASSUME NEW m \in Ids, NEW S \in SignerSets, Voting(m, S)  PROVE Voters'
  <2>1. ASSUME NEW k \in Ballots, SetConsensusKey(m, k, S)  PROVE Voters'
    <3>1. /\ vote' = [vote EXCEPT ![m] = k] /\ k # NoKey /\ UNCHANGED <<status, validators>>
          /\ m \in Member /\ \A n \in Ids \ {m} : vote[n] # k
      BY <2>1, IdentityAssumption DEF SetConsensusKey, Signed
    <3> QED  BY <3>1 DEF Voters, Member, TypeInv, TypeOK
  <2>2. CASE RetireConsensusKey(m, S)
    BY <2>2 DEF RetireConsensusKey, Voters, Member, TypeInv, TypeOK
  <2> QED  BY <1>4, <2>1, <2>2 DEF Voting
<1>5. ASSUME NEW m \in Ids, Enacted(m)  PROVE Voters'
  BY <1>5 DEF Enacted, Suspend, Unsuspend, GivePower, TakePower, Voters, Member, TypeInv, TypeOK
<1>6. ASSUME NEW e \in 1..MaxEpoch, NEW busy \in SUBSET Ids, BeginBlock(e, busy)  PROVE Voters'
  <2> DEFINE gone == Empty(e, busy)
  <2>1. /\ status' = [m \in Ids |-> IF m \in gone THEN "none" ELSE status[m]]
        /\ vote' = [m \in Ids |-> IF m \in gone THEN NoKey ELSE vote[m]]
        /\ UNCHANGED validators
    BY <1>6 DEF BeginBlock
  <2>2. gone \cap validators = {}
    BY DEF Empty
  <2> HIDE DEF gone
  <2> QED  BY <2>1, <2>2 DEF Voters, Member, TypeInv, TypeOK
<1>7. ASSUME NEW m \in Ids, NEW S \in SignerSets, Guarding(m, S)  PROVE UNCHANGED <<status, vote, validators>>
  BY <1>7 DEF Guarding, RegisterGuardians, RotateRequest, RotateVeto
<1>8. ASSUME NEW m \in Ids, RotateFinalize(m)  PROVE UNCHANGED <<status, vote, validators>>
  BY <1>8 DEF RotateFinalize
<1>9. CASE UNCHANGED vars
  BY <1>1, <1>9 DEF vars
<1> QED  BY <1>1, <1>2, <1>3, <1>4, <1>5, <1>6, <1>7, <1>8, <1>9 DEF Next

\* Every validator is an active member with a consensus key no other member
\* has, and no exit, sanction or vote takes the set below its floor.
THEOREM QuorumStandsAlways == Spec => []QuorumStands
<1>1. Init => TypeInv /\ Voters /\ Enough
  <2> SUFFICES ASSUME Init  PROVE Voters /\ Enough
    BY TypeInit
  <2>1. /\ status = [m \in Ids |-> IF m \in Founders THEN "Active" ELSE "none"]
        /\ vote = [m \in Ids |-> IF m \in FirstValidators THEN FounderVote[m] ELSE NoKey]
        /\ validators = FirstValidators
    BY DEF Init
  <2>2. Voters
    BY <2>1, IdentityAssumption DEF Voters, Member
  <2>3. Enough
    BY <2>1, IdentityAssumption, FS_Subset DEF Enough
  <2> QED  BY <2>2, <2>3
<1>2. TypeInv /\ Voters /\ Enough /\ [Next]_vars => (TypeInv /\ Voters /\ Enough)'
  BY TypeStep, VotersStep, EnoughStep
<1>3. Voters /\ Enough => QuorumStands
  BY DEF Voters, Enough, QuorumStands, Member
<1> QED  BY <1>1, <1>2, <1>3, PTL DEF Spec

-----------------------------------------------------------------------------
(* Engine *)

One(S) == CHOOSE b \in S : TRUE

\* The block of height h that every chain at least that long has there.
OnChain(h) == IF h = 0 THEN Genesis ELSE One(decided[h])

Types ==
    /\ height \in [Nodes -> 0..MaxHeight] /\ up \in [Nodes -> BOOLEAN]
    /\ pending \in [Nodes -> SUBSET Blocks]
    /\ cache \in [Nodes -> [height : Nat, blocks : SUBSET Blocks]]
    /\ valid \in [Nodes -> SUBSET Blocks] /\ invalid \in [Nodes -> SUBSET Blocks]
    /\ decided \in [1..MaxHeight + 1 -> SUBSET built]
    /\ crashes \in 0..MaxCrashes

\* One block is decided at each height, and no chain is longer than that.
Agreement ==
    /\ \A h \in 1..MaxHeight + 1 : \A b, c \in decided[h] : b = c /\ b.height = h
    /\ \A n \in Nodes : \A h \in 1..height[n] : decided[h] # {}

\* What a correct node proposes is built on the decided block below it, by one
\* clock of the range.
WellBuilt(b) ==
    /\ b.height \in 1..MaxHeight /\ b.by \in Nodes /\ b.signed /\ b.sound
    /\ b.time \in Clock
    /\ b.height > 1 => decided[b.height - 1] # {}
    /\ b.app = Digest(OnChain(b.height - 1)) /\ b.time >= OnChain(b.height - 1).time

Chained == Types /\ Agreement /\ \A b \in built : WellBuilt(b)

LEMMA TipIsOnChain ==
    ASSUME NEW n \in Nodes
    PROVE  Tip(n) = OnChain(height[n])
BY DEF Tip, OnChain, One

\* The tip of a chain is the genesis block, or a block a correct node built.
LEMMA OnChainTime ==
    ASSUME Chained, NEW h \in 0..MaxHeight, h > 0 => decided[h] # {}
    PROVE  OnChain(h).time \in Clock /\ OnChain(h).height = h
<1> USE EngineAssumption
<1>1. CASE h = 0
  BY <1>1 DEF OnChain, Genesis, Block, Clock
<1>2. CASE h > 0
  <2>1. h \in 1..MaxHeight + 1 /\ OnChain(h) \in decided[h]
    BY <1>2 DEF OnChain, One
  <2>2. OnChain(h) \in built /\ OnChain(h).height = h
    BY <2>1 DEF Chained, Types, Agreement
  <2> QED  BY <2>2 DEF Chained, WellBuilt
<1> QED  BY <1>1, <1>2

\* What write_undecided leaves in a cache is as the cache was typed.
LEMMA WrittenIsTyped ==
    ASSUME NEW c, NEW S, NEW T, c \in [Nodes -> [height : Nat, blocks : SUBSET S]], S \subseteq T,
           NEW n \in Nodes, NEW h \in Nat, NEW B \in SUBSET T
    PROVE  /\ c \in [Nodes -> [height : Nat, blocks : SUBSET T]]
           /\ [c EXCEPT ![n] = Written(h, B)] \in [Nodes -> [height : Nat, blocks : SUBSET T]]
<1>1. Written(h, B) \in [height : Nat, blocks : SUBSET T]
  BY DEF Written
<1>2. [height : Nat, blocks : SUBSET S] \subseteq [height : Nat, blocks : SUBSET T]
  OBVIOUS
<1> QED  BY <1>1, <1>2

\* The sets of blocks a node keeps are sets of blocks after one is added.
LEMMA AddedIsTyped ==
    ASSUME NEW f, NEW S, NEW T, f \in [Nodes -> SUBSET S], S \subseteq T,
           NEW n \in Nodes, NEW B \in SUBSET T
    PROVE  /\ f \in [Nodes -> SUBSET T]
           /\ [f EXCEPT ![n] = @ \cup B] \in [Nodes -> SUBSET T]
           /\ [f EXCEPT ![n] = B] \in [Nodes -> SUBSET T]
OBVIOUS

LEMMA ChainedInit ==
    ASSUME EngineInit
    PROVE  Chained
<1> USE EngineAssumption DEF EngineInit, Written
<1>1. Types
  BY DEF Types
<1>2. Agreement
  BY DEF Agreement
<1> QED  BY <1>1, <1>2 DEF Chained

\* Where the decisions do not change, the chain does not, and what was built
\* stays well built.
LEMMA ChainedKept ==
    ASSUME Chained, Types', UNCHANGED decided, built \subseteq built',
           \A n \in Nodes : height'[n] \in 0..MaxHeight /\ \A h \in 1..height'[n] : decided[h] # {},
           \A b \in built' : b \in built \/ WellBuilt(b)
    PROVE  Chained'
<1>1. \A h : OnChain(h)' = OnChain(h)
  BY DEF OnChain
<1>2. Agreement'
  BY DEF Chained, Agreement
<1>3. \A b \in built' : WellBuilt(b)
  BY DEF Chained
<1>4. \A b \in built' : WellBuilt(b)'
  BY <1>1, <1>3 DEF WellBuilt
<1> QED  BY <1>2, <1>4 DEF Chained

LEMMA ChainedGetValue ==
    ASSUME Chained, NEW n \in Nodes, GetValue(n)
    PROVE  /\ Chained'
           /\ \E b : /\ b \notin built /\ b.by \in Nodes /\ b.signed /\ Follows(n, b)
                     /\ b.height = NextHeight(n)
                     /\ built' = built \cup {b}
                     /\ pending' = [pending EXCEPT ![n] = @ \cup {b}]
<1> USE EngineAssumption
<1> DEFINE Proposal(clock) == Block(NextHeight(n), ProposedTime(n, clock), n, Digest(Tip(n)))
<1>1. PICK clock \in Clock :
        /\ up[n] /\ height[n] < MaxHeight /\ Proposal(clock) \notin built
        /\ pending' = [pending EXCEPT ![n] = @ \cup {Proposal(clock)}]
        /\ cache' = [cache EXCEPT ![n] = Written(Proposal(clock).height, pending[n] \cup {Proposal(clock)})]
        /\ built' = built \cup {Proposal(clock)}
        /\ valid' = [valid EXCEPT ![n] = @ \cup {Proposal(clock)}]
        /\ UNCHANGED <<height, up, invalid, decided, crashes>>
  BY DEF GetValue
<1> DEFINE b == Proposal(clock)
<1>2. height[n] \in Nat /\ height[n] \in 0..MaxHeight /\ (height[n] > 0 => decided[height[n]] # {})
  BY DEF Chained, Types, Agreement
<1>3. Tip(n).time \in Clock
  BY <1>2, OnChainTime, TipIsOnChain
<1>4. /\ b.height = height[n] + 1 /\ b.by = n /\ b.signed /\ b.sound
      /\ b.app = Digest(Tip(n)) /\ b.time = Later(clock, Tip(n).time)
  BY DEF Block, NextHeight, ProposedTime
<1> HIDE DEF Proposal
<1>5. b.time \in Clock /\ b.time >= Tip(n).time
  BY <1>3, <1>4 DEF Later, Clock
<1>6. WellBuilt(b)
  BY <1>1, <1>2, <1>4, <1>5, TipIsOnChain DEF WellBuilt
<1>7. Types'
  <2>1. Blocks \subseteq Blocks' /\ b \in Blocks' /\ pending[n] \cup {b} \in SUBSET Blocks' /\ b.height \in Nat
    BY <1>1, <1>2, <1>4 DEF Chained, Types, Blocks
  <2>2. cache' \in [Nodes -> [height : Nat, blocks : SUBSET Blocks']]
    <3>1. cache \in [Nodes -> [height : Nat, blocks : SUBSET Blocks]]
      BY DEF Chained, Types
    <3> HIDE DEF b
    <3>2. [cache EXCEPT ![n] = Written(b.height, pending[n] \cup {b})]
            \in [Nodes -> [height : Nat, blocks : SUBSET Blocks']]
      BY <2>1, <3>1, WrittenIsTyped
    <3> QED  BY <1>1, <3>2 DEF b
  <2>3. /\ pending' \in [Nodes -> SUBSET Blocks'] /\ valid' \in [Nodes -> SUBSET Blocks']
        /\ invalid' \in [Nodes -> SUBSET Blocks']
    BY <1>1, <2>1, AddedIsTyped DEF Chained, Types
  <2>4. /\ UNCHANGED <<height, up, crashes>>
        /\ decided' \in [1..MaxHeight + 1 -> SUBSET built']
    BY <1>1 DEF Chained, Types
  <2> QED  BY <2>2, <2>3, <2>4 DEF Chained, Types
<1>8. Chained'
  BY <1>1, <1>6, <1>7, ChainedKept DEF Chained, Types, Agreement
<1>9. Follows(n, b) /\ b.height = NextHeight(n)
  BY <1>4, <1>5 DEF Follows, TimeIsMonotonic, NextHeight
<1> QED  BY <1>1, <1>4, <1>8, <1>9

LEMMA ChainedReceived ==
    ASSUME Chained, NEW n \in Nodes, NEW b \in Blocks, Received(n, b),
           UNCHANGED <<height, up, built, decided, crashes>>
    PROVE  Chained'
<1> USE EngineAssumption
<1>1. b.height \in Nat
  BY DEF Blocks, Chained, WellBuilt
<1>2. Types'
  <2>1. /\ Blocks' = Blocks /\ pending[n] \cup {b} \in SUBSET Blocks
        /\ \/ /\ pending' = [pending EXCEPT ![n] = @ \cup {b}]
              /\ cache' = [cache EXCEPT ![n] = Written(b.height, pending[n] \cup {b})]
              /\ valid' = [valid EXCEPT ![n] = @ \cup {b}]
              /\ UNCHANGED invalid
           \/ invalid' = [invalid EXCEPT ![n] = @ \cup {b}] /\ UNCHANGED <<pending, cache, valid>>
    BY DEF Received, Blocks, Chained, Types
  <2>2. CASE /\ pending' = [pending EXCEPT ![n] = @ \cup {b}]
             /\ cache' = [cache EXCEPT ![n] = Written(b.height, pending[n] \cup {b})]
             /\ valid' = [valid EXCEPT ![n] = @ \cup {b}]
             /\ UNCHANGED invalid
    <3>1. cache' \in [Nodes -> [height : Nat, blocks : SUBSET Blocks]]
      <4>1. cache \in [Nodes -> [height : Nat, blocks : SUBSET Blocks]]
        BY DEF Chained, Types
      <4>2. [cache EXCEPT ![n] = Written(b.height, pending[n] \cup {b})]
              \in [Nodes -> [height : Nat, blocks : SUBSET Blocks]]
        BY <1>1, <2>1, <4>1, WrittenIsTyped
      <4> QED  BY <2>2, <4>2
    <3>2. /\ pending' \in [Nodes -> SUBSET Blocks] /\ valid' \in [Nodes -> SUBSET Blocks]
      BY <2>1, <2>2, AddedIsTyped DEF Chained, Types
    <3> QED  BY <2>1, <2>2, <3>1, <3>2 DEF Chained, Types
  <2>3. CASE UNCHANGED <<pending, cache, valid>> /\ invalid' = [invalid EXCEPT ![n] = @ \cup {b}]
    <3>1. invalid' \in [Nodes -> SUBSET Blocks]
      BY <2>1, <2>3, AddedIsTyped DEF Chained, Types
    <3> QED  BY <2>1, <2>3, <3>1 DEF Chained, Types
  <2> QED  BY <2>1, <2>2, <2>3
<1> QED  BY <1>2, ChainedKept DEF Chained, Types, Agreement

LEMMA ChainedSynced ==
    ASSUME Chained, NEW n \in Nodes, NEW h \in Nat, ProcessSyncedValue(n, h)
    PROVE  \E b \in built : b \in decided[h] /\ Received(n, b)
<1>1. PICK m \in Nodes : h <= height[m] /\ height[n] < h
  BY DEF ProcessSyncedValue
<1>2. h \in 1..MaxHeight + 1
  BY <1>1, EngineAssumption DEF Chained, Types
<1> QED  BY <1>2 DEF ProcessSyncedValue, Chained, Types

LEMMA ChainedDecided ==
    ASSUME Chained, NEW n \in Nodes, Decided(n)
    PROVE  /\ Chained'
           /\ decided[NextHeight(n)] # {}
<1> USE EngineAssumption
<1>1. PICK b \in decided[NextHeight(n)] :
        /\ height' = [height EXCEPT ![n] = @ + 1]
        /\ pending' = [pending EXCEPT ![n] = {}]
        /\ cache' = cache \/ cache' = [cache EXCEPT ![n] = Written(b.height, {})]
        /\ invalid' = invalid \/ invalid' = [invalid EXCEPT ![n] = {}]
        /\ up' = up \/ up' = [up EXCEPT ![n] = FALSE]
        /\ crashes' = crashes \/ (crashes < MaxCrashes /\ crashes' = crashes + 1)
        /\ UNCHANGED <<built, valid, decided>>
  BY DEF Decided, AfterCommit
<1>2. height[n] \in Nat /\ NextHeight(n) = height[n] + 1 /\ NextHeight(n) \in 1..MaxHeight + 1
  BY DEF Chained, Types, NextHeight
<1>3. b \in built /\ b.height = NextHeight(n)
  BY <1>1, <1>2 DEF Chained, Types, Agreement
<1>4. NextHeight(n) \in 1..MaxHeight /\ b.height \in Nat
  BY <1>2, <1>3 DEF Chained, WellBuilt
<1>5. Types'
  <2>1. Blocks' = Blocks /\ {} \in SUBSET Blocks
    BY <1>1 DEF Blocks
  <2>2. cache' \in [Nodes -> [height : Nat, blocks : SUBSET Blocks]]
    <3>1. cache \in [Nodes -> [height : Nat, blocks : SUBSET Blocks]]
      BY DEF Chained, Types
    <3>2. [cache EXCEPT ![n] = Written(b.height, {})] \in [Nodes -> [height : Nat, blocks : SUBSET Blocks]]
      BY <1>4, <2>1, <3>1, WrittenIsTyped
    <3> QED  BY <1>1, <3>1, <3>2
  <2>3. pending' \in [Nodes -> SUBSET Blocks] /\ invalid' \in [Nodes -> SUBSET Blocks]
    <3>1. /\ pending \in [Nodes -> SUBSET Blocks]
          /\ invalid \in [Nodes -> SUBSET Blocks]
      BY DEF Chained, Types
    <3>2. /\ [pending EXCEPT ![n] = {}] \in [Nodes -> SUBSET Blocks]
          /\ [invalid EXCEPT ![n] = {}] \in [Nodes -> SUBSET Blocks]
      BY <2>1, <3>1
    <3> QED  BY <1>1, <3>1, <3>2
  <2>4. height' \in [Nodes -> 0..MaxHeight]
    BY <1>1, <1>2, <1>4 DEF Chained, Types
  <2>5. up' \in [Nodes -> BOOLEAN]
    BY <1>1 DEF Chained, Types
  <2>6. crashes' \in 0..MaxCrashes
    BY <1>1 DEF Chained, Types
  <2> QED  BY <1>1, <2>1, <2>2, <2>3, <2>4, <2>5, <2>6 DEF Chained, Types
<1>6. \A m \in Nodes : height'[m] \in 0..MaxHeight /\ \A h \in 1..height'[m] : decided[h] # {}
  BY <1>1, <1>2, <1>4 DEF Chained, Types, Agreement
<1> QED  BY <1>1, <1>5, <1>6, ChainedKept DEF Chained

LEMMA ChainedCrash ==
    ASSUME Chained, NEW n \in Nodes, Crash(n)
    PROVE  Chained'
<1> USE EngineAssumption
<1>1. cache' \in [Nodes -> [height : Nat, blocks : SUBSET Blocks]]
  <2>1. cache \in [Nodes -> [height : Nat, blocks : SUBSET Blocks]]
    BY DEF Chained, Types
  <2>2. [cache EXCEPT ![n] = Written(0, {})] \in [Nodes -> [height : Nat, blocks : SUBSET Blocks]]
    BY <2>1, WrittenIsTyped
  <2> QED  BY <2>1, <2>2 DEF Crash
<1>2. Types'
  <2>1. Blocks' = Blocks
    BY DEF Crash, Blocks
  <2>2. /\ pending' \in [Nodes -> SUBSET Blocks] /\ invalid' \in [Nodes -> SUBSET Blocks]
        /\ up' \in [Nodes -> BOOLEAN] /\ crashes' \in 0..MaxCrashes
    BY AddedIsTyped DEF Chained, Types, Crash
  <2> QED  BY <1>1, <2>1, <2>2 DEF Chained, Types, Crash
<1> QED  BY <1>2, ChainedKept DEF Chained, Types, Agreement, Crash

LEMMA ChainedRestart ==
    ASSUME Chained, NEW n \in Nodes, Restart(n)
    PROVE  Chained'
<1> USE EngineAssumption
<1>1. Types'
  BY DEF Chained, Types, Restart, Reloaded, Blocks
<1> QED  BY <1>1, ChainedKept DEF Chained, Types, Agreement, Restart

LEMMA ChainedRound ==
    ASSUME Chained, NEW n \in Nodes, StartedRound(n)
    PROVE  Chained'
<1> USE EngineAssumption
<1>1. Types'
  BY DEF Chained, Types, StartedRound, Offered, Blocks
<1> QED  BY <1>1, ChainedKept DEF Chained, Types, Agreement, StartedRound

\* A decision is new, so the chain below it stands.
LEMMA ChainedDecide ==
    ASSUME Chained, NEW b \in built, Decide(b)
    PROVE  /\ Chained'
           /\ \A h \in 0..MaxHeight : (h > 0 => decided[h] # {}) => OnChain(h)' = OnChain(h)
<1> USE EngineAssumption
<1>1. b.height \in 1..MaxHeight + 1 /\ b.height \in Nat /\ decided[b.height] = {}
  BY DEF Decide, Chained, WellBuilt
<1>2. /\ decided' = [decided EXCEPT ![b.height] = {b}]
      /\ UNCHANGED <<height, up, pending, cache, built, valid, invalid, crashes>>
  BY DEF Decide
<1>3. Types'
  BY <1>1, <1>2 DEF Chained, Types, Blocks
<1>4. \A h \in 1..MaxHeight + 1 : decided[h] # {} => decided'[h] = decided[h]
  BY <1>1, <1>2 DEF Chained, Types
<1>5. Agreement'
  BY <1>1, <1>2, <1>4 DEF Chained, Types, Agreement
<1>6. \A h \in 0..MaxHeight : (h > 0 => decided[h] # {}) => OnChain(h)' = OnChain(h)
  <2> SUFFICES ASSUME NEW h \in 0..MaxHeight, h > 0 => decided[h] # {}
               PROVE  OnChain(h)' = OnChain(h)
    OBVIOUS
  <2>1. h > 0 => decided'[h] = decided[h]
    BY <1>4
  <2> QED  BY <2>1 DEF OnChain
<1>7. ASSUME NEW c \in built'
      PROVE  WellBuilt(c)'
  <2>1. WellBuilt(c)
    BY <1>2, <1>7 DEF Chained
  <2>2. c.height - 1 \in 0..MaxHeight /\ (c.height - 1 > 0 => decided[c.height - 1] # {})
    BY <2>1 DEF WellBuilt
  <2>3. OnChain(c.height - 1)' = OnChain(c.height - 1)
    BY <1>6, <2>2
  <2>4. c.height > 1 => decided'[c.height - 1] # {}
    BY <1>4, <2>1, <2>2 DEF WellBuilt
  <2> QED  BY <2>1, <2>3, <2>4 DEF WellBuilt
<1> QED  BY <1>3, <1>5, <1>6, <1>7 DEF Chained

LEMMA ChainedStep ==
    ASSUME Chained, [EngineNext]_engineVars
    PROVE  Chained'
<1>1. ASSUME NEW n \in Nodes, GetValue(n) \/ StartedRound(n) \/ Decided(n) \/ Crash(n) \/ Restart(n)
      PROVE  Chained'
  BY <1>1, ChainedGetValue, ChainedRound, ChainedDecided, ChainedCrash, ChainedRestart
<1>2. ASSUME NEW n \in Nodes, NEW b \in Blocks, ReceivedProposal(n, b)
      PROVE  Chained'
  BY <1>2, ChainedReceived DEF ReceivedProposal
<1>3. ASSUME NEW n \in Nodes, NEW h \in 1..MaxHeight, ProcessSyncedValue(n, h)
      PROVE  Chained'
  <2>1. PICK b \in built : Received(n, b)
    BY <1>3, ChainedSynced
  <2> QED  BY <1>3, <2>1, ChainedReceived DEF ProcessSyncedValue, Blocks
<1>4. ASSUME NEW b \in built, Decide(b)
      PROVE  Chained'
  BY <1>4, ChainedDecide
<1>5. CASE UNCHANGED engineVars
  <2>1. Types'
    BY <1>5 DEF engineVars, Chained, Types, Blocks
  <2> QED  BY <1>5, <2>1, ChainedKept DEF engineVars, Chained, Types, Agreement
<1> QED  BY <1>1, <1>2, <1>3, <1>4, <1>5 DEF EngineNext, Blocks

LEMMA ChainedAlways == EngineSpec => []Chained
<1>1. EngineInit => Chained
  BY ChainedInit
<1>2. Chained /\ [EngineNext]_engineVars => Chained'
  BY ChainedStep
<1> QED  BY <1>1, <1>2, PTL DEF EngineSpec

\* Every variable has its type, and a block a correct node proposes names the
\* state of the height before its own (EngineTypeOK; engine_malachite.rs run).
THEOREM EngineTypeCorrect == EngineSpec => []EngineTypeOK
<1>1. Chained => EngineTypeOK
  <2> SUFFICES ASSUME Chained
               PROVE  EngineTypeOK
    OBVIOUS
  <2>1. ASSUME NEW b \in built
        PROVE  b.height \in 1..MaxHeight /\ b.app.height = b.height - 1
    <3>1. WellBuilt(b) /\ b.height - 1 \in 0..MaxHeight
      BY EngineAssumption DEF Chained, WellBuilt
    <3>2. OnChain(b.height - 1).height = b.height - 1
      BY <3>1, OnChainTime DEF WellBuilt
    <3> QED  BY <3>1, <3>2 DEF WellBuilt, Digest
  <2>2. ASSUME NEW h \in 1..MaxHeight + 1
        PROVE  Cardinality(decided[h]) <= 1
    <3>1. CASE decided[h] = {}
      BY <3>1, FS_EmptySet
    <3>2. CASE decided[h] # {}
      <4>1. PICK b : decided[h] = {b}
        BY <3>2 DEF Chained, Agreement
      <4>2. Cardinality({b}) = 1
        BY FS_Singleton
      <4> QED  BY <4>1, <4>2
    <3> QED  BY <3>1, <3>2
  <2>3. DOMAIN decided = 1..MaxHeight + 1
    BY DEF Chained, Types
  <2>4. \A n \in Nodes : cache[n].blocks \subseteq Blocks
    BY DEF Chained, Types
  <2> QED  BY <2>1, <2>2, <2>3, <2>4 DEF Chained, Types, EngineTypeOK
<1> QED  BY <1>1, ChainedAlways, PTL

-----------------------------------------------------------------------------
(***************************************************************************)
(* The screen and correct nodes.  Two clocks are never further apart than  *)
(* the skew the screen allows.                                             *)
(***************************************************************************)

\* A well built block passes the screen of every node, ahead or behind.
LEMMA ScreenPassesHonest ==
    ASSUME Drift <= Skew, Chained, NEW n \in Nodes, NEW b \in built, NEW clock \in Clock
    PROVE  Screen(n, b, clock)
<1> USE EngineAssumption
<1>1. WellBuilt(b) /\ height[n] \in 0..MaxHeight
  BY DEF Chained, Types
<1>2. TimeIsPlausible(b, clock)
  BY <1>1 DEF WellBuilt, TimeIsPlausible, Clock
<1>3. ASSUME b.height = NextHeight(n)
      PROVE  Follows(n, b)
  <2>1. b.height - 1 = height[n]
    BY <1>1, <1>3 DEF NextHeight
  <2> QED  BY <1>1, <2>1, TipIsOnChain DEF WellBuilt, Follows, TimeIsMonotonic
<1> QED  BY <1>1, <1>2, <1>3 DEF Screen, WellBuilt

LEMMA HonestReceived ==
    ASSUME Drift <= Skew, Chained, HonestIsNeverRefused, NEW n \in Nodes, NEW b \in Blocks,
           Received(n, b), UNCHANGED built
    PROVE  HonestIsNeverRefused'
<1>1. CASE b \in built
  <2>1. UNCHANGED invalid
    BY <1>1, ScreenPassesHonest DEF Received
  <2> QED  BY <2>1 DEF HonestIsNeverRefused
<1>2. CASE b \notin built
  <2>1. invalid' = [invalid EXCEPT ![n] = @ \cup {b}] \/ UNCHANGED invalid
    BY DEF Received
  <2>2. invalid \in [Nodes -> SUBSET Blocks]
    BY DEF Chained, Types
  <2>3. \A m \in Nodes : invalid'[m] \subseteq invalid[m] \cup {b}
    BY <2>1, <2>2
  <2> QED  BY <1>2, <2>3 DEF HonestIsNeverRefused
<1> QED  BY <1>1, <1>2

LEMMA HonestStep ==
    ASSUME Drift <= Skew, Chained, HonestIsNeverRefused, [EngineNext]_engineVars
    PROVE  HonestIsNeverRefused'
<1> USE EngineAssumption
<1>1. ASSUME NEW n \in Nodes, GetValue(n)
      PROVE  HonestIsNeverRefused'
  <2>1. PICK b : /\ b \notin built /\ b.by \in Nodes /\ b.signed
                 /\ built' = built \cup {b}
    BY <1>1, ChainedGetValue
  <2>2. b \notin Foreign
    BY <2>1
  <2>3. UNCHANGED invalid
    BY <1>1 DEF GetValue
  <2>4. \A m \in Nodes : b \notin invalid[m]
    BY <2>1, <2>2 DEF Chained, Types, Blocks
  <2> QED  BY <2>1, <2>3, <2>4 DEF HonestIsNeverRefused
<1>2. ASSUME NEW n \in Nodes, StartedRound(n) \/ Decided(n) \/ Crash(n) \/ Restart(n)
      PROVE  HonestIsNeverRefused'
  <2>1. UNCHANGED built /\ (UNCHANGED invalid \/ invalid' = [invalid EXCEPT ![n] = {}])
    BY <1>2 DEF StartedRound, Decided, Crash, Restart
  <2> QED  BY <2>1 DEF HonestIsNeverRefused, Chained, Types
<1>3. ASSUME NEW n \in Nodes, NEW b \in Blocks, ReceivedProposal(n, b)
      PROVE  HonestIsNeverRefused'
  BY <1>3, HonestReceived DEF ReceivedProposal
<1>4. ASSUME NEW n \in Nodes, NEW h \in 1..MaxHeight, ProcessSyncedValue(n, h)
      PROVE  HonestIsNeverRefused'
  <2>1. PICK b \in built : Received(n, b)
    BY <1>4, ChainedSynced
  <2> QED  BY <1>4, <2>1, HonestReceived DEF ProcessSyncedValue, Blocks
<1>5. ASSUME NEW b \in built, Decide(b)
      PROVE  HonestIsNeverRefused'
  BY <1>5 DEF Decide, HonestIsNeverRefused
<1>6. CASE UNCHANGED engineVars
  BY <1>6 DEF engineVars, HonestIsNeverRefused
<1> QED  BY <1>1, <1>2, <1>3, <1>4, <1>5, <1>6 DEF EngineNext, Blocks

\* As long as no two clocks are further apart than MAX_FUTURE_SKEW_SECS, no
\* node ever calls a correct node's block invalid: screen's answer halts no
\* node that it should not (engine_malachite.rs screen, block_time_is_*).
THEOREM HonestIsNeverRefusedAlways ==
    ASSUME Drift <= Skew
    PROVE  EngineSpec => []HonestIsNeverRefused
<1>1. EngineInit => HonestIsNeverRefused
  BY DEF EngineInit, HonestIsNeverRefused
<1>2. Chained /\ HonestIsNeverRefused /\ [EngineNext]_engineVars => HonestIsNeverRefused'
  BY HonestStep
<1> QED  BY <1>1, <1>2, ChainedAlways, PTL DEF EngineSpec

-----------------------------------------------------------------------------
(***************************************************************************)
(* What is handed back.  Until a node first crashes it is up, so nothing   *)
(* comes into pending but through the screen or by its own hand.           *)
(***************************************************************************)

HandedBack == crashes = 0 => \A n \in Nodes : up[n] /\ \A b \in Offered(n) : Follows(n, b)

\* What follows a tip follows it as long as the tip stays.
LEMMA FollowsKept ==
    ASSUME NEW n \in Nodes, NEW b, Tip(n)' = Tip(n), Follows(n, b)
    PROVE  Follows(n, b)'
BY DEF Follows, TimeIsMonotonic, Digest

\* A node whose pending only grew by a block that follows, if it is next.
LEMMA HandedBackAdded ==
    ASSUME HandedBack, Chained, NEW n \in Nodes, NEW b, UNCHANGED <<height, up, decided, crashes>>,
           b.height = NextHeight(n) => Follows(n, b),
           pending' = pending \/ pending' = [pending EXCEPT ![n] = @ \cup {b}]
    PROVE  HandedBack'
<1>1. \A m \in Nodes : Tip(m)' = Tip(m) /\ NextHeight(m)' = NextHeight(m)
  BY DEF Tip, NextHeight
<1>2. ASSUME crashes = 0, NEW m \in Nodes, NEW c \in Offered(m)'
      PROVE  Follows(m, c)
  <2>1. c \in pending'[m] /\ c.height = NextHeight(m)
    BY <1>1, <1>2 DEF Offered
  <2>2. c \in Offered(m) \/ (m = n /\ c = b)
    BY <2>1 DEF Offered, Chained, Types
  <2> QED  BY <1>2, <2>1, <2>2 DEF HandedBack
<1>3. ASSUME crashes = 0, NEW m \in Nodes, NEW c \in Offered(m)'
      PROVE  Follows(m, c)'
  BY <1>1, <1>2, <1>3, FollowsKept
<1> QED  BY <1>3 DEF HandedBack

LEMMA HandedBackReceived ==
    ASSUME HandedBack, Chained, NEW n \in Nodes, NEW b \in Blocks, Received(n, b),
           UNCHANGED <<height, up, decided, crashes>>
    PROVE  HandedBack'
<1>1. \/ UNCHANGED pending
      \/ /\ b.height = NextHeight(n) => Follows(n, b)
         /\ pending' = [pending EXCEPT ![n] = @ \cup {b}]
  BY DEF Received, Screen
<1>2. CASE UNCHANGED pending
  <2>1. \A m \in Nodes : Tip(m)' = Tip(m) /\ Offered(m)' = Offered(m)
    BY <1>2 DEF Tip, Offered, NextHeight
  <2> QED  BY <2>1, FollowsKept DEF HandedBack
<1> QED  BY <1>1, <1>2, HandedBackAdded

\* After a commit pending is empty, and no other node's tip moves.
LEMMA HandedBackDecided ==
    ASSUME HandedBack, Chained, NEW n \in Nodes, Decided(n)
    PROVE  HandedBack'
<1>1. /\ height' = [height EXCEPT ![n] = @ + 1] /\ UNCHANGED decided
      /\ pending' = [pending EXCEPT ![n] = {}]
      /\ UNCHANGED <<up, crashes>> \/ crashes' = crashes + 1
  BY DEF Decided, AfterCommit
<1>2. CASE crashes' = crashes + 1
  BY <1>2 DEF HandedBack, Chained, Types
<1>3. CASE UNCHANGED <<up, crashes>>
  <2>1. Offered(n)' = {}
    BY <1>1 DEF Offered, Chained, Types
  <2>2. \A m \in Nodes : m # n => Tip(m)' = Tip(m) /\ Offered(m)' = Offered(m)
    BY <1>1 DEF Tip, Offered, NextHeight, Chained, Types
  <2>3. ASSUME crashes = 0, NEW m \in Nodes, NEW c \in Offered(m)'
        PROVE  Follows(m, c)'
    BY <2>1, <2>2, <2>3, FollowsKept DEF HandedBack
  <2> QED  BY <1>3, <2>3 DEF HandedBack
<1> QED  BY <1>1, <1>2, <1>3

LEMMA HandedBackDecide ==
    ASSUME HandedBack, Chained, NEW b \in built, Decide(b)
    PROVE  HandedBack'
<1>1. UNCHANGED <<height, up, pending, crashes>>
  BY DEF Decide
<1>2. \A m \in Nodes : height[m] \in 0..MaxHeight /\ (height[m] > 0 => decided[height[m]] # {})
  BY EngineAssumption DEF Chained, Types, Agreement
<1>3. \A m \in Nodes : Tip(m)' = Tip(m) /\ Offered(m)' = Offered(m)
  <2>1. \A m \in Nodes : OnChain(height[m])' = OnChain(height[m])
    BY <1>1, <1>2, ChainedDecide
  <2>2. \A m \in Nodes : Tip(m)' = OnChain(height[m])'
    BY DEF Tip, OnChain, One
  <2> QED  BY <1>1, <2>1, <2>2, TipIsOnChain DEF Offered, NextHeight
<1> QED  BY <1>1, <1>3, FollowsKept DEF HandedBack

LEMMA HandedBackStep ==
    ASSUME HandedBack, Chained, [EngineNext]_engineVars
    PROVE  HandedBack'
<1> USE EngineAssumption
<1>1. ASSUME NEW n \in Nodes, GetValue(n)
      PROVE  HandedBack'
  <2>1. PICK b : Follows(n, b) /\ pending' = [pending EXCEPT ![n] = @ \cup {b}]
    BY <1>1, ChainedGetValue
  <2>2. UNCHANGED <<height, up, decided, crashes>>
    BY <1>1 DEF GetValue
  <2> QED  BY <2>1, <2>2, HandedBackAdded
<1>2. ASSUME NEW n \in Nodes, StartedRound(n)
      PROVE  HandedBack'
  BY <1>2 DEF StartedRound, HandedBack, Offered, NextHeight, Follows, TimeIsMonotonic, Tip
<1>3. ASSUME NEW n \in Nodes, Crash(n)
      PROVE  HandedBack'
  BY <1>3 DEF Crash, HandedBack, Chained, Types
<1>4. ASSUME NEW n \in Nodes, Restart(n)
      PROVE  HandedBack'
  BY <1>4 DEF Restart, HandedBack
<1>5. ASSUME NEW n \in Nodes, NEW b \in Blocks, ReceivedProposal(n, b)
      PROVE  HandedBack'
  BY <1>5, HandedBackReceived DEF ReceivedProposal
<1>6. ASSUME NEW n \in Nodes, NEW h \in 1..MaxHeight, ProcessSyncedValue(n, h)
      PROVE  HandedBack'
  <2>1. PICK b \in built : Received(n, b)
    BY <1>6, ChainedSynced
  <2> QED  BY <1>6, <2>1, HandedBackReceived DEF ProcessSyncedValue, Blocks
<1>7. CASE UNCHANGED engineVars
  BY <1>7 DEF engineVars, HandedBack, Offered, NextHeight, Follows, TimeIsMonotonic, Tip
<1> QED
  BY <1>1, <1>2, <1>3, <1>4, <1>5, <1>6, <1>7, HandedBackDecided, HandedBackDecide DEF EngineNext, Blocks

\* Until a crash, every block handed back to consensus as valid follows the
\* parent the node has now: one let in before its parent was known does not
\* outlive the commit of that parent (engine_malachite.rs StartedRound, Decided).
THEOREM HandedBackWouldPassAlways == EngineSpec => []HandedBackWouldPass
<1>1. EngineInit => HandedBack
  BY DEF EngineInit, HandedBack, Offered
<1>2. HandedBack /\ Chained /\ [EngineNext]_engineVars => HandedBack'
  BY HandedBackStep
<1>3. HandedBack => HandedBackWouldPass
  BY DEF HandedBack, HandedBackWouldPass
<1> QED  BY <1>1, <1>2, <1>3, ChainedAlways, PTL DEF EngineSpec
=============================================================================
