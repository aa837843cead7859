------------------------------- MODULE MCLedger -------------------------------
(* Instances of Ledger for TLC.                                             *)
EXTENDS Ledger

Stakes(f) == [a \in Arcs |-> IF a \in DOMAIN f THEN f[a] ELSE 0]
Supplies(f) == [m \in Members |-> IF m \in DOMAIN f THEN f[m] ELSE 0]

\* what the next steps depend on: the signatures of the last one are history
BookView == <<epoch, book, supply, suspended, unit>>

NoGuardians == [m \in Members |-> {}]

\* two underwriters, 0 and 1, behind 2; 3 lends; 1, whom 0 backs, may take the debt
\* over, with or without 3's signature
TwoSupplies == Supplies(0 :> 2 @@ 1 :> 2)
TwoBackers == Stakes(<<0, 2>> :> 2 @@ <<1, 2>> :> 2 @@ <<0, 1>> :> 2)
LossDeals == {<<2, 3, 3>>}

\* what 3 lends 2 may be put to 1, who may find more than was agreed
OneArbiter == {[arbiters |-> {1}, quorum |-> 1, window |-> 1, cap |-> 4]}

\* one underwriter, 0, and a ring of three debts; 0 and 1 are 2's guardians
OneSupply == Supplies(0 :> 2)
OneBacked == Stakes(<<0, 1>> :> 2)
RingDeals == {<<1, 2, 2>>, <<2, 0, 4>>, <<0, 1, 2>>}
PairGuards == [m \in Members |-> IF m = 2 THEN {0, 1} ELSE {}]
Halved == {<<1, 2>>}

\* three underwriters of 4; 3 lends to it, and is a relay of 0's and 1's supply:
\* halved, what they carry to 3 rounds to nothing and the arc on from there does not
RelaySupply == Supplies(0 :> 3 @@ 1 :> 3 @@ 2 :> 2)
RelayStakes == Stakes(<<0, 4>> :> 2 @@ <<1, 4>> :> 2 @@ <<2, 4>> :> 2 @@ <<3, 4>> :> 2
                      @@ <<0, 3>> :> 1 @@ <<1, 3>> :> 1)
RelayDeals == {<<4, 3, 8>>}
=============================================================================
