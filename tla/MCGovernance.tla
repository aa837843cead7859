----------------------------- MODULE MCGovernance -----------------------------
(* A small instance of Governance: two underwriters of equal weight, and a     *)
(* member who votes in consensus and may bring backing from outside.           *)
EXTENDS Governance

\* the third member's standing is the second's
MCBacking == [m \in Members |-> IF m = 3 THEN {2} ELSE {}]

MCSupply == [m \in Members |-> IF m \in {1, 2} THEN 2 ELSE 0]

Text(k, a, m, v) == [kind |-> k, author |-> a, of |-> m, value |-> v]

Sanctions == {Text("Suspend", 1, 2, 0), Text("Suspend", 1, 3, 0), Text("Unsuspend", 2, 2, 0),
              Text("Unsuspend", 3, 3, 0)}
Seating == {Text("Power", 3, 2, 1), Text("Power", 2, 1, 0)}
Units == {Text("BondFraction", 1, 1, 1), Text("Redenominate", 2, 2, 0)}
Growth == {Text("SeedRate", 2, 2, 2), Text("Amend", 3, 3, 1)}

MCAgenda == Sanctions \cup Seating \cup Units \cup Growth
=============================================================================
