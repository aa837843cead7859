-------------------------------- MODULE MCSale --------------------------------
(* Instance of Sale for TLC.                                                *)
EXTENDS Sale

Stakes(f) == [a \in Arcs |-> IF a \in DOMAIN f THEN f[a] ELSE 0]
Supplies(f) == [m \in Members |-> IF m \in DOMAIN f THEN f[m] ELSE 0]

\* what the next steps depend on
SaleView == <<epoch, book, supply, suspended, unit, listings>>

NoGuardians == [m \in Members |-> {}]

\* Bound: what is followed further is a book that another sale fits in, and what
\* a sale left in two live rows at most.  Every step out of these is checked.
Explored ==
    \/ book.next <= MaxRows
    \/ book.debt[1] > 0 /\ suspended = {} /\ Cardinality(LiveRows) <= 2

\* 0 underwrites; 2 sells to 1; 2 and 3 lend to each other
OneSupply == Supplies(0 :> 3)
Backing == Stakes(<<0, 1>> :> 2 @@ <<0, 2>> :> 2 @@ <<2, 3>> :> 1)
Loans == {<<2, 3, 3>>, <<3, 2, 2>>, <<2, 1, 1>>}
Breakdowns == {<<2, 2 :> 1 @@ 3 :> 2>>, <<2, 3 :> 1>>, <<3, 2 :> 1>>}
Offered == {<<2, 1, 3>>}
=============================================================================
