------------------------------- MODULE MCOffers -------------------------------
(* A small instance of Offers: two members, and a key that is not one yet and   *)
(* buys from the second on two invitations.                                     *)
EXTENDS Offers

Trade(i, parties, byKey, buyer, seller) ==
    [id |-> i, parties |-> parties, need |-> 2, byKey |-> byKey, buyer |-> buyer, seller |-> seller]

Loan == Trade(1, {1, 2}, {}, 2, 1)
Sale == Trade(2, {1, 2}, {}, 2, 1)
Purchase == Trade(3, {2, 3}, {3}, 3, 2)
Another == Trade(4, {2, 3}, {3}, 3, 2)
MCOffers == {Loan, Sale, Purchase, Another}

Both(members, fresh) == [members |-> members, fresh |-> fresh, len |-> 2, min |-> 2]
Alone(m) == [members |-> {m}, fresh |-> {}, len |-> 1, min |-> 1]

Request(d, k, asks, inviter) ==
    [offer |-> d, signer |-> k, asks |-> asks, inviter |-> inviter, until |-> 0]

\* Of the sale, 2 asks for both and 1 for itself alone; the loan waits for 2,
\* who may decline it.
MCRequests ==
    {Request(Loan, 1, Both({1, 2}, {}), NoKey)}
    \cup {Request(Sale, 2, Both({1, 2}, {}), NoKey), Request(Sale, 1, Alone(1), NoKey)}
    \cup {Request(Purchase, 2, Both({2}, {3}), NoKey)}
    \cup {Request(d, 3, Both({2}, {3}), 2) : d \in {Purchase, Another}}

MCRefusals == {<<Loan, 2>>}
=============================================================================
