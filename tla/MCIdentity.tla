------------------------------ MODULE MCIdentity ------------------------------
(* Instances of Identity for TLC.                                           *)
EXTENDS Identity, TLC

CONSTANTS a, b, x, y, p

MemberKeys == 0 :> a @@ 1 :> b
VoteKeys == 0 :> p

\* anyone alone, and two guardians together
OneOrBoth == {{k} : k \in Keys} \cup {{a, b}}

\* 1 stands for the founder 0, and alone or with 0 for the newcomer 2
TwoLists == {<<{1}, 1>>, <<{0, 1}, 2>>}
=============================================================================
