------------------------------ MODULE MCReplica ------------------------------
(* Instances of Replica for TLC.                                            *)
EXTENDS Replica

Set(W, k) == [who |-> W, key |-> [v \in Validators |-> IF v = "v1" THEN k ELSE "k0"]]

BothOld == Set({"v1", "v2"}, "k1")
BothNew == Set({"v1", "v2"}, "k2")
OneNew == Set({"v2"}, "k2")

TwoSets == {BothOld, BothNew}
ThreeSets == {BothOld, BothNew, OneNew}
OneSet == {BothOld}
=============================================================================
