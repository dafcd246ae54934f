---------------------------- MODULE MCJobLineage ----------------------------
(* An instance of JobLineage for TLC.                                      *)
EXTENDS JobLineage, TLC

CONSTANTS c1, c2, p1, p2, b1, b2

TwoCallers == {c1, c2}
TwoPatches == {p1, p2}
TwoBuilds  == {b1, b2}
FixAndNext == {"fix", "next"}

Alike == Permutations(TwoCallers) \cup Permutations(TwoPatches) \cup Permutations(TwoBuilds)
=============================================================================
