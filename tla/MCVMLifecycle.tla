--------------------------- MODULE MCVMLifecycle ---------------------------
(* Instances of VMLifecycle for TLC.                                       *)
EXTENDS VMLifecycle, TLC

CONSTANTS j1, j2, v1, v2, c1, c2, r

TwoJobs == {j1, j2}
OneJob == {j1}
TwoVMs == {v1, v2}
OneCaller == {c1}
TwoCallers == {c1, c2}
NoneForeign == {}
OneForeign == {v1}

DeployAndCleanup == {"deploy", "cleanup"}
DeployAndStatus == {"deploy", "status"}

CallersAndJobsAlike == Permutations(TwoCallers) \cup Permutations(TwoJobs)
=============================================================================
