--------------------------- MODULE MCSandboxCalls ---------------------------
(* Two callers and four calls: one to make the container, one to use it or *)
(* be killed, one to remove it, one more after that.                       *)
EXTENDS SandboxCalls, TLC
Symmetry == Permutations(Callers)
=============================================================================
