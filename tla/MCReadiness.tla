---------------------------- MODULE MCReadiness -----------------------------
(* Budgets of 1 to 4 s: of one attempt, of two equal ones, of halves that  *)
(* are rounded.                                                            *)
EXTENDS Readiness
MCTimeouts == 1..4
=============================================================================
