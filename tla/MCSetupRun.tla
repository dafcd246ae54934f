----------------------------- MODULE MCSetupRun -----------------------------
(* Two setups: one that works, is ended or killed, and one beside or after *)
(* it.                                                                     *)
EXTENDS SetupRun
=============================================================================
