--------------------------- MODULE MCValidationRun ---------------------------
(* An instance of ValidationRun for TLC.                                   *)
EXTENDS ValidationRun

CONSTANTS v1, v2, v3

ThreeVMs == {v1, v2, v3}
=============================================================================
