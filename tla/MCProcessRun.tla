---------------------------- MODULE MCProcessRun ----------------------------
(* Two units of time, a limit of two chunks, and two chunks to each pipe:  *)
(* the deadline, the limit and the end of the output can meet in any order *)
(* with one pipe or two.                                                   *)
EXTENDS ProcessRun
=============================================================================
