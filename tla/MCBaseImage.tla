---------------------------- MODULE MCBaseImage ----------------------------
(* Two installations on one storage directory, and two releases: enough for*)
(* the storage to be taken twice, and for a list and an image that differ. *)
EXTENDS BaseImage
=============================================================================
