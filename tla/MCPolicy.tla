------------------------------ MODULE MCPolicy ------------------------------
(* Small instances of Policy. *)
EXTENDS Policy
=============================================================================
