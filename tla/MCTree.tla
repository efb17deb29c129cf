------------------------------- MODULE MCTree -------------------------------
(* Small instances of Tree. *)
EXTENDS Tree
=============================================================================
