----------------------------- MODULE MCGetPath -----------------------------
(* Small instances of GetPath. *)
EXTENDS GetPath
=============================================================================
