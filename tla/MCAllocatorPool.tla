--------------------------- MODULE MCAllocatorPool ---------------------------
(* Small instances of AllocatorPool. *)
EXTENDS AllocatorPool
=============================================================================
