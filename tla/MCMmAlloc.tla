----------------------------- MODULE MCMmAlloc -----------------------------
(* Model-checking instances of MmAlloc. *)
EXTENDS MmAllocProps
=============================================================================
