----------------------------- MODULE MCFreeList -----------------------------
(* Small pools for FreeList. *)
EXTENDS FreeList
=============================================================================
