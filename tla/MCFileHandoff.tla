---------------------------- MODULE MCFileHandoff ----------------------------
(* Small instances of FileHandoff. *)
EXTENDS FileHandoff, TLC

Symmetric == Permutations(Requests)
=============================================================================
