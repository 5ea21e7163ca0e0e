----------------------------- MODULE MCPrograms ------------------------------
(* The program engine for TLC. *)
EXTENDS Programs
==============================================================================
