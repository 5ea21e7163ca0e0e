------------------------------ MODULE MCBackup -------------------------------
(* A small instance of Backup. *)
EXTENDS Backup
=============================================================================
