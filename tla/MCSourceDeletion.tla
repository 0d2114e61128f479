-------------------------- MODULE MCSourceDeletion --------------------------
(* Small instances of SourceDeletion for TLC. *)
EXTENDS SourceDeletion
=============================================================================
