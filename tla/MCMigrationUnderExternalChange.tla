-------------------- MODULE MCMigrationUnderExternalChange --------------------
(* Small instances of MigrationUnderExternalChange for TLC. *)
EXTENDS MigrationUnderExternalChange, TLC

MCSchemaOf == [v \in Versions |-> v]
MCGenerationOf == [v \in Versions |-> v]

JobSymmetry == Permutations(Jobs)
=============================================================================
