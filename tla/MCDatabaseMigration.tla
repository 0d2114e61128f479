------------------------- MODULE MCDatabaseMigration -------------------------
(* Small instances of DatabaseMigration for TLC. *)
EXTENDS DatabaseMigration, TLC

(* Build 2 raises the schema and the data generation of build 1. *)
MCSchemaOf == [v \in Versions |-> v]
MCGenerationOf == [v \in Versions |-> v]

JobSymmetry == Permutations(Jobs)
=============================================================================
