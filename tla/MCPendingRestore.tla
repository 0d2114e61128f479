--------------------------- MODULE MCPendingRestore ---------------------------
(* Small instances of PendingRestore for TLC.                               *)
EXTENDS PendingRestore, TLC

(* A bare database; one with its sidecars; everything.                      *)
MCPatterns == {{"database"},
               {"database", "wal", "shm"},
               Components}

JobSymmetry == Permutations(Jobs)
=============================================================================
