------------------------------ MODULE MCUpdates ------------------------------
(* Small instances of Updates for TLC: two packages of one release, of which  *)
(* one is newer than the other.                                             *)
EXTENDS Updates, TLC
CONSTANTS a, b, r1
MCRelease == [p \in Packages |-> r1]
MCVersion == [p \in Packages |-> IF p = a THEN 1 ELSE 2]
MCSymmetry == Permutations(Calls) \cup Permutations(Keys)
=============================================================================
