----------------------------- MODULE PublishedSet -----------------------------
(***************************************************************************)
(* What the transactions over reports/release promise, without journals,     *)
(* backups or crashes: a set of files, each known by the execution that      *)
(* wrote it, in which one group changes at once or not at all.  When two     *)
(* transactions over one group overlap the promise is void.                 *)
(***************************************************************************)
EXTENDS Naturals

CONSTANTS
    Files,
    Groups,      \* the files that one transaction replaces
    MaxStamps,   \* executions that are told apart
    Void

VARIABLE set     \* the execution that wrote each file, 0 if there is none

PublishedInit == set = [f \in Files |-> 0]

(* All files of a group become those of one execution, newer than any.      *)
Switch ==
    /\ set # Void
    /\ \E group \in Groups, n \in 1..MaxStamps :
         /\ \A f \in Files : set[f] < n
         /\ set' = [f \in Files |-> IF f \in group THEN n ELSE set[f]]

Give == set' = Void

PublishedSpec == PublishedInit /\ [][Switch \/ Give]_set
=============================================================================
