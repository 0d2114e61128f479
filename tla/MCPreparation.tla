----------------------------- MODULE MCPreparation -----------------------------
(* A small instance of Preparation: keys, handlers and source versions are   *)
(* interchangeable.                                                          *)
EXTENDS Preparation, TLC

Symmetric ==
    Permutations(Keys) \cup Permutations(Handlers) \cup Permutations(Sources)
=============================================================================
