----------------------------- MODULE MCModelCalls -----------------------------
(* Small instances of ModelCalls for TLC.                                   *)
EXTENDS ModelCalls, TLC

CONSTANTS Lesson, Analysis, Attribution, Poem

(* Two requests quote the same source, an attribution quotes none.          *)
MCSourceOf == [r \in Requests |-> IF r = Attribution THEN NoSource ELSE Poem]

CallSymmetry == Permutations(Calls)
=============================================================================
