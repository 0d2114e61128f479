------------------------------ MODULE MCFeedback ------------------------------
(* Small instances of Feedback for TLC: an observation that can be analysed   *)
(* and supports a transfer, and one whose sample is not known.                *)
EXTENDS Feedback, TLC

MCQualities ==
    {[aligned |-> TRUE, covered |-> TRUE, conditions |-> "independent later"],
     [aligned |-> TRUE, covered |-> FALSE, conditions |-> "same"]}

PlanSymmetry == Permutations(Plans)
=============================================================================
