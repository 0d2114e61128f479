---------------------------- MODULE MCPublication ----------------------------
(* Small instances of Publication for TLC.  The unit of time is a minute.    *)
EXTENDS Publication, TLC

Activity(id, start, length, priority, actor) ==
    [id |-> id, start |-> start, length |-> length, priority |-> priority, actor |-> actor]

(* Either change of its time can be made of it, but not one after the other.  *)
MCLessons ==
    {[declared |-> 6, activities |-> <<Activity(1, 0, 2, "essential", "student"),
                                       Activity(2, 2, 3, "compressible", "both"),
                                       Activity(3, 5, 1, "optional", "student")>>]}

MCChanges ==
    {[kind |-> "presentation_only"],
     [kind |-> "change_duration", duration |-> 4],
     [kind |-> "increase_independent_time", activity |-> 1, added |-> 2]}

Symmetry == Permutations(Keys) \cup Permutations(Handlers)

-----------------------------------------------------------------------------
(* The rules of a change for every schedule of up to three activities.       *)
Schedules ==
    UNION {{[i \in 1..n |-> Activity(i, 0, s[i].length, s[i].priority, s[i].actor)] :
              s \in [1..n -> [length : 1..3, priority : {"essential", "compressible", "optional"},
                              actor : {"student", "both"}]]} : n \in 1..3}

ASSUME FitScheduleIsExact ==
    \A activities \in Schedules : \A target \in Minimum(activities)..8 :
        IsFit(activities, target, FitSchedule(activities, target))

ASSUME AddIndependentTimeIsExact ==
    \A activities \in Schedules : \A id \in Ids(activities), added \in 1..2 :
        IsTarget(activities, id) /\ Given(activities, id, added).time = 0 =>
            HasMoreTime(activities, id, added, AddIndependentTime(activities, id, added))
=============================================================================
