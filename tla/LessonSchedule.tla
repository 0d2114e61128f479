----------------------------- MODULE LessonSchedule -----------------------------
(***************************************************************************)
(* What a change makes of a lesson (change/change.ts) and what the review    *)
(* of the result demands (lesson/build.ts).  Only the schedule is kept: an   *)
(* activity is its place, its length, who works and how dear it is.  The     *)
(* activities of a plan that the model proposed may overlap or leave gaps.   *)
(*                                                                         *)
(* No lesson of the application has links: remove_link finds no target.      *)
(***************************************************************************)
EXTENDS Naturals, Sequences

Seqs == INSTANCE SequencesExt

CONSTANTS
    Least,       \* what a compressible activity keeps: 60 s
    Shortest     \* the shortest lesson: 300 s

ASSUME ScheduleAssumption == Least \in Nat \ {0} /\ Shortest \in Nat

(* The activities of a lesson have different ids and all have a length       *)
(* (act_1, act_2, ... of buildLessonPlan; preparation/modelSpec.ts).         *)
Activities ==
    [id : Nat, start : Nat, length : Nat \ {0},
     priority : {"essential", "compressible", "optional"},
     actor : {"teacher", "student", "both"}]
IsSchedule(activities) ==
    /\ activities \in Seq(Activities)
    /\ \A i, j \in DOMAIN activities : activities[i].id = activities[j].id => i = j
IsLesson(lesson) ==
    lesson \in [declared : Nat, activities : Seq(Activities)] /\ IsSchedule(lesson.activities)

(* validateLessonChange: amounts are whole numbers. *)
IsChange(change) ==
    /\ change.kind = "change_duration" => change.duration \in Nat
    /\ change.kind = "increase_independent_time" => change.added \in Nat

-----------------------------------------------------------------------------
Ids(activities) == {activities[i].id : i \in DOMAIN activities}
Find(activities, id) == CHOOSE a \in Seqs!ToSet(activities) : a.id = id
LengthOf(activities, id) == Find(activities, id).length
Sum(numbers) == Seqs!FoldLeft(LAMBDA sum, number : sum + number, 0, numbers)
Total(activities) == Sum([i \in DOMAIN activities |-> activities[i].length])
Less(a, b) == IF a > b THEN a - b ELSE 0
Smaller(a, b) == IF a < b THEN a ELSE b

(* repack: the activities that are given a length follow one another. *)
Repack(activities, length) ==
    Seqs!FoldLeft(LAMBDA packed, a :
                    IF length[a.id] = 0 THEN packed
                    ELSE Append(packed, [a EXCEPT !.start = Total(packed),
                                                  !.length = length[a.id]]),
                  <<>>, activities)

-----------------------------------------------------------------------------
(* fitSchedule: the essential ones stay, compressible ones shrink to no less *)
(* than Least, optional ones stay if they fit whole.                         *)
Needs(a) ==
    CASE a.priority = "essential" -> a.length
      [] a.priority = "compressible" -> Least
      [] OTHER -> 0
Minimum(activities) == Sum([i \in DOMAIN activities |-> Needs(activities[i])])

Lengthen(left, a) ==
    LET extra == Smaller(Less(a.length, Least), left.time) IN
    IF a.priority # "compressible" THEN left
    ELSE [time |-> left.time - extra, length |-> [left.length EXCEPT ![a.id] = Least + extra]]

Keep(left, a) ==
    IF a.priority # "optional" \/ a.length > left.time THEN left
    ELSE [time |-> left.time - a.length, length |-> [left.length EXCEPT ![a.id] = a.length]]

FitSchedule(activities, target) ==
    LET begin == [time |-> target - Minimum(activities),
                  length |-> [id \in Ids(activities) |-> Needs(Find(activities, id))]]
        lengthened == Seqs!FoldLeft(Lengthen, begin, activities)
    IN  Repack(activities, Seqs!FoldLeft(Keep, lengthened, activities).length)

-----------------------------------------------------------------------------
(* addIndependentTime: the last optional activity gives first, then the      *)
(* compressible ones; time that nobody gives is left.                        *)
IsTarget(activities, id) == \E a \in Seqs!ToSet(activities) : a.id = id /\ a.actor = "student"
Floor(a) == IF a.priority = "compressible" THEN Least ELSE 0

Take(left, a) ==
    LET taken == Smaller(Less(left.length[a.id], Floor(a)), left.time)
    IN  [time |-> left.time - taken, length |-> [left.length EXCEPT ![a.id] = @ - taken]]

TakeFrom(priority, id, left, activities) ==
    Seqs!FoldLeft(LAMBDA now, a : IF a.priority = priority /\ a.id # id THEN Take(now, a) ELSE now,
                  left, Seqs!Reverse(activities))

Given(activities, id, added) ==
    LET begin == [time |-> added,
                  length |-> [i \in Ids(activities) |-> LengthOf(activities, i)]]
    IN  TakeFrom("compressible", id, TakeFrom("optional", id, begin, activities), activities)

AddIndependentTime(activities, id, added) ==
    Repack(activities, [Given(activities, id, added).length EXCEPT ![id] = @ + added])

-----------------------------------------------------------------------------
(* A change of the teacher.  The text of a task, of an answer range and of   *)
(* the presentation is not part of the schedule.                             *)
Semantic(change) == change.kind # "presentation_only"

(* ChangeBlockedError *)
Blocks(lesson, change) ==
    CASE change.kind = "change_duration" -> Minimum(lesson.activities) > change.duration
      [] change.kind = "increase_independent_time" ->
           \/ ~IsTarget(lesson.activities, change.activity)
           \/ Given(lesson.activities, change.activity, change.added).time > 0
      [] OTHER -> FALSE

Candidate(lesson, change) ==
    CASE change.kind = "change_duration" ->
           [declared |-> change.duration,
            activities |-> FitSchedule(lesson.activities, change.duration)]
      [] change.kind = "increase_independent_time" ->
           [lesson EXCEPT !.activities = AddIndependentTime(@, change.activity, change.added)]
      [] OTHER -> lesson

(* validateLessonPlan, as the review of a candidate takes it: what is too    *)
(* long is refused, what is too short is only noted.                         *)
PassesReview(lesson) ==
    /\ lesson.declared >= Shortest /\ lesson.activities # <<>>
    /\ \A a \in Seqs!ToSet(lesson.activities) : a.start + a.length <= lesson.declared

-----------------------------------------------------------------------------
(* The rules, without the order in which they are worked out.                *)

Has(activities, id) == id \in Ids(activities)
Follow(activities) ==
    /\ activities # <<>> => activities[1].start = 0
    /\ \A i \in 1..Len(activities) - 1 :
         activities[i + 1].start = activities[i].start + activities[i].length

(* What is essential stays, nothing is compressed below Least or while       *)
(* something optional is kept, and no time is wasted.                        *)
IsFit(activities, target, new) ==
    LET spare == Less(target, Total(new)) IN
    /\ Follow(new) /\ Total(new) <= target
    /\ \A a \in Seqs!ToSet(activities) :
         CASE a.priority = "essential" -> Has(new, a.id) /\ LengthOf(new, a.id) = a.length
           [] a.priority = "compressible" ->
                /\ Has(new, a.id) /\ LengthOf(new, a.id) >= Least
                /\ LengthOf(new, a.id) > Least => LengthOf(new, a.id) <= a.length
                /\ LengthOf(new, a.id) < a.length =>
                     spare = 0 /\ \A b \in Seqs!ToSet(new) : b.priority # "optional"
           [] OTHER -> IF Has(new, a.id) THEN LengthOf(new, a.id) = a.length
                       ELSE a.length > spare

(* The student gains what was asked for, the lesson gets no longer, what is  *)
(* essential keeps its time, and compressible time goes last.                *)
HasMoreTime(activities, id, added, new) ==
    /\ Follow(new) /\ Total(new) = Total(activities)
    /\ Has(new, id) /\ LengthOf(new, id) = LengthOf(activities, id) + added
    /\ \A a \in Seqs!ToSet(activities) : a.id # id =>
         CASE a.priority = "essential" -> Has(new, a.id) /\ LengthOf(new, a.id) = a.length
           [] a.priority = "compressible" ->
                /\ Has(new, a.id) /\ LengthOf(new, a.id) >= Smaller(Least, a.length)
                /\ LengthOf(new, a.id) < a.length =>
                     \A b \in Seqs!ToSet(new) : b.priority = "optional" => b.id = id
           [] OTHER -> Has(new, a.id) => LengthOf(new, a.id) <= a.length

(* What a change that was accepted has made of a lesson. *)
IsMade(lesson, change, new) ==
    /\ PassesReview(new)
    /\ new.declared = IF change.kind = "change_duration" THEN change.duration
                      ELSE lesson.declared
    /\ CASE change.kind = "change_duration" ->
              IsFit(lesson.activities, change.duration, new.activities)
         [] change.kind = "increase_independent_time" ->
              HasMoreTime(lesson.activities, change.activity, change.added, new.activities)
         [] OTHER -> new.activities = lesson.activities
=============================================================================
