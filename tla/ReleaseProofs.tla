----------------------------- MODULE ReleaseProofs -----------------------------
(***************************************************************************)
(* A release on its two sides, for every value of the constants.             *)
(* Where it is made (ReleaseSet): whatever commits, builds, executions and    *)
(* crashes, the transactions over reports/release switch a set of files at    *)
(* once, the files are where the journals say, and release:verify is right.   *)
(* Where it is staged (Updates): whatever calls and processes, the ledger and *)
(* the directories of an installation agree, and who is told that a package   *)
(* is staged finds it.                                                      *)
(***************************************************************************)
EXTENDS ReleaseSet, Updates, SequenceTheorems, WellFoundedInduction, TLAPS

-----------------------------------------------------------------------------
(* ReleaseSet.                                                              *)

Opening == {"read", "test", "prepare"}
Moving == {"aside", "publish", "commit", "recover", "undo", "finish"}

Stamped(x) == "stamp" \in DOMAIN x /\ x.stamp \in Nat

FilesShape ==
    /\ target = [f \in Files |-> target[f]]
    /\ backup = [s \in Scripts |-> [f \in Files |-> backup[s][f]]]
    /\ \A f \in Files : Stamped(target[f]) /\ \A s \in Scripts : Stamped(backup[s][f])
    /\ journal \in [Scripts -> Journals \cup {Nothing}]
    /\ stamp \in 0..MaxStamps /\ mixed \in BOOLEAN

Distinct(q) == \A i, j \in 1..Len(q) : i # j => q[i] # q[j]

(* A script that publishes: what is left of its files, and what it publishes. *)
Scripted ==
    /\ proc.script \in Scripts /\ proc.at \in Opening \cup Moving
    /\ proc = [script |-> proc.script, at |-> proc.at, rest |-> proc.rest, next |-> proc.next,
               id |-> proc.id, commit |-> proc.commit, dirty |-> proc.dirty,
               failed |-> proc.failed]
    /\ proc.rest \in Seq(Files) /\ Distinct(proc.rest)
    /\ ToSet(proc.rest) \subseteq Group(proc.script)
    /\ proc.next = [f \in Files |-> proc.next[f]]
    /\ \A f \in Files : Stamped(proc.next[f])
    /\ stamp > 0

(* While it moves files it has its journal, and files left to move. *)
ProcFits ==
    proc.script \in Scripts =>
      /\ proc.at \in Moving => journal[proc.script] # Nothing
      /\ proc.at \in {"aside", "publish", "commit", "undo"} =>
            journal[proc.script].phase = "PREPARED"
      /\ proc.at = "finish" => journal[proc.script].phase = "COMMITTED"
      /\ proc.at \in {"aside", "publish"} => proc.rest # <<>>

ProcShape ==
    \/ proc = Idle
    \/ /\ proc.script = "build" /\ proc.at \in {"compile", "bless"}
       /\ proc = [script |-> proc.script, at |-> proc.at, commit |-> proc.commit]
    \/ Scripted

-----------------------------------------------------------------------------
LEMMA Bounds == MaxStamps \in Nat /\ MaxFailures \in Nat /\ MaxRuns \in Nat
BY ReleaseAssumption

LEMMA RestOf ==
  ASSUME NEW q \in Seq(Files), Distinct(q), q # <<>>
  PROVE  /\ Head(q) \in ToSet(q) /\ Tail(q) \in Seq(Files) /\ Distinct(Tail(q))
         /\ ToSet(Tail(q)) = ToSet(q) \ {Head(q)}
         /\ Len(q) \in Nat /\ (Len(q) > 1 <=> Tail(q) # <<>>)
<1>1. /\ Len(q) \in Nat \ {0} /\ Tail(q) \in Seq(Files) /\ Len(Tail(q)) = Len(q) - 1
      /\ Head(q) = q[1] /\ \A i \in 1..Len(q) - 1 : Tail(q)[i] = q[i + 1]
  OBVIOUS
<1>2. Distinct(Tail(q))
  BY <1>1 DEF Distinct
<1>3. ToSet(Tail(q)) = ToSet(q) \ {Head(q)}
  <2>1. ASSUME NEW x \in ToSet(Tail(q)) PROVE x \in ToSet(q) \ {Head(q)}
    BY <1>1, <2>1 DEF ToSet, Distinct
  <2>2. ASSUME NEW x \in ToSet(q) \ {Head(q)} PROVE x \in ToSet(Tail(q))
    <3>1. PICK i \in 1..Len(q) : x = q[i] /\ i # 1
      BY <1>1, <2>2 DEF ToSet
    <3>2. i - 1 \in 1..Len(q) - 1 /\ Tail(q)[i - 1] = x
      BY <1>1, <3>1
    <3>3. DOMAIN Tail(q) = 1..Len(q) - 1
      BY <1>1
    <3> QED
      BY <3>2, <3>3 DEF ToSet
  <2> QED
    BY <2>1, <2>2
<1>4. Head(q) \in ToSet(q)
  BY <1>1 DEF ToSet
<1>5. Len(q) > 1 <=> Tail(q) # <<>>
  <2>1. Tail(q) = <<>> <=> Len(Tail(q)) = 0
    BY <1>1, EmptySeq
  <2> QED
    BY <1>1, <2>1
<1> QED
  BY <1>1, <1>2, <1>3, <1>4, <1>5

LEMMA EntriesOf ==
  ASSUME NEW s \in Scripts
  PROVE  /\ Entries[s] \in Seq(Files) /\ Distinct(Entries[s]) /\ Entries[s] # <<>>
         /\ ToSet(Entries[s]) = Group(s) /\ Group(s) \subseteq Files
<1>1. Entries[s] \in Seq(Files) /\ Distinct(Entries[s]) /\ Entries[s] # <<>>
  <2>1. CASE s = "acceptance"
    BY <2>1 DEF Entries, Distinct, Files
  <2>2. CASE s = "evidence"
    BY <2>2 DEF Entries, Distinct, Files
  <2>3. CASE s = "sbom"
    BY <2>3 DEF Entries, Distinct, Files
  <2> QED
    BY <2>1, <2>2, <2>3 DEF Scripts
<1> QED
  BY <1>1 DEF Group, ToSet

LEMMA AtScripted ==
  ASSUME ProcShape, proc.at \in Opening \cup Moving \/ proc.script \in Scripts
  PROVE  Scripted
BY DEF ProcShape, Idle, Opening, Moving, Scripts

-----------------------------------------------------------------------------
(* Stage 1: the shape of files and scripts.                                 *)
Shape == FilesShape /\ ProcShape /\ ProcFits

LEMMA InitShape == Init => Shape
<1> SUFFICES ASSUME Init PROVE Shape
  OBVIOUS
<1>1. Stamped(Absent)
  BY DEF Stamped, Absent
<1>2. FilesShape
  <2>1. target = NoFiles /\ backup = [s \in Scripts |-> NoFiles]
    BY DEF Init
  <2>2. NoFiles = [f \in Files |-> NoFiles[f]] /\ \A f \in Files : NoFiles[f] = Absent
    BY DEF NoFiles
  <2>3. /\ journal \in [Scripts -> Journals \cup {Nothing}]
        /\ stamp \in 0..MaxStamps /\ mixed \in BOOLEAN
    <3>1. journal = [s \in Scripts |-> Nothing] /\ stamp = 0 /\ mixed = FALSE
      BY DEF Init
    <3>2. journal \in [Scripts -> Journals \cup {Nothing}]
      BY <3>1
    <3>3. stamp \in 0..MaxStamps
      BY <3>1, Bounds
    <3>4. mixed \in BOOLEAN
      BY <3>1
    <3> QED
      BY <3>2, <3>3, <3>4
  <2> HIDE DEF NoFiles
  <2> QED
    BY <1>1, <2>1, <2>2, <2>3 DEF FilesShape
<1> QED
  BY <1>2 DEF Init, Shape, ProcShape, ProcFits, Idle, Scripts

(* Leaves: nothing of what the scripts publish changes. *)
LEMMA SameShape ==
  ASSUME Shape, UNCHANGED <<files, stamp, mixed>>, ProcShape',
         proc'.script \notin Scripts \/ proc'.at \notin Moving
  PROVE  Shape'
BY DEF Shape, FilesShape, files, ProcFits, Moving

LEMMA UserShape == ASSUME Shape, Edit \/ Commit \/ Withdraw PROVE Shape'
<1>1. UNCHANGED <<target, backup, journal, stamp, mixed, proc>>
  BY DEF Edit, Commit, Withdraw, Change, Disturb, files
<1> QED
  BY <1>1 DEF Shape, FilesShape, ProcShape, Scripted, ProcFits

LEMMA BuildShape == ASSUME Shape, StartBuild \/ Compile \/ Bless PROVE Shape'
<1>1. UNCHANGED <<files, stamp, mixed>>
  BY DEF StartBuild, Compile, Bless, Disturb, history
<1>2. CASE StartBuild
  BY <1>1, <1>2, SameShape DEF StartBuild, ProcShape, Scripts
<1>3. CASE Compile
  <2>1. proc.script = "build"
    BY <1>3 DEF Compile, Shape, ProcShape, Scripted, Idle, Opening, Moving
  <2>2. ProcShape' /\ proc'.script \notin Scripts
    BY <1>3, <2>1 DEF Compile, Shape, ProcShape, Scripted, Idle, Scripts
  <2> QED
    BY <1>1, <2>2, SameShape
<1>4. CASE Bless
  BY <1>1, <1>4, SameShape DEF Bless, ProcShape, Idle, Scripts
<1> QED
  BY <1>2, <1>3, <1>4

LEMMA StartShape == ASSUME Shape, NEW s \in Scripts, Start(s) PROVE Shape'
<1>1. /\ proc' = [script |-> s, at |-> IF journal[s] = Nothing THEN "read" ELSE "recover",
                  rest |-> Entries[s], next |-> NoFiles, id |-> Nothing, commit |-> head,
                  dirty |-> Dirty, failed |-> FALSE]
      /\ stamp' = stamp + 1 /\ stamp < MaxStamps /\ UNCHANGED <<files, mixed>>
  BY DEF Start
<1>2. FilesShape'
  BY <1>1, ReleaseAssumption DEF Shape, FilesShape, files
<1>3. \A f \in Files : Stamped(NoFiles[f])
  BY DEF NoFiles, Stamped, Absent
<1>4. /\ proc'.script = s /\ proc'.at \in {"read", "recover"} /\ proc'.rest = Entries[s]
      /\ proc'.next = NoFiles
      /\ proc' = [script |-> proc'.script, at |-> proc'.at, rest |-> proc'.rest,
                  next |-> proc'.next, id |-> proc'.id, commit |-> proc'.commit,
                  dirty |-> proc'.dirty, failed |-> proc'.failed]
  BY <1>1
<1>5. stamp' > 0
  BY <1>1 DEF Shape, FilesShape
<1>6. Scripted'
  BY <1>3, <1>4, <1>5, EntriesOf DEF Scripted, Opening, Moving, NoFiles
<1>7. ProcFits'
  BY <1>1 DEF ProcFits, Moving, Shape, FilesShape, files, Journals
<1> QED
  BY <1>2, <1>6, <1>7 DEF Shape, ProcShape

(* A script goes on with its files. *)
LEMMA GoesOnShape ==
  ASSUME Scripted, stamp' = stamp, NEW at \in Opening \cup Moving, NEW rest \in Seq(Files),
         Distinct(rest), ToSet(rest) \subseteq Group(proc.script),
         proc'.script = proc.script, proc'.at = at, proc'.rest = rest,
         proc' = [script |-> proc'.script, at |-> proc'.at, rest |-> proc'.rest,
                  next |-> proc'.next, id |-> proc'.id, commit |-> proc'.commit,
                  dirty |-> proc'.dirty, failed |-> proc'.failed],
         proc'.next = proc.next
  PROVE  ProcShape' /\ Scripted'
BY DEF Scripted, ProcShape

LEMMA CollectShape ==
  ASSUME Shape, BeginRun \/ PublishRun \/ Aggregation \/ SupplyChain \/ ReadFails
  PROVE  Shape'
<1>1. UNCHANGED <<files, stamp, mixed>>
  BY DEF BeginRun, PublishRun, Aggregation, SupplyChain, ReadFails, history
<1>2. Scripted
  BY AtScripted DEF BeginRun, PublishRun, Aggregation, SupplyChain, ReadFails, Opening, Shape
<1>3. CASE ReadFails
  BY <1>1, <1>3, SameShape DEF ReadFails, Fail, ProcShape, Idle, Scripts
<1>4. CASE BeginRun
  <2> DEFINE id == CHOOSE i \in Free : \A j \in Free : i <= j
  <2>1. proc' = [proc EXCEPT !.at = "test", !.id = id, !.commit = head, !.dirty = Dirty]
    BY <1>4 DEF BeginRun
  <2> HIDE DEF id
  <2>2. ProcShape' /\ proc'.at \notin Moving
    BY <1>1, <1>2, <2>1, GoesOnShape DEF Scripted, Opening, Moving
  <2> QED
    BY <1>1, <2>2, SameShape
<1>5. ASSUME NEW next, next = [f \in Files |-> next[f]], \A f \in Files : Stamped(next[f]),
             proc' = [proc EXCEPT !.at = "prepare", !.next = next]
      PROVE  Shape'
  <2>1. Scripted' /\ proc'.at \notin Moving
    BY <1>1, <1>2, <1>5 DEF Scripted, Opening, Moving
  <2> QED
    BY <1>1, <2>1, SameShape DEF ProcShape
<1>6. stamp \in Nat /\ Stamped(Absent)
  BY DEF Shape, FilesShape, Stamped, Absent
<1>7. CASE PublishRun
  <2> DEFINE c == [stamp |-> stamp, commit |-> proc.commit, bytes |-> bytes]
             i == [stamp |-> stamp, commit |-> proc.commit, run |-> proc.id]
             next == [NoFiles EXCEPT !.candidate = c, !.input = i]
  <2>1. proc' = [proc EXCEPT !.at = "prepare", !.next = next]
    BY <1>7 DEF PublishRun
  <2>2. Stamped(c) /\ Stamped(i)
    BY <1>6 DEF Stamped
  <2> HIDE DEF c, i
  <2>3. next = [f \in Files |-> next[f]] /\ \A f \in Files : Stamped(next[f])
    BY <1>6, <2>2 DEF NoFiles, Files
  <2> QED
    BY <1>5, <2>1, <2>3
<1>8. ASSUME NEW e, Stamped(e), Stamped(target.input)
      PROVE  /\ WithEvidence(e) = [f \in Files |-> WithEvidence(e)[f]]
             /\ \A f \in Files : Stamped(WithEvidence(e)[f])
  <2> DEFINE t == [stamp |-> stamp, of |-> e]
             i == [target.input EXCEPT !.stamp = stamp]
  <2>1. Stamped(t) /\ Stamped(i)
    BY <1>6, <1>8 DEF Stamped
  <2>2. WithEvidence(e) = [NoFiles EXCEPT !.evidence = e, !.texts = t, !.input = i]
    BY DEF WithEvidence
  <2> HIDE DEF t, i
  <2> QED
    BY <1>6, <1>8, <2>1, <2>2 DEF NoFiles, Files
<1>9. Stamped(target.input) /\ \A disk, n, states : n \in Nat => Stamped(Aggregate(disk, n, states))
  BY DEF Shape, FilesShape, Aggregate, Stamped, Files
<1>10. CASE Aggregation
  <2>1. proc' = [proc EXCEPT !.at = "prepare", !.next =
                   WithEvidence(Aggregate(target, stamp, SupplyStates(target)))]
    BY <1>10 DEF Aggregation
  <2> QED
    BY <1>5, <1>6, <1>8, <1>9, <2>1
<1>11. CASE SupplyChain
  <2> DEFINE run == target.input.run
             states == [sbom |-> "pass", sums |-> "pass", signature |-> Signature(bytes)]
             supply == [stamp |-> stamp, commit |-> reports[run].commit, bytes |-> bytes,
                        clean |-> SourceClean(run), lock |-> Lock[head],
                        signature |-> Signature(bytes)]
             e == Aggregate(target, stamp, states)
             next == [WithEvidence(e) EXCEPT
                        !.candidate = target.candidate, !.supply = supply]
             sums == [stamp |-> stamp, of |-> Sums(next, run)]
             all == [next EXCEPT !.candidate = Absent, !.sums = sums]
  <2>1. proc' = [proc EXCEPT !.at = "prepare", !.next = all]
    BY <1>11 DEF SupplyChain
  <2>2. Stamped(supply) /\ Stamped(sums) /\ Stamped(e) /\ Stamped(target.candidate)
    BY <1>6, <1>9 DEF Stamped, Shape, FilesShape, Files
  <2>3. /\ WithEvidence(e) = [f \in Files |-> WithEvidence(e)[f]]
        /\ \A f \in Files : Stamped(WithEvidence(e)[f])
    BY <1>8, <1>9, <2>2
  <2> HIDE DEF sums, supply, e
  <2>4. next = [f \in Files |-> next[f]] /\ \A f \in Files : Stamped(next[f])
    BY <2>2, <2>3 DEF Files
  <2> HIDE DEF next
  <2>5. all = [f \in Files |-> all[f]] /\ \A f \in Files : Stamped(all[f])
    BY <1>6, <2>2, <2>4 DEF Files
  <2> HIDE DEF all
  <2> QED
    BY <1>5, <2>1, <2>5
<1> QED
  BY <1>3, <1>4, <1>7, <1>10, <1>11

(* A script moves on along its files: to the next one, or to the next step.  *)
LEMMA StepRest ==
  ASSUME Scripted, NEW at, NEW then \in Moving, at \in Moving, stamp' = stamp, Step(at, then),
         proc.rest # <<>>
  PROVE  /\ Scripted' /\ proc.at = at /\ proc'.script = proc.script /\ proc'.next = proc.next
         /\ \/ /\ proc'.at = at /\ proc'.rest = Tail(proc.rest) /\ proc'.rest # <<>>
            \/ /\ proc'.at = then /\ proc'.rest = Entries[proc.script]
               /\ Tail(proc.rest) = <<>>
<1>1. /\ proc.at = at
      /\ proc' = IF Len(proc.rest) > 1 THEN [proc EXCEPT !.rest = Tail(@)]
                 ELSE [proc EXCEPT !.at = then, !.rest = Entries[proc.script]]
  BY DEF Step
<1>2. /\ Tail(proc.rest) \in Seq(Files) /\ Distinct(Tail(proc.rest))
      /\ ToSet(Tail(proc.rest)) \subseteq Group(proc.script)
      /\ Len(proc.rest) > 1 <=> Tail(proc.rest) # <<>>
  BY RestOf DEF Scripted
<1>3. CASE Len(proc.rest) > 1
  <2>1. proc' = [proc EXCEPT !.rest = Tail(@)]
    BY <1>1, <1>3
  <2> QED
    BY <1>1, <1>2, <1>3, <2>1, GoesOnShape DEF Scripted
<1>4. CASE ~(Len(proc.rest) > 1)
  <2>1. proc' = [proc EXCEPT !.at = then, !.rest = Entries[proc.script]]
    BY <1>1, <1>4
  <2>2. proc.script \in Scripts
    BY DEF Scripted
  <2> QED
    BY <1>1, <1>2, <1>4, <2>1, <2>2, GoesOnShape, EntriesOf DEF Scripted
<1> QED
  BY <1>3, <1>4

LEMMA HeadOf ==
  ASSUME Scripted, proc.rest # <<>>
  PROVE  /\ Head(proc.rest) \in ToSet(proc.rest) /\ Head(proc.rest) \in Group(proc.script)
         /\ Head(proc.rest) \in Files /\ proc.script \in Scripts
         /\ ToSet(Tail(proc.rest)) = ToSet(proc.rest) \ {Head(proc.rest)}
         /\ Tail(proc.rest) \in Seq(Files) /\ Distinct(Tail(proc.rest))
BY RestOf, EntriesOf DEF Scripted

LEMMA PrepareShape == ASSUME Shape, Prepare PROVE Shape'
<1>1. Scripted /\ proc.script \in Scripts
  BY AtScripted DEF Prepare, Opening, Shape, Scripted
<1> DEFINE had == {f \in Group(proc.script) : target[f] # Absent}
           own == [phase |-> "PREPARED", had |-> had]
<1>2. /\ journal' = [journal EXCEPT ![proc.script] = own]
      /\ proc' = [proc EXCEPT !.at = "aside", !.rest = Entries[proc.script]]
      /\ UNCHANGED <<target, backup, stamp>> /\ mixed' \in BOOLEAN
  BY DEF Prepare, Shape, FilesShape
<1>3. own \in Journals
  BY <1>1, EntriesOf DEF Journals
<1> HIDE DEF own
<1>4. FilesShape'
  BY <1>2, <1>3 DEF Shape, FilesShape
<1>5. ProcShape' /\ proc'.script = proc.script /\ proc'.at = "aside" /\ proc'.rest # <<>>
  BY <1>1, <1>2, GoesOnShape, EntriesOf DEF Scripted, Moving
<1>6. journal'[proc.script] = own /\ own # Nothing /\ own.phase = "PREPARED"
  BY <1>1, <1>2, <1>3, NothingAssumption DEF Shape, FilesShape, own
<1> QED
  BY <1>4, <1>5, <1>6 DEF Shape, ProcFits

LEMMA MoveShape == ASSUME Shape, MoveAside \/ Publish PROVE Shape'
<1>1. Scripted /\ proc.script \in Scripts /\ proc.rest # <<>> /\ proc.at \in {"aside", "publish"}
  BY AtScripted DEF MoveAside, Publish, Step, Moving, Shape, Scripted, ProcFits
<1>2. /\ \/ Step("aside", "publish") \/ Step("publish", "commit")
      /\ journal' = journal /\ stamp' = stamp /\ mixed' = mixed
  BY DEF MoveAside, Publish, history
<1>3. /\ Scripted' /\ proc'.script = proc.script
      /\ proc'.at \in {"aside", "publish", "commit"}
      /\ proc'.at \in {"aside", "publish"} => proc'.rest # <<>>
  BY <1>1, <1>2, StepRest, EntriesOf DEF Moving
<1>4. Head(proc.rest) \in Files
  BY <1>1, HeadOf
<1>5. Stamped(Absent)
  BY DEF Absent, Stamped
<1>6. FilesShape'
  <2>1. CASE MoveAside
    BY <1>1, <1>2, <1>4, <1>5, <2>1 DEF MoveAside, Shape, FilesShape
  <2>2. CASE Publish
    BY <1>1, <1>2, <1>4, <2>2 DEF Publish, Shape, FilesShape, Scripted
  <2> QED
    BY <2>1, <2>2
<1> QED
  BY <1>1, <1>2, <1>3, <1>6 DEF Shape, ProcFits, ProcShape, Moving

LEMMA CommitShape == ASSUME Shape, CommitSet PROVE Shape'
<1>1. Scripted /\ proc.script \in Scripts /\ proc.at = "commit" /\ journal[proc.script] \in Journals
  BY AtScripted DEF CommitSet, Moving, Shape, Scripted, ProcFits, FilesShape
<1>2. /\ journal' = [journal EXCEPT ![proc.script].phase = "COMMITTED"]
      /\ proc' = [proc EXCEPT !.at = "finish"]
      /\ UNCHANGED <<target, backup, stamp, mixed>>
  BY DEF CommitSet, Goes
<1>3. [journal[proc.script] EXCEPT !.phase = "COMMITTED"] \in Journals
  BY <1>1 DEF Journals
<1>4. /\ journal' \in [Scripts -> Journals \cup {Nothing}]
      /\ journal'[proc.script] \in Journals /\ journal'[proc.script].phase = "COMMITTED"
  BY <1>1, <1>2, <1>3 DEF Shape, FilesShape, Journals
<1>5. FilesShape'
  BY <1>2, <1>4 DEF Shape, FilesShape
<1>6. ProcShape' /\ proc'.script = proc.script /\ proc'.at = "finish"
  BY <1>1, <1>2, GoesOnShape DEF Scripted, Moving
<1> QED
  BY <1>4, <1>5, <1>6, NothingAssumption DEF Shape, ProcFits

LEMMA RecoveryShape ==
  ASSUME Shape, Rejected \/ RecoverEntry \/ RemoveTarget \/ Recovered \/ CommittedMissing
  PROVE  Shape'
<1>1. Scripted /\ proc.script \in Scripts /\ proc.at \in Moving /\ journal[proc.script] \in Journals
  BY AtScripted DEF Rejected, RecoverEntry, RemoveTarget, Recovered, CommittedMissing,
     Recovering, Moving, Shape, Scripted, ProcFits, FilesShape
<1>2. Stamped(Absent)
  BY DEF Absent, Stamped
<1>3. CASE Rejected
  <2>1. /\ proc' = [proc EXCEPT !.at = "undo", !.failed = TRUE, !.rest = Entries[proc.script]]
        /\ UNCHANGED <<target, backup, journal, stamp, mixed>> /\ proc.at = "commit"
    BY <1>3 DEF Rejected, Undo, files, history
  <2>2. ProcShape' /\ proc'.script = proc.script /\ proc'.at = "undo"
    BY <1>1, <2>1, GoesOnShape, EntriesOf DEF Scripted, Moving
  <2> QED
    BY <1>1, <2>1, <2>2 DEF Shape, ProcFits, FilesShape
<1>4. CASE RecoverEntry
  <2>1. /\ proc.rest # <<>> /\ proc' = [proc EXCEPT !.rest = Tail(@)] /\ Recovering
        /\ UNCHANGED <<journal, stamp, mixed>>
    BY <1>4 DEF RecoverEntry, history
  <2>2. ProcShape' /\ proc'.script = proc.script /\ proc'.at = proc.at
    BY <1>1, <2>1, GoesOnShape, HeadOf DEF Scripted
  <2>3. Head(proc.rest) \in Files
    BY <1>1, <2>1, HeadOf
  <2>4. FilesShape'
    <3> DEFINE f == Head(proc.rest)
    <3>1. Stamped(IF Own.phase = "PREPARED" THEN Restored(f) ELSE target[f])
      BY <1>1, <1>2, <2>3 DEF Restored, Shape, FilesShape
    <3>2. /\ target' = [target EXCEPT ![f] =
                          IF Own.phase = "PREPARED" THEN Restored(f) ELSE target[f]]
          /\ backup' = [backup EXCEPT ![proc.script][f] = Absent]
      BY <1>4 DEF RecoverEntry
    <3> QED
      BY <1>1, <1>2, <2>1, <2>3, <3>1, <3>2 DEF Shape, FilesShape
  <2> QED
    BY <1>1, <2>1, <2>2, <2>4 DEF Shape, ProcFits, Recovering
<1>5. CASE RemoveTarget
  <2>1. UNCHANGED <<proc, backup, journal, stamp, mixed>> /\ proc.rest # <<>>
    BY <1>5 DEF RemoveTarget, history
  <2>2. Head(proc.rest) \in Files
    BY <1>1, <2>1, HeadOf
  <2>3. FilesShape'
    BY <1>2, <1>5, <2>1, <2>2 DEF RemoveTarget, Shape, FilesShape
  <2> QED
    BY <2>1, <2>3 DEF Shape, ProcFits, ProcShape, Scripted
<1>6. CASE Recovered
  <2>1. /\ journal' = [journal EXCEPT ![proc.script] = Nothing]
        /\ UNCHANGED <<target, backup, stamp, mixed>>
        /\ Goes("read") \/ proc' = Idle
    BY <1>6 DEF Recovered, Fail
  <2>2. FilesShape'
    BY <1>1, <2>1 DEF Shape, FilesShape
  <2>3. ProcShape' /\ proc'.at \notin Moving
    <3>1. CASE Goes("read")
      BY <1>1, <2>1, <3>1, GoesOnShape DEF Scripted, Opening, Goes, Moving
    <3>2. CASE proc' = Idle
      BY <3>2 DEF ProcShape, Idle, Moving
    <3> QED
      BY <2>1, <3>1, <3>2
  <2> QED
    BY <2>2, <2>3 DEF Shape, ProcFits, Moving
<1>7. CASE CommittedMissing
  BY <1>7, SameShape DEF CommittedMissing, Fail, ProcShape, Idle, Scripts
<1> QED
  BY <1>3, <1>4, <1>5, <1>6, <1>7

LEMMA FailureShape == ASSUME Shape, FileError \/ Crash PROVE Shape'
<1>1. UNCHANGED <<files, stamp, mixed>>
  BY DEF FileError, Crash, history
<1>2. CASE proc' = Idle
  BY <1>1, <1>2, SameShape DEF ProcShape, Idle, Scripts
<1>3. CASE proc.at \in {"aside", "publish", "commit"} /\ Undo
  <2>1. Scripted /\ proc.script \in Scripts
    BY <1>3, AtScripted DEF Moving, Shape, Scripted
  <2>2. proc' = [proc EXCEPT !.at = "undo", !.failed = TRUE, !.rest = Entries[proc.script]]
    BY <1>3 DEF Undo
  <2>3. ProcShape' /\ proc'.script = proc.script /\ proc'.at = "undo"
    BY <1>1, <2>1, <2>2, GoesOnShape, EntriesOf DEF Scripted, Moving
  <2> QED
    BY <1>1, <1>3, <2>1, <2>3 DEF Shape, ProcFits, FilesShape, files, Moving
<1>4. CASE /\ proc.at = "finish"
           /\ proc' = [proc EXCEPT !.failed = TRUE, !.rest = Entries[proc.script]]
  <2>1. Scripted /\ proc.script \in Scripts
    BY <1>4, AtScripted DEF Moving, Shape, Scripted
  <2>2. ProcShape' /\ proc'.script = proc.script /\ proc'.at = "finish"
    BY <1>1, <1>4, <2>1, GoesOnShape, EntriesOf DEF Scripted, Moving
  <2> QED
    BY <1>1, <1>4, <2>1, <2>2 DEF Shape, ProcFits, FilesShape, files, Moving
<1> QED
  BY <1>2, <1>3, <1>4 DEF FileError, Crash, Fail

LEMMA StepShape == ASSUME Shape, [Next]_vars PROVE Shape'
<1>1. CASE UNCHANGED vars
  BY <1>1 DEF vars, repository, tree, candidate, files, history, counters, Shape, FilesShape,
     ProcShape, Scripted, ProcFits
<1> QED
  BY <1>1, UserShape, BuildShape, StartShape, CollectShape, PrepareShape, MoveShape,
     CommitShape, RecoveryShape, FailureShape
     DEF Next, User, Build, Collect, Transaction, Recovery

-----------------------------------------------------------------------------
(* Stage 2: what a journal says of the files of its script.                 *)
Left == ToSet(proc.rest)
Mine == Group(proc.script)

(* A backup lies under a journal, beside a file of its script.              *)
BackupsHaveJournals ==
    \A s \in Scripts, f \in Files :
        backup[s][f] # Absent => journal[s] # Nothing /\ f \in Group(s)

(* Moving aside: what is left is in place, the rest is in the backup.       *)
AsideDone ==
    proc.at = "aside" => \A f \in Mine :
      /\ f \in Left => backup[proc.script][f] = Absent /\ (f \in Own.had => target[f] # Absent)
      /\ f \notin Left => (f \in Own.had => backup[proc.script][f] # Absent)

(* Publishing: all that was there is in the backup.                         *)
PublishDone ==
    /\ proc.at \in {"publish", "commit"} => \A f \in Mine :
          f \in Own.had => backup[proc.script][f] # Absent
    /\ proc.at = "publish" => \A f \in Mine \ Left : target[f] = proc.next[f]
    /\ proc.at = "commit" => Left = Mine /\ \A f \in Mine : target[f] = proc.next[f]

(* Recovering: what is done has no backup, and is gone if it was new.        *)
RecoveryDone ==
    Recovering => \A f \in Mine \ Left :
      /\ backup[proc.script][f] = Absent
      /\ Own.phase = "PREPARED" /\ f \notin Own.had => target[f] = Absent

Moved ==
    /\ BackupsHaveJournals
    /\ proc.script \in Scripts =>
         /\ proc.at \in Opening => Own = Nothing
         /\ AsideDone /\ PublishDone /\ RecoveryDone

LEMMA InitMoved == Init => Moved
<1> SUFFICES ASSUME Init PROVE Moved
  OBVIOUS
<1>1. backup = [s \in Scripts |-> NoFiles] /\ proc = Idle
  BY DEF Init
<1>2. \A f \in Files : NoFiles[f] = Absent
  BY DEF NoFiles
<1> QED
  BY <1>1, <1>2 DEF Moved, BackupsHaveJournals, Idle, Scripts

(* Steps that leave the files alone, and are not moving any afterwards. *)
LEMMA OpeningMoved ==
  ASSUME Moved, UNCHANGED files, proc'.script \notin Scripts \/ proc'.at \in Opening,
         proc'.script \in Scripts => journal[proc'.script] = Nothing
  PROVE  Moved'
<1>1. BackupsHaveJournals'
  BY DEF Moved, BackupsHaveJournals, files
<1>2. proc'.script \in Scripts => proc'.at \in Opening /\ Own' = Nothing
  BY DEF Own, files
<1> QED
  BY <1>1, <1>2
     DEF Moved, AsideDone, PublishDone, RecoveryDone, Recovering, Opening

LEMMA PlainMoved ==
  ASSUME Shape, Moved, \/ Edit \/ Commit \/ Withdraw \/ StartBuild \/ Compile \/ Bless
                       \/ BeginRun \/ PublishRun \/ Aggregation \/ SupplyChain \/ ReadFails
                       \/ CommittedMissing \/ Crash
  PROVE  Moved'
<1>1. UNCHANGED files
  BY DEF Edit, Commit, Withdraw, StartBuild, Compile, Bless, BeginRun, PublishRun, Aggregation,
     SupplyChain, ReadFails, CommittedMissing, Crash
<1>2. CASE proc' = proc
  BY <1>1, <1>2 DEF Moved, BackupsHaveJournals, AsideDone, PublishDone, RecoveryDone,
     Recovering, Own, Mine, Left, files
<1>3. CASE proc' = Idle
  BY <1>1, <1>3, OpeningMoved DEF Idle, Scripts
<1>4. CASE StartBuild
  BY <1>1, <1>4, OpeningMoved DEF StartBuild, Scripts
<1>5. CASE Compile /\ proc' = [proc EXCEPT !.at = "bless"]
  <2>1. proc.script = "build" /\ proc' = [proc EXCEPT !.at = "bless"]
    BY <1>5 DEF Compile, Shape, ProcShape, Scripted, Idle, Opening, Moving
  <2>2. proc = [script |-> proc.script, at |-> proc.at, commit |-> proc.commit]
    BY <2>1 DEF Shape, ProcShape, Idle, Scripted, Scripts
  <2>3. proc'.script = "build"
    BY <2>1, <2>2
  <2> QED
    BY <1>1, <2>3, OpeningMoved DEF Scripts
<1>6. CASE BeginRun \/ PublishRun \/ Aggregation \/ SupplyChain
  <2>1. Scripted /\ proc.at \in Opening
    BY <1>6, AtScripted DEF BeginRun, PublishRun, Aggregation, SupplyChain, Opening, Shape
  <2>2. proc'.script = proc.script /\ proc'.at \in Opening
    BY <1>6, <2>1 DEF BeginRun, PublishRun, Aggregation, SupplyChain, Opening, Scripted
  <2> QED
    BY <1>1, <2>1, <2>2, OpeningMoved DEF Moved, Own, Scripted
<1> QED
  BY <1>2, <1>3, <1>4, <1>5, <1>6
     DEF Edit, Commit, Withdraw, Change, Compile, Bless, ReadFails, CommittedMissing, Fail, Crash

LEMMA StartMoved == ASSUME Shape, Moved, NEW s \in Scripts, Start(s) PROVE Moved'
<1>1. /\ proc' = [script |-> s, at |-> IF journal[s] = Nothing THEN "read" ELSE "recover",
                  rest |-> Entries[s], next |-> NoFiles, id |-> Nothing, commit |-> head,
                  dirty |-> Dirty, failed |-> FALSE]
      /\ UNCHANGED files
  BY DEF Start
<1>2. /\ proc'.script = s /\ proc'.rest = Entries[s]
      /\ proc'.at = IF journal[s] = Nothing THEN "read" ELSE "recover"
  BY <1>1
<1>3. CASE journal[s] = Nothing
  BY <1>1, <1>2, <1>3, OpeningMoved DEF Opening
<1>4. CASE journal[s] # Nothing
  <2>1. proc'.at = "recover" /\ Left' = Mine'
    BY <1>2, <1>4, EntriesOf DEF Left, Mine
  <2>2. BackupsHaveJournals'
    BY <1>1 DEF Moved, BackupsHaveJournals, files
  <2> QED
    BY <2>1, <2>2 DEF Moved, AsideDone, PublishDone, RecoveryDone, Recovering, Opening
<1> QED
  BY <1>3, <1>4

LEMMA PrepareMoved == ASSUME Shape, Moved, Prepare PROVE Moved'
<1>1. Scripted /\ proc.script \in Scripts /\ proc.at = "prepare" /\ Own = Nothing
  BY AtScripted DEF Prepare, Opening, Shape, Scripted, Moved
<1> DEFINE had == {f \in Mine : target[f] # Absent}
           own == [phase |-> "PREPARED", had |-> had]
<1>2. /\ journal' = [journal EXCEPT ![proc.script] = own]
      /\ proc' = [proc EXCEPT !.at = "aside", !.rest = Entries[proc.script]]
      /\ UNCHANGED <<target, backup>>
  BY DEF Prepare, Mine
<1>3. own \in Journals
  BY <1>1, EntriesOf DEF Journals, Mine
<1>4. own # Nothing
  BY <1>3, NothingAssumption
<1>5. /\ proc'.script = proc.script /\ proc'.at = "aside" /\ proc'.rest = Entries[proc.script]
      /\ Left' = Mine /\ Mine' = Mine
  BY <1>1, <1>2, EntriesOf DEF Scripted, Left, Mine
<1>6. Own' = own /\ Own'.had = had
  BY <1>1, <1>2, <1>5 DEF Own, Shape, FilesShape
<1>7. BackupsHaveJournals'
  BY <1>1, <1>2, <1>4 DEF Moved, BackupsHaveJournals, Shape, FilesShape
<1>8. AsideDone'
  BY <1>1, <1>2, <1>5, <1>6, EntriesOf DEF Moved, BackupsHaveJournals, AsideDone, Own, Mine
<1> QED
  BY <1>5, <1>7, <1>8 DEF Moved, PublishDone, RecoveryDone, Recovering, Opening

(* One file is moved aside. *)
LEMMA AsideStep ==
  ASSUME Shape, Moved, MoveAside
  PROVE  /\ Scripted /\ Scripted' /\ proc'.script = proc.script /\ proc'.next = proc.next
         /\ proc.at = "aside" /\ proc'.at \in {"aside", "publish"}
         /\ Mine' = Mine /\ Mine \subseteq Files /\ Own' = Own /\ journal' = journal
         /\ Head(proc.rest) \in Mine
         /\ proc'.at = "aside" => Left' = Left \ {Head(proc.rest)}
         /\ proc'.at = "publish" => Left' = Mine /\ Left = {Head(proc.rest)}
         /\ target' = [target EXCEPT ![Head(proc.rest)] =
                         IF Head(proc.rest) \in Own.had THEN Absent ELSE @]
         /\ \A s \in Scripts, f \in Files : backup'[s][f] =
               IF s = proc.script /\ f = Head(proc.rest) /\ f \in Own.had
               THEN target[f] ELSE backup[s][f]
<1>1. Scripted /\ proc.at = "aside" /\ proc.rest # <<>> /\ proc.script \in Scripts
  BY AtScripted DEF MoveAside, Step, Moving, Shape, Scripted, ProcFits
<1>2. /\ Scripted' /\ proc'.script = proc.script /\ proc'.next = proc.next
      /\ \/ /\ proc'.at = "aside" /\ proc'.rest = Tail(proc.rest)
         \/ /\ proc'.at = "publish" /\ proc'.rest = Entries[proc.script] /\ Tail(proc.rest) = <<>>
  <2>1. Step("aside", "publish") /\ stamp' = stamp
    BY DEF MoveAside
  <2> QED
    BY <1>1, <2>1, StepRest DEF Moving
<1>3. journal' = journal /\ Own' = Own /\ Mine' = Mine /\ Mine \subseteq Files
  BY <1>1, <1>2, EntriesOf DEF MoveAside, Own, Mine
<1>4. /\ Head(proc.rest) \in Mine /\ Head(proc.rest) \in Left /\ Head(proc.rest) \in Files
      /\ ToSet(Tail(proc.rest)) = Left \ {Head(proc.rest)}
  BY <1>1, HeadOf DEF Left, Mine
<1>5. proc'.at = "aside" => Left' = Left \ {Head(proc.rest)}
  BY <1>2, <1>4 DEF Left
<1>6. proc'.at = "publish" => Left' = Mine /\ Left = {Head(proc.rest)}
  <2> SUFFICES ASSUME proc'.at = "publish" PROVE Left' = Mine /\ Left = {Head(proc.rest)}
    OBVIOUS
  <2>1. proc'.rest = Entries[proc.script] /\ Tail(proc.rest) = <<>>
    BY <1>2
  <2>2. Left' = Mine
    BY <1>1, <2>1, EntriesOf DEF Left, Mine
  <2>3. ToSet(<<>>) = {}
    BY DEF ToSet
  <2> QED
    BY <1>4, <2>1, <2>2, <2>3
<1>7. /\ target' = [target EXCEPT ![Head(proc.rest)] =
                      IF Head(proc.rest) \in Own.had THEN Absent ELSE @]
      /\ backup' = [backup EXCEPT ![proc.script][Head(proc.rest)] =
                      IF Head(proc.rest) \in Own.had THEN target[Head(proc.rest)] ELSE @]
  BY DEF MoveAside, Own
<1>8. \A s \in Scripts, f \in Files : backup'[s][f] =
         IF s = proc.script /\ f = Head(proc.rest) /\ f \in Own.had
         THEN target[f] ELSE backup[s][f]
  BY <1>1, <1>4, <1>7 DEF Shape, FilesShape
<1> QED
  BY <1>1, <1>2, <1>3, <1>4, <1>5, <1>6, <1>7, <1>8

LEMMA AsideMoved == ASSUME Shape, Moved, MoveAside PROVE Moved'
<1> DEFINE h == Head(proc.rest)
<1>1. /\ Scripted /\ proc'.script = proc.script /\ proc.script \in Scripts
      /\ proc.at = "aside" /\ proc'.at \in {"aside", "publish"}
      /\ Mine' = Mine /\ Mine \subseteq Files /\ Own' = Own /\ journal' = journal /\ h \in Mine
      /\ proc'.at = "aside" => Left' = Left \ {h}
      /\ proc'.at = "publish" => Left' = Mine /\ Left = {h}
      /\ target' = [target EXCEPT ![h] = IF h \in Own.had THEN Absent ELSE @]
      /\ \A s \in Scripts, f \in Files : backup'[s][f] =
            IF s = proc.script /\ f = h /\ f \in Own.had THEN target[f] ELSE backup[s][f]
  BY AsideStep DEF Scripted
<1>2. Own # Nothing /\ AsideDone
  BY <1>1 DEF Shape, ProcFits, Moving, Own, Moved
<1>3. BackupsHaveJournals'
  BY <1>1, <1>2 DEF Moved, BackupsHaveJournals, Own, Mine
<1>4. h \in Left /\ \A f \in Files \ {h} : target'[f] = target[f]
  <2>1. h \in Left
    BY <1>1, HeadOf DEF Left, Shape, ProcFits
  <2> QED
    BY <1>1, <2>1 DEF Shape, FilesShape
<1>5. AsideDone'
  BY <1>1, <1>2, <1>4 DEF AsideDone
<1>6. PublishDone'
  BY <1>1, <1>2, <1>4 DEF AsideDone, PublishDone
<1> QED
  BY <1>1, <1>3, <1>5, <1>6 DEF Moved, RecoveryDone, Recovering, Opening

LEMMA PublishStep ==
  ASSUME Shape, Moved, Publish
  PROVE  /\ Scripted /\ Scripted' /\ proc'.script = proc.script /\ proc'.next = proc.next
         /\ proc.at = "publish" /\ proc'.at \in {"publish", "commit"}
         /\ Mine' = Mine /\ Mine \subseteq Files /\ Own' = Own
         /\ journal' = journal /\ backup' = backup
         /\ Head(proc.rest) \in Mine
         /\ proc'.at = "publish" => Left' = Left \ {Head(proc.rest)}
         /\ proc'.at = "commit" => Left' = Mine /\ Left = {Head(proc.rest)}
         /\ target' = [target EXCEPT ![Head(proc.rest)] = proc.next[Head(proc.rest)]]
<1>1. Scripted /\ proc.at = "publish" /\ proc.rest # <<>> /\ proc.script \in Scripts
  BY AtScripted DEF Publish, Step, Moving, Shape, Scripted, ProcFits
<1>2. /\ Scripted' /\ proc'.script = proc.script /\ proc'.next = proc.next
      /\ \/ /\ proc'.at = "publish" /\ proc'.rest = Tail(proc.rest)
         \/ /\ proc'.at = "commit" /\ proc'.rest = Entries[proc.script] /\ Tail(proc.rest) = <<>>
  <2>1. Step("publish", "commit") /\ stamp' = stamp
    BY DEF Publish
  <2> QED
    BY <1>1, <2>1, StepRest DEF Moving
<1>3. /\ journal' = journal /\ backup' = backup /\ Own' = Own /\ Mine' = Mine
      /\ Mine \subseteq Files
      /\ target' = [target EXCEPT ![Head(proc.rest)] = proc.next[Head(proc.rest)]]
  BY <1>1, <1>2, EntriesOf DEF Publish, Own, Mine
<1>4. /\ Head(proc.rest) \in Mine /\ Head(proc.rest) \in Left /\ Head(proc.rest) \in Files
      /\ ToSet(Tail(proc.rest)) = Left \ {Head(proc.rest)}
  BY <1>1, HeadOf DEF Left, Mine
<1>5. proc'.at = "publish" => Left' = Left \ {Head(proc.rest)}
  BY <1>2, <1>4 DEF Left
<1>6. proc'.at = "commit" => Left' = Mine /\ Left = {Head(proc.rest)}
  <2>1. ToSet(<<>>) = {}
    BY DEF ToSet
  <2>2. ToSet(Entries[proc.script]) = Mine
    BY <1>1, EntriesOf DEF Mine
  <2> QED
    BY <1>2, <1>4, <2>1, <2>2 DEF Left
<1> QED
  BY <1>1, <1>2, <1>3, <1>4, <1>5, <1>6

LEMMA PublishMoved == ASSUME Shape, Moved, Publish PROVE Moved'
<1> DEFINE h == Head(proc.rest)
<1>1. /\ Scripted /\ proc'.script = proc.script /\ proc.script \in Scripts
      /\ proc'.next = proc.next
      /\ proc.at = "publish" /\ proc'.at \in {"publish", "commit"}
      /\ Mine' = Mine /\ Mine \subseteq Files /\ Own' = Own /\ h \in Mine
      /\ journal' = journal /\ backup' = backup
      /\ proc'.at = "publish" => Left' = Left \ {h}
      /\ proc'.at = "commit" => Left' = Mine /\ Left = {h}
      /\ target' = [target EXCEPT ![h] = proc.next[h]]
  BY PublishStep DEF Scripted
<1>2. PublishDone /\ BackupsHaveJournals'
  BY <1>1 DEF Moved, BackupsHaveJournals
<1>3. target'[h] = proc.next[h] /\ \A f \in Files \ {h} : target'[f] = target[f]
  BY <1>1 DEF Shape, FilesShape
<1>4. PublishDone'
  BY <1>1, <1>2, <1>3 DEF PublishDone
<1> QED
  BY <1>1, <1>2, <1>4 DEF Moved, AsideDone, RecoveryDone, Recovering, Opening

LEMMA CommitMoved == ASSUME Shape, Moved, CommitSet PROVE Moved'
<1>1. /\ Scripted /\ proc.script \in Scripts /\ proc.at = "commit" /\ Own \in Journals
  BY AtScripted DEF CommitSet, Moving, Shape, Scripted, ProcFits, FilesShape, Own
<1>2. /\ journal' = [journal EXCEPT ![proc.script].phase = "COMMITTED"]
      /\ proc' = [proc EXCEPT !.at = "finish"] /\ UNCHANGED <<target, backup>>
  BY DEF CommitSet, Goes
<1>3. /\ proc'.at = "finish" /\ proc'.script = proc.script /\ proc'.rest = proc.rest
      /\ Left' = Left /\ Mine' = Mine
  BY <1>1, <1>2 DEF Scripted, Left, Mine
<1>4. [Own EXCEPT !.phase = "COMMITTED"] \in Journals
  BY <1>1 DEF Journals
<1>5. /\ \A s \in Scripts : s # proc.script => journal'[s] = journal[s]
      /\ journal'[proc.script] # Nothing /\ Own'.phase = "COMMITTED"
  BY <1>1, <1>2, <1>3, <1>4, NothingAssumption DEF Own, Shape, FilesShape, Journals
<1>6. BackupsHaveJournals'
  BY <1>1, <1>2, <1>5 DEF Moved, BackupsHaveJournals, Own
<1>7. Left = Mine
  BY <1>1 DEF Moved, PublishDone
<1> QED
  BY <1>3, <1>6, <1>7 DEF Moved, AsideDone, PublishDone, RecoveryDone, Recovering, Opening

(* A recovery starts over the files of its journal. *)
LEMMA RestartMoved ==
  ASSUME Shape, Moved, Scripted, UNCHANGED files, proc'.script = proc.script,
         proc'.rest = Entries[proc.script], proc'.at \in {"undo", "finish"}
  PROVE  Moved'
<1>1. Left' = Mine' /\ proc.script \in Scripts
  BY EntriesOf DEF Left, Mine, Scripted
<1>2. BackupsHaveJournals'
  BY DEF Moved, BackupsHaveJournals, files
<1> QED
  BY <1>1, <1>2 DEF Moved, AsideDone, PublishDone, RecoveryDone, Recovering, Opening

LEMMA ErrorMoved == ASSUME Shape, Moved, Rejected \/ FileError PROVE Moved'
<1>1. UNCHANGED files
  BY DEF Rejected, FileError
<1>2. CASE proc' = Idle
  BY <1>1, <1>2, OpeningMoved DEF Idle, Scripts
<1>3. CASE proc.at \in {"aside", "publish", "commit"} /\ Undo
  <2>1. Scripted
    BY <1>3, AtScripted DEF Moving, Shape
  <2> QED
    BY <1>1, <1>3, <2>1, RestartMoved DEF Undo, Scripted
<1>4. CASE /\ proc.at = "finish"
           /\ proc' = [proc EXCEPT !.failed = TRUE, !.rest = Entries[proc.script]]
  <2>1. Scripted
    BY <1>4, AtScripted DEF Moving, Shape
  <2> QED
    BY <1>1, <1>4, <2>1, RestartMoved DEF Scripted
<1> QED
  BY <1>2, <1>3, <1>4 DEF Rejected, FileError, Fail

LEMMA RecoverStep ==
  ASSUME Shape, Moved, RecoverEntry
  PROVE  /\ Scripted /\ proc.script \in Scripts /\ Recovering /\ Own \in Journals
         /\ proc'.script = proc.script /\ proc'.at = proc.at
         /\ Mine' = Mine /\ Mine \subseteq Files /\ Own' = Own /\ journal' = journal
         /\ Head(proc.rest) \in Mine /\ Left' = Left \ {Head(proc.rest)}
         /\ target' = [target EXCEPT ![Head(proc.rest)] =
               IF Own.phase = "PREPARED" THEN Restored(Head(proc.rest)) ELSE @]
         /\ backup' = [backup EXCEPT ![proc.script][Head(proc.rest)] = Absent]
         /\ \A s \in Scripts, f \in Files : backup'[s][f] =
               IF s = proc.script /\ f = Head(proc.rest) THEN Absent ELSE backup[s][f]
<1>1. /\ Scripted /\ Recovering /\ proc.rest # <<>> /\ proc.script \in Scripts /\ Own \in Journals
  BY AtScripted DEF RecoverEntry, Recovering, Moving, Shape, Scripted, ProcFits, FilesShape, Own
<1>2. proc' = [proc EXCEPT !.rest = Tail(@)] /\ journal' = journal
  BY DEF RecoverEntry
<1>3. /\ proc'.script = proc.script /\ proc'.at = proc.at /\ proc'.rest = Tail(proc.rest)
  BY <1>1, <1>2 DEF Scripted
<1>4. /\ Head(proc.rest) \in Mine /\ Head(proc.rest) \in Files /\ Mine \subseteq Files
      /\ ToSet(Tail(proc.rest)) = Left \ {Head(proc.rest)}
  BY <1>1, HeadOf, EntriesOf DEF Left, Mine
<1>5. Left' = Left \ {Head(proc.rest)} /\ Mine' = Mine /\ Own' = Own
  BY <1>2, <1>3, <1>4 DEF Left, Mine, Own
<1>6. /\ target' = [target EXCEPT ![Head(proc.rest)] =
            IF Own.phase = "PREPARED" THEN Restored(Head(proc.rest)) ELSE @]
      /\ backup' = [backup EXCEPT ![proc.script][Head(proc.rest)] = Absent]
  BY DEF RecoverEntry
<1>7. \A s \in Scripts, f \in Files : backup'[s][f] =
         IF s = proc.script /\ f = Head(proc.rest) THEN Absent ELSE backup[s][f]
  BY <1>1, <1>4, <1>6 DEF Shape, FilesShape
<1> QED
  BY <1>1, <1>2, <1>3, <1>4, <1>5, <1>6, <1>7

LEMMA RecoverMoved == ASSUME Shape, Moved, RecoverEntry PROVE Moved'
<1> DEFINE h == Head(proc.rest)
<1>1. /\ proc.script \in Scripts /\ Recovering /\ Own \in Journals
      /\ proc'.script = proc.script /\ proc'.at = proc.at
      /\ Mine' = Mine /\ Mine \subseteq Files /\ Own' = Own /\ journal' = journal /\ h \in Mine
      /\ Left' = Left \ {h}
      /\ target' = [target EXCEPT ![h] = IF Own.phase = "PREPARED" THEN Restored(h) ELSE @]
      /\ \A s \in Scripts, f \in Files : backup'[s][f] =
            IF s = proc.script /\ f = h THEN Absent ELSE backup[s][f]
  BY RecoverStep
<1>2. BackupsHaveJournals'
  BY <1>1 DEF Moved, BackupsHaveJournals
<1>3. /\ \A f \in Files \ {h} : target'[f] = target[f]
      /\ Own.phase = "PREPARED" /\ h \notin Own.had => target'[h] = Absent
  BY <1>1 DEF Shape, FilesShape, Restored
<1>4. RecoveryDone'
  BY <1>1, <1>3 DEF Moved, RecoveryDone, Recovering
<1> QED
  BY <1>1, <1>2, <1>4 DEF Moved, AsideDone, PublishDone, Recovering, Opening

LEMMA RemoveStep ==
  ASSUME Shape, Moved, RemoveTarget
  PROVE  /\ Scripted /\ proc.script \in Scripts /\ Recovering /\ Head(proc.rest) \in Mine
         /\ Head(proc.rest) \in Left /\ Mine \subseteq Files /\ Own # Nothing
         /\ Own.phase = "PREPARED" /\ backup[proc.script][Head(proc.rest)] # Absent
         /\ target' = [target EXCEPT ![Head(proc.rest)] = Absent]
         /\ UNCHANGED <<proc, backup, journal>>
<1>1. /\ Scripted /\ Recovering /\ proc.rest # <<>> /\ proc.script \in Scripts /\ Own # Nothing
  BY AtScripted DEF RemoveTarget, Recovering, Moving, Shape, Scripted, ProcFits, Own
<1>2. Head(proc.rest) \in Mine /\ Head(proc.rest) \in Left /\ Mine \subseteq Files
  BY <1>1, HeadOf, EntriesOf DEF Left, Mine
<1> QED
  BY <1>1, <1>2 DEF RemoveTarget

LEMMA RemoveMoved == ASSUME Shape, Moved, RemoveTarget PROVE Moved'
<1> DEFINE h == Head(proc.rest)
<1>1. /\ Recovering /\ h \in Left /\ h \in Mine /\ Mine \subseteq Files
      /\ target' = [target EXCEPT ![h] = Absent] /\ UNCHANGED <<proc, backup, journal>>
      /\ proc.script \in Scripts
  BY RemoveStep
<1>2. \A f \in Files \ {h} : target'[f] = target[f]
  BY <1>1 DEF Shape, FilesShape
<1>3. BackupsHaveJournals' /\ Left' = Left /\ Mine' = Mine /\ Own' = Own
  BY <1>1 DEF Moved, BackupsHaveJournals, Left, Mine, Own
<1>4. RecoveryDone'
  BY <1>1, <1>2, <1>3 DEF Moved, RecoveryDone, Recovering
<1> QED
  BY <1>1, <1>3, <1>4 DEF Moved, AsideDone, PublishDone, Recovering, Opening

LEMMA RecoveredStep ==
  ASSUME Shape, Moved, Recovered
  PROVE  /\ Scripted /\ proc.script \in Scripts /\ Recovering /\ Left = {} /\ Own \in Journals
         /\ Mine \subseteq Files
         /\ \A f \in Files : backup[proc.script][f] = Absent
         /\ journal' = [journal EXCEPT ![proc.script] = Nothing]
         /\ UNCHANGED <<target, backup>>
         /\ \/ proc' = Idle
            \/ proc'.script = proc.script /\ proc'.at = "read"
<1>1. /\ Scripted /\ Recovering /\ proc.rest = <<>> /\ proc.script \in Scripts /\ Own \in Journals
  BY AtScripted DEF Recovered, Recovering, Moving, Shape, Scripted, ProcFits, FilesShape, Own
<1>2. Left = {} /\ Mine \subseteq Files
  BY <1>1, EntriesOf DEF Left, ToSet, Mine
<1>3. \A f \in Files : backup[proc.script][f] = Absent
  BY <1>1, <1>2 DEF Moved, RecoveryDone, BackupsHaveJournals, Mine
<1>4. \/ proc' = Idle
      \/ proc'.script = proc.script /\ proc'.at = "read"
  BY <1>1 DEF Recovered, Goes, Fail, Scripted
<1> QED
  BY <1>1, <1>2, <1>3, <1>4 DEF Recovered

LEMMA RecoveredMoved == ASSUME Shape, Moved, Recovered PROVE Moved'
<1>1. BackupsHaveJournals'
  BY RecoveredStep DEF Moved, BackupsHaveJournals, Shape, FilesShape
<1>2. proc'.script \in Scripts => proc'.at \in Opening /\ Own' = Nothing
  BY RecoveredStep DEF Idle, Scripts, Opening, Own, Shape, FilesShape
<1> QED
  BY <1>1, <1>2 DEF Moved, AsideDone, PublishDone, RecoveryDone, Recovering, Opening

LEMMA StepMoved == ASSUME Shape, Moved, [Next]_vars PROVE Moved'
<1>1. CASE UNCHANGED vars
  BY <1>1 DEF vars, files, Moved, BackupsHaveJournals, AsideDone, PublishDone, RecoveryDone,
     Recovering, Own, Mine, Left
<1> QED
  BY <1>1, PlainMoved, StartMoved, PrepareMoved, AsideMoved, PublishMoved, CommitMoved,
     ErrorMoved, RecoverMoved, RemoveMoved, RecoveredMoved
     DEF Next, User, Build, Collect, Transaction, Recovery

-----------------------------------------------------------------------------
(* Stage 3: the set that recovery leaves.                                   *)
Alone == ~mixed => \A s, t \in Scripts : journal[s] # Nothing /\ journal[t] # Nothing => s = t

(* The view while no other script has a journal. *)
Undone(s) == journal[s] # Nothing /\ journal[s].phase = "PREPARED"
Recoverable(s, f) ==
    IF f \notin journal[s].had THEN Absent
    ELSE IF backup[s][f] # Absent THEN backup[s][f] ELSE target[f]

LEMMA ViewOf ==
  ASSUME NEW s \in Scripts, \A t \in Scripts \ {s} : journal[t] = Nothing, NEW f
  PROVE  View(f) = IF Undone(s) /\ f \in Group(s) THEN Recoverable(s, f) ELSE target[f]
<1> DEFINE undone == {t \in Scripts : journal[t] # Nothing /\ journal[t].phase = "PREPARED"
                                     /\ f \in Group(t)}
<1>1. CASE Undone(s) /\ f \in Group(s)
  <2>1. undone = {s}
    BY <1>1 DEF Undone
  <2>2. (CHOOSE t \in undone : TRUE) = s
    BY <2>1
  <2> QED
    BY <1>1, <2>1, <2>2 DEF View, Recoverable
<1>2. CASE ~(Undone(s) /\ f \in Group(s))
  <2>1. undone = {}
    BY <1>2 DEF Undone
  <2> QED
    BY <1>2, <2>1 DEF View
<1> QED
  BY <1>1, <1>2

LEMMA ViewOfNext ==
  ASSUME NEW s \in Scripts, \A t \in Scripts \ {s} : journal'[t] = Nothing, NEW f
  PROVE  View(f)' = IF Undone(s)' /\ f \in Group(s) THEN Recoverable(s, f)' ELSE target'[f]
<1> DEFINE undone == {t \in Scripts : journal'[t] # Nothing /\ journal'[t].phase = "PREPARED"
                                     /\ f \in Group(t)}
<1>1. CASE Undone(s)' /\ f \in Group(s)
  <2>1. undone = {s}
    BY <1>1 DEF Undone
  <2>2. (CHOOSE t \in undone : TRUE) = s
    BY <2>1
  <2> QED
    BY <1>1, <2>1, <2>2 DEF View, Recoverable
<1>2. CASE ~(Undone(s)' /\ f \in Group(s))
  <2>1. undone = {}
    BY <1>2 DEF Undone
  <2> QED
    BY <1>2, <2>1 DEF View
<1> QED
  BY <1>1, <1>2

(* A script that moves files has the only journal, unless sets overlapped.  *)
LEMMA MovingAlone ==
  ASSUME Shape, Alone, ~mixed, Scripted, Own # Nothing
  PROVE  \A t \in Scripts \ {proc.script} : journal[t] = Nothing
BY DEF Alone, Own, Scripted

ViewStays == ~mixed' => ~mixed /\ \A f \in Files : View(f)' = View(f)

LEMMA PlainView ==
  ASSUME Shape, Alone, UNCHANGED files, mixed' = mixed
  PROVE  Alone' /\ ViewStays
BY DEF Alone, files, ViewStays, View

LEMMA PrepareView ==
  ASSUME Shape, Moved, Alone, Prepare
  PROVE  Alone' /\ ViewStays
<1>1. Scripted /\ proc.script \in Scripts /\ proc.at = "prepare" /\ journal[proc.script] = Nothing
  BY AtScripted DEF Prepare, Opening, Shape, Scripted, Moved, Own
<1> DEFINE had == {f \in Mine : target[f] # Absent}
           own == [phase |-> "PREPARED", had |-> had]
<1>2. /\ journal' = [journal EXCEPT ![proc.script] = own]
      /\ UNCHANGED <<target, backup>>
      /\ mixed' = (mixed \/ \E s \in Scripts \ {proc.script} : journal[s] # Nothing)
  BY DEF Prepare, Mine
<1>3. own \in Journals
  BY <1>1, EntriesOf DEF Journals, Mine
<1>4. own # Nothing
  BY <1>3, NothingAssumption
<1>5. /\ journal'[proc.script] = own
      /\ \A t \in Scripts \ {proc.script} : journal'[t] = journal[t]
  BY <1>1, <1>2 DEF Shape, FilesShape
<1>6. ~mixed' => ~mixed /\ \A t \in Scripts \ {proc.script} : journal[t] = Nothing
  BY <1>2 DEF Shape, FilesShape
<1>7. Alone'
  BY <1>1, <1>5, <1>6 DEF Alone
<1>8. ASSUME ~mixed', NEW f \in Files PROVE View(f)' = View(f)
  <2>1. View(f) = target[f]
    BY <1>1, <1>6, <1>8, ViewOf DEF Undone
  <2>2. \A s \in Scripts : s = proc.script =>
           View(f)' = IF f \in Group(s) THEN Recoverable(s, f)' ELSE target'[f]
    <3>1. \A t \in Scripts \ {proc.script} : journal'[t] = Nothing
      BY <1>5, <1>6, <1>8
    <3> SUFFICES ASSUME NEW s \in Scripts, s = proc.script
                 PROVE  View(f)' = IF f \in Group(s) THEN Recoverable(s, f)' ELSE target'[f]
      OBVIOUS
    <3>2. Undone(s)'
      BY <1>4, <1>5 DEF Undone
    <3> QED
      BY <3>1, <3>2, ViewOfNext
  <2>3. \A s \in Scripts : s = proc.script /\ f \in Group(s) => Recoverable(s, f)' = target[f]
    BY <1>1, <1>2, <1>5 DEF Recoverable, Moved, BackupsHaveJournals, Mine
  <2> QED
    BY <1>1, <1>2, <2>1, <2>2, <2>3
<1> QED
  BY <1>6, <1>7, <1>8 DEF ViewStays

LEMMA AsideView == ASSUME Shape, Moved, Alone, MoveAside PROVE Alone' /\ ViewStays
<1> DEFINE h == Head(proc.rest)
<1>1. PICK s \in Scripts : s = proc.script
  BY AsideStep DEF Scripted
<1>2. /\ Scripted /\ proc.at = "aside" /\ journal' = journal /\ h \in Group(s)
      /\ Group(s) \subseteq Files
      /\ target' = [target EXCEPT ![h] = IF h \in journal[s].had THEN Absent ELSE @]
      /\ \A f \in Files : backup'[s][f] =
            IF f = h /\ f \in journal[s].had THEN target[f] ELSE backup[s][f]
  BY <1>1, AsideStep DEF Mine, Own
<1>3. mixed' = mixed /\ Alone'
  BY <1>2 DEF MoveAside, history, Alone
<1>4. /\ backup[s][h] = Absent /\ journal[s] # Nothing /\ journal[s].phase = "PREPARED"
      /\ h \in journal[s].had => target[h] # Absent
  <2>1. h \in Left
    BY <1>2, HeadOf DEF Left, Shape, ProcFits, Scripted
  <2> QED
    BY <1>1, <1>2, <2>1 DEF Moved, AsideDone, Mine, Own, Shape, ProcFits, Moving
<1>5. ASSUME ~mixed', NEW f \in Files PROVE View(f)' = View(f)
  <2>1. \A t \in Scripts \ {s} : journal[t] = Nothing /\ journal'[t] = Nothing
    BY <1>1, <1>2, <1>3, <1>4, <1>5, MovingAlone DEF Own
  <2>2. /\ View(f) = IF Undone(s) /\ f \in Group(s) THEN Recoverable(s, f) ELSE target[f]
        /\ View(f)' = IF Undone(s)' /\ f \in Group(s) THEN Recoverable(s, f)' ELSE target'[f]
    BY <2>1, ViewOf, ViewOfNext
  <2>3. Undone(s) /\ Undone(s)'
    BY <1>2, <1>4 DEF Undone
  <2>4. f # h => target'[f] = target[f] /\ backup'[s][f] = backup[s][f]
    BY <1>2 DEF Shape, FilesShape
  <2>5. f = h => target'[f] = IF h \in journal[s].had THEN Absent ELSE target[h]
    BY <1>2 DEF Shape, FilesShape
  <2> QED
    BY <1>2, <1>4, <2>2, <2>3, <2>4, <2>5 DEF Recoverable
<1> QED
  BY <1>3, <1>5 DEF ViewStays

LEMMA PublishView == ASSUME Shape, Moved, Alone, Publish PROVE Alone' /\ ViewStays
<1> DEFINE h == Head(proc.rest)
<1>1. PICK s \in Scripts : s = proc.script
  BY PublishStep DEF Scripted
<1>2. /\ Scripted /\ proc.at = "publish" /\ journal' = journal /\ backup' = backup
      /\ h \in Group(s) /\ target' = [target EXCEPT ![h] = proc.next[h]]
  BY <1>1, PublishStep DEF Mine
<1>3. mixed' = mixed /\ Alone'
  BY <1>2 DEF Publish, history, Alone
<1>4. /\ journal[s] # Nothing /\ journal[s].phase = "PREPARED"
      /\ h \in journal[s].had => backup[s][h] # Absent
  BY <1>1, <1>2 DEF Moved, PublishDone, Mine, Own, Shape, ProcFits, Moving
<1>5. ASSUME ~mixed', NEW f \in Files PROVE View(f)' = View(f)
  <2>1. \A t \in Scripts \ {s} : journal[t] = Nothing /\ journal'[t] = Nothing
    BY <1>1, <1>2, <1>3, <1>4, <1>5, MovingAlone DEF Own
  <2>2. /\ View(f) = IF Undone(s) /\ f \in Group(s) THEN Recoverable(s, f) ELSE target[f]
        /\ View(f)' = IF Undone(s)' /\ f \in Group(s) THEN Recoverable(s, f)' ELSE target'[f]
    BY <2>1, ViewOf, ViewOfNext
  <2>3. Undone(s) /\ Undone(s)'
    BY <1>2, <1>4 DEF Undone
  <2>4. f # h => target'[f] = target[f]
    BY <1>2 DEF Shape, FilesShape
  <2> QED
    BY <1>2, <1>4, <2>2, <2>3, <2>4 DEF Recoverable
<1> QED
  BY <1>3, <1>5 DEF ViewStays

LEMMA RecoverView == ASSUME Shape, Moved, Alone, RecoverEntry PROVE Alone' /\ ViewStays
<1> DEFINE h == Head(proc.rest)
<1>1. PICK s \in Scripts : s = proc.script
  BY RecoverStep
<1>2. /\ Scripted /\ journal' = journal /\ h \in Group(s) /\ Group(s) \subseteq Files
      /\ journal[s] \in Journals
      /\ target' = [target EXCEPT ![h] =
                      IF journal[s].phase = "PREPARED" THEN Recoverable(s, h) ELSE @]
      /\ \A f \in Files : backup'[s][f] = IF f = h THEN Absent ELSE backup[s][f]
  BY <1>1, RecoverStep DEF Mine, Own, Restored, Recoverable
<1>3. mixed' = mixed /\ Alone' /\ journal[s] # Nothing
  BY <1>2, NothingAssumption DEF RecoverEntry, history, Alone
<1>4. ASSUME ~mixed', NEW f \in Files PROVE View(f)' = View(f)
  <2>1. \A t \in Scripts \ {s} : journal[t] = Nothing /\ journal'[t] = Nothing
    BY <1>1, <1>2, <1>3, <1>4, MovingAlone DEF Own
  <2>2. /\ View(f) = IF Undone(s) /\ f \in Group(s) THEN Recoverable(s, f) ELSE target[f]
        /\ View(f)' = IF Undone(s)' /\ f \in Group(s) THEN Recoverable(s, f)' ELSE target'[f]
    BY <2>1, ViewOf, ViewOfNext
  <2>3. Undone(s) <=> Undone(s)'
    BY <1>2 DEF Undone
  <2>4. f # h => target'[f] = target[f] /\ backup'[s][f] = backup[s][f]
    BY <1>2 DEF Shape, FilesShape
  <2>5. f = h => /\ backup'[s][f] = Absent
                 /\ target'[f] = IF Undone(s) THEN Recoverable(s, h) ELSE target[h]
    BY <1>2, <1>3 DEF Shape, FilesShape, Undone
  <2> QED
    BY <1>2, <2>2, <2>3, <2>4, <2>5 DEF Recoverable
<1> QED
  BY <1>3, <1>4 DEF ViewStays

LEMMA RemoveView == ASSUME Shape, Moved, Alone, RemoveTarget PROVE Alone' /\ ViewStays
<1> DEFINE h == Head(proc.rest)
<1>1. PICK s \in Scripts : s = proc.script
  BY RemoveStep
<1>2. /\ Scripted /\ UNCHANGED <<journal, backup>> /\ h \in Group(s)
      /\ target' = [target EXCEPT ![h] = Absent] /\ backup[s][h] # Absent
      /\ journal[s] # Nothing /\ journal[s].phase = "PREPARED"
  BY <1>1, RemoveStep DEF Mine, Own
<1>3. mixed' = mixed /\ Alone'
  BY <1>2 DEF RemoveTarget, history, Alone
<1>4. ASSUME ~mixed', NEW f \in Files PROVE View(f)' = View(f)
  <2>1. \A t \in Scripts \ {s} : journal[t] = Nothing /\ journal'[t] = Nothing
    BY <1>1, <1>2, <1>3, <1>4, MovingAlone DEF Own
  <2>2. /\ View(f) = IF Undone(s) /\ f \in Group(s) THEN Recoverable(s, f) ELSE target[f]
        /\ View(f)' = IF Undone(s)' /\ f \in Group(s) THEN Recoverable(s, f)' ELSE target'[f]
    BY <2>1, ViewOf, ViewOfNext
  <2>3. Undone(s) /\ Undone(s)'
    BY <1>2 DEF Undone
  <2>4. f # h => target'[f] = target[f]
    BY <1>2 DEF Shape, FilesShape
  <2> QED
    BY <1>2, <2>2, <2>3, <2>4 DEF Recoverable
<1> QED
  BY <1>3, <1>4 DEF ViewStays

LEMMA RecoveredView == ASSUME Shape, Moved, Alone, Recovered PROVE Alone' /\ ViewStays
<1>1. PICK s \in Scripts : s = proc.script
  BY RecoveredStep
<1>2. /\ Scripted /\ Recovering /\ Left = {} /\ journal[s] \in Journals
      /\ \A f \in Files : backup[s][f] = Absent
      /\ journal' = [journal EXCEPT ![s] = Nothing]
      /\ UNCHANGED <<target, backup>>
  BY <1>1, RecoveredStep DEF Own
<1>3. /\ mixed' = mixed /\ journal[s] # Nothing /\ journal'[s] = Nothing
      /\ \A t \in Scripts \ {s} : journal'[t] = journal[t]
  BY <1>2, NothingAssumption DEF Recovered, Shape, FilesShape
<1>4. Alone'
  BY <1>3 DEF Alone
<1>5. ASSUME ~mixed', NEW f \in Files PROVE View(f)' = View(f)
  <2>1. \A t \in Scripts \ {s} : journal[t] = Nothing /\ journal'[t] = Nothing
    BY <1>1, <1>2, <1>3, <1>5, MovingAlone DEF Own
  <2>2. /\ View(f) = IF Undone(s) /\ f \in Group(s) THEN Recoverable(s, f) ELSE target[f]
        /\ View(f)' = IF Undone(s)' /\ f \in Group(s) THEN Recoverable(s, f)' ELSE target'[f]
    BY <2>1, ViewOf, ViewOfNext
  <2>3. ~Undone(s)'
    BY <1>3 DEF Undone
  <2>4. Undone(s) /\ f \in Group(s) => Recoverable(s, f) = target[f]
    BY <1>1, <1>2 DEF Moved, RecoveryDone, Mine, Own, Undone, Recoverable
  <2> QED
    BY <1>2, <2>2, <2>3, <2>4
<1> QED
  BY <1>3, <1>4, <1>5 DEF ViewStays

(* The committed set replaces the files of its group, and no others. *)
LEMMA CommitView ==
  ASSUME Shape, Moved, Alone, CommitSet
  PROVE  /\ Alone' /\ mixed' = mixed
         /\ ~mixed => \A f \in Files : View(f)' = IF f \in Mine THEN proc.next[f] ELSE View(f)
<1>1. /\ Scripted /\ proc.at = "commit" /\ Own \in Journals
  BY AtScripted DEF CommitSet, Moving, Shape, Scripted, ProcFits, FilesShape, Own
<1>2. PICK s \in Scripts : s = proc.script
  BY <1>1 DEF Scripted
<1>3. /\ journal' = [journal EXCEPT ![s].phase = "COMMITTED"]
      /\ UNCHANGED <<target, backup, mixed>>
  BY <1>2 DEF CommitSet
<1>4. [journal[s] EXCEPT !.phase = "COMMITTED"].phase = "COMMITTED"
  BY <1>1, <1>2 DEF Journals, Own
<1>5. /\ journal'[s].phase = "COMMITTED" /\ \A t \in Scripts \ {s} : journal'[t] = journal[t]
      /\ journal[s] # Nothing
  BY <1>1, <1>2, <1>3, <1>4, NothingAssumption DEF Shape, FilesShape, Own
<1>6. Alone'
  BY <1>3, <1>5 DEF Alone
<1>7. ASSUME ~mixed, NEW f \in Files
      PROVE  View(f)' = IF f \in Mine THEN proc.next[f] ELSE View(f)
  <2>1. \A t \in Scripts \ {s} : journal[t] = Nothing /\ journal'[t] = Nothing
    BY <1>1, <1>2, <1>5, <1>7, MovingAlone DEF Own
  <2>2. /\ View(f) = IF Undone(s) /\ f \in Group(s) THEN Recoverable(s, f) ELSE target[f]
        /\ View(f)' = IF Undone(s)' /\ f \in Group(s) THEN Recoverable(s, f)' ELSE target'[f]
    BY <2>1, ViewOf, ViewOfNext
  <2>3. ~Undone(s)'
    BY <1>5 DEF Undone
  <2>4. f \in Group(s) => target[f] = proc.next[f]
    BY <1>1, <1>2 DEF Moved, PublishDone, Mine, Scripted
  <2> QED
    BY <1>2, <1>3, <2>2, <2>3, <2>4 DEF Mine
<1> QED
  BY <1>3, <1>6, <1>7

LEMMA StepView ==
  ASSUME Shape, Moved, Alone, [Next]_vars
  PROVE  Alone' /\ (CommitSet \/ ViewStays)
<1>1. CASE UNCHANGED vars
  BY <1>1, PlainView DEF vars, history
<1>2. CASE \/ Edit \/ Commit \/ Withdraw \/ StartBuild \/ Compile \/ Bless
           \/ BeginRun \/ PublishRun \/ Aggregation \/ SupplyChain \/ ReadFails
           \/ CommittedMissing \/ Crash \/ Rejected \/ FileError
           \/ \E s \in Scripts : Start(s)
  <2>1. UNCHANGED <<files, mixed>>
    BY <1>2 DEF Edit, Commit, Withdraw, StartBuild, Compile, Bless, BeginRun, PublishRun,
       Aggregation, SupplyChain, ReadFails, CommittedMissing, Crash, Rejected, FileError, Start,
       history
  <2> QED
    BY <2>1, PlainView
<1> QED
  BY <1>1, <1>2, PrepareView, AsideView, PublishView, CommitView, RecoverView, RemoveView,
     RecoveredView DEF Next, User, Build, Collect, Transaction, Recovery

-----------------------------------------------------------------------------
(* How a script goes on: it stays where it is, ends, or moves along the      *)
(* steps of its transaction with what it has read and is about to publish.  *)
Ends == proc'.script \notin Scripts /\ stamp' = stamp
Continues ==
    /\ Scripted /\ proc'.script = proc.script /\ proc'.next = proc.next /\ stamp' = stamp
    /\ proc'.id = proc.id /\ proc'.commit = proc.commit /\ proc'.dirty = proc.dirty
    /\ proc.at \in Moving \cup {"prepare"} /\ proc'.at \in Moving \cup {"read"}
    /\ proc'.at \in {"aside", "publish", "commit"} => proc.at \in {"prepare", "aside", "publish"}
    /\ proc'.at = "finish" => proc.at = "finish" \/ CommitSet
    /\ proc'.at # "finish" => proc.at # "finish"
    /\ proc'.at = "read" => proc.at = "recover"

LEMMA ProcStep ==
  ASSUME Shape, Moved, [Next]_vars
  PROVE  \/ proc' = proc /\ stamp' = stamp
         \/ Ends \/ Continues
         \/ \E s \in Scripts : Start(s)
         \/ BeginRun \/ PublishRun \/ Aggregation \/ SupplyChain
<1>1. CASE Edit \/ Commit \/ Withdraw \/ RemoveTarget \/ UNCHANGED vars
  BY <1>1 DEF Edit, Commit, Withdraw, Change, RemoveTarget, vars
<1>2. CASE StartBuild \/ Compile \/ Bless \/ ReadFails \/ CommittedMissing \/ Crash
  <2>1. stamp' = stamp
    BY <1>2 DEF StartBuild, Compile, Bless, ReadFails, CommittedMissing, Crash
  <2>2. CASE proc' = Idle
    BY <2>1, <2>2 DEF Ends, Idle, Scripts
  <2>3. CASE StartBuild
    BY <2>1, <2>3 DEF StartBuild, Scripts, Ends
  <2>4. CASE Compile /\ proc' = [proc EXCEPT !.at = "bless"]
    <3>1. proc.script = "build"
      BY <2>4 DEF Compile, Shape, ProcShape, Scripted, Idle, Opening, Moving
    <3>2. proc = [script |-> proc.script, at |-> proc.at, commit |-> proc.commit]
      BY <3>1 DEF Shape, ProcShape, Idle, Scripted, Scripts
    <3>3. proc'.script = "build"
      BY <2>4, <3>1, <3>2
    <3> QED
      BY <2>1, <3>3 DEF Ends, Scripts
  <2> QED
    BY <1>2, <2>2, <2>3, <2>4 DEF Compile, Bless, ReadFails, CommittedMissing, Fail, Crash
<1>3. CASE Prepare
  <2>1. Scripted /\ proc.at = "prepare"
    BY <1>3, AtScripted DEF Prepare, Opening, Shape
  <2>2. proc' = [proc EXCEPT !.at = "aside", !.rest = Entries[proc.script]] /\ stamp' = stamp
    BY <1>3 DEF Prepare
  <2> QED
    BY <2>1, <2>2 DEF Continues, Scripted, Moving
<1>4. CASE MoveAside \/ Publish
  <2>1. Scripted /\ proc.at \in {"aside", "publish"} /\ stamp' = stamp
    BY <1>4, AtScripted DEF MoveAside, Publish, Step, Shape, Moving
  <2>2. \E then \in {"publish", "commit"} :
           proc' = IF Len(proc.rest) > 1 THEN [proc EXCEPT !.rest = Tail(@)]
                   ELSE [proc EXCEPT !.at = then, !.rest = Entries[proc.script]]
    BY <1>4 DEF MoveAside, Publish, Step
  <2> QED
    BY <2>1, <2>2 DEF Continues, Scripted, Moving
<1>5. CASE CommitSet
  <2>1. Scripted /\ proc.at = "commit" /\ proc' = [proc EXCEPT !.at = "finish"] /\ stamp' = stamp
    BY <1>5, AtScripted DEF CommitSet, Goes, Shape, Moving
  <2> QED
    BY <1>5, <2>1 DEF Continues, Scripted, Moving
<1>6. CASE RecoverEntry
  <2>1. /\ Scripted /\ proc.at \in {"recover", "undo", "finish"}
        /\ proc' = [proc EXCEPT !.rest = Tail(@)] /\ stamp' = stamp
    BY <1>6, AtScripted DEF RecoverEntry, Recovering, Shape, Moving
  <2> QED
    BY <2>1 DEF Continues, Scripted, Moving
<1>7. CASE Recovered
  <2>1. Scripted /\ stamp' = stamp
    BY <1>7, AtScripted DEF Recovered, Recovering, Shape, Moving
  <2>2. CASE proc' = Idle
    BY <2>1, <2>2 DEF Ends, Idle, Scripts
  <2>3. CASE proc.at = "recover" /\ proc' = [proc EXCEPT !.at = "read"]
    BY <2>1, <2>3 DEF Continues, Scripted, Moving
  <2> QED
    BY <1>7, <2>2, <2>3 DEF Recovered, Fail, Goes
<1>8. CASE Rejected \/ FileError
  <2>1. stamp' = stamp
    BY <1>8 DEF Rejected, FileError
  <2>2. CASE proc' = Idle
    BY <2>1, <2>2 DEF Ends, Idle, Scripts
  <2>3. CASE proc.at \in {"aside", "publish", "commit"} /\ Undo
    <3>1. Scripted
      BY <2>3, AtScripted DEF Moving, Shape
    <3> QED
      BY <2>1, <2>3, <3>1 DEF Continues, Scripted, Moving, Undo
  <2>4. CASE /\ proc.at = "finish"
             /\ proc' = [proc EXCEPT !.failed = TRUE, !.rest = Entries[proc.script]]
    <3>1. Scripted
      BY <2>4, AtScripted DEF Moving, Shape
    <3> QED
      BY <2>1, <2>4, <3>1 DEF Continues, Scripted, Moving
  <2> QED
    BY <1>8, <2>2, <2>3, <2>4 DEF Rejected, FileError, Fail
<1> QED
  BY <1>1, <1>2, <1>3, <1>4, <1>5, <1>6, <1>7, <1>8
     DEF Next, User, Build, Collect, Transaction, Recovery

-----------------------------------------------------------------------------
(* Stage 4: the execution that wrote each file of the set.                  *)
Stamps ==
    /\ ~mixed => \A f \in Files :
         /\ View(f).stamp <= stamp
         /\ proc.script \in Scripts /\ proc.at # "finish" => View(f).stamp < stamp
    /\ proc.script \in Scripts /\ proc.at = "test" => proc.script = "acceptance"
    /\ proc.script \in Scripts /\ proc.at \in {"prepare", "aside", "publish", "commit"} =>
         \A f \in Mine : proc.next[f].stamp = stamp

LEMMA ViewStamped == ASSUME Shape, NEW f \in Files PROVE Stamped(View(f))
<1>1. Stamped(Absent)
  BY DEF Stamped, Absent
<1> DEFINE undone == {t \in Scripts : journal[t] # Nothing /\ journal[t].phase = "PREPARED"
                                     /\ f \in Group(t)}
<1>2. CASE undone = {}
  BY <1>2 DEF View, Shape, FilesShape
<1>3. CASE undone # {}
  <2>1. (CHOOSE t \in undone : TRUE) \in Scripts
    BY <1>3
  <2> QED
    BY <1>1, <1>3, <2>1 DEF View, Shape, FilesShape
<1> QED
  BY <1>2, <1>3

LEMMA InitStamps == Init => Alone /\ Stamps
<1> SUFFICES ASSUME Init PROVE Alone /\ Stamps
  OBVIOUS
<1>1. \A s \in Scripts : journal[s] = Nothing
  BY DEF Init
<1>2. \A f \in Files : View(f) = Absent
  BY <1>1 DEF View, Init, NoFiles
<1>3. proc.script \notin Scripts /\ stamp = 0 /\ Absent.stamp = 0
  BY DEF Init, Idle, Scripts, Absent
<1> QED
  BY <1>1, <1>2, <1>3 DEF Alone, Stamps

(* The script that read the set publishes files of its own execution. *)
LEMMA CollectedStamps ==
  ASSUME Shape, Stamps, PublishRun \/ Aggregation \/ SupplyChain
  PROVE  /\ Scripted /\ stamp' = stamp /\ proc'.script = proc.script /\ proc'.at = "prepare"
         /\ proc.at \in {"read", "test"}
         /\ \A f \in Mine : proc'.next[f].stamp = stamp
<1>0. Scripted /\ proc.at \in {"read", "test"} /\ stamp' = stamp /\ stamp \in Nat
  BY AtScripted DEF PublishRun, Aggregation, SupplyChain, Opening, Shape, FilesShape
<1>1. CASE PublishRun
  <2> DEFINE c == [stamp |-> stamp, commit |-> proc.commit, bytes |-> bytes]
             i == [stamp |-> stamp, commit |-> proc.commit, run |-> proc.id]
             next == [NoFiles EXCEPT !.candidate = c, !.input = i]
  <2>1. proc' = [proc EXCEPT !.at = "prepare", !.next = next] /\ proc.at = "test"
    BY <1>1 DEF PublishRun
  <2>2. next["candidate"].stamp = stamp /\ next["input"].stamp = stamp
    BY DEF NoFiles, Files
  <2> HIDE DEF next
  <2>3. proc'.next = next /\ proc'.script = proc.script /\ proc'.at = "prepare"
    BY <1>0, <2>1 DEF Scripted
  <2>4. proc.script = "acceptance"
    BY <1>0, <2>1 DEF Stamps, Scripted
  <2>5. Mine = {"candidate", "input"}
    BY <2>4 DEF Mine, Group, Entries, ToSet
  <2> QED
    BY <1>0, <2>1, <2>2, <2>3, <2>5
<1>2. \A e : e.stamp = stamp =>
         \A f \in {"evidence", "texts", "input"} : WithEvidence(e)[f].stamp = stamp
  <2> SUFFICES ASSUME NEW e, e.stamp = stamp, NEW f \in {"evidence", "texts", "input"}
               PROVE  WithEvidence(e)[f].stamp = stamp
    OBVIOUS
  <2>1. Stamped(target.input)
    BY DEF Shape, FilesShape, Files
  <2>2. [target.input EXCEPT !.stamp = stamp].stamp = stamp
    BY <2>1 DEF Stamped
  <2> QED
    BY <2>2 DEF WithEvidence, NoFiles, Files
<1>3. \A disk, states : Aggregate(disk, stamp, states).stamp = stamp
  BY DEF Aggregate
<1>4. CASE Aggregation
  <2> DEFINE next == WithEvidence(Aggregate(target, stamp, SupplyStates(target)))
  <2>1. proc' = [proc EXCEPT !.at = "prepare", !.next = next] /\ proc.script = "evidence"
    BY <1>4 DEF Aggregation
  <2>2. \A f \in {"evidence", "texts", "input"} : next[f].stamp = stamp
    BY <1>2, <1>3
  <2> HIDE DEF next
  <2>3. proc'.next = next /\ proc'.script = proc.script /\ proc'.at = "prepare"
    BY <1>0, <2>1 DEF Scripted
  <2>4. Mine = {"evidence", "texts", "input"}
    BY <2>1 DEF Mine, Group, Entries, ToSet
  <2> QED
    BY <1>0, <2>2, <2>3, <2>4
<1>5. CASE SupplyChain
  <2> DEFINE run == target.input.run
             states == [sbom |-> "pass", sums |-> "pass", signature |-> Signature(bytes)]
             supply == [stamp |-> stamp, commit |-> reports[run].commit, bytes |-> bytes,
                        clean |-> SourceClean(run), lock |-> Lock[head],
                        signature |-> Signature(bytes)]
             e == Aggregate(target, stamp, states)
             next == [WithEvidence(e) EXCEPT
                        !.candidate = target.candidate, !.supply = supply]
             sums == [stamp |-> stamp, of |-> Sums(next, run)]
             all == [next EXCEPT !.candidate = Absent, !.sums = sums]
  <2>1. proc' = [proc EXCEPT !.at = "prepare", !.next = all] /\ proc.script = "sbom"
    BY <1>5 DEF SupplyChain
  <2>2. supply.stamp = stamp /\ sums.stamp = stamp /\ e.stamp = stamp
    BY <1>3
  <2>3. /\ \A f \in {"evidence", "texts", "input"} : WithEvidence(e)[f].stamp = stamp
        /\ WithEvidence(e) = [f \in Files |-> WithEvidence(e)[f]]
    BY <1>2, <2>2 DEF WithEvidence, NoFiles
  <2> HIDE DEF sums, supply, e
  <2>4. \A f \in {"evidence", "texts", "input", "supply", "sums"} : all[f].stamp = stamp
    BY <2>2, <2>3 DEF Files
  <2> HIDE DEF all, next
  <2>5. proc'.next = all /\ proc'.script = proc.script /\ proc'.at = "prepare"
    BY <1>0, <2>1 DEF Scripted
  <2>6. Mine = {"supply", "evidence", "texts", "input", "sums"}
    BY <2>1 DEF Mine, Group, Entries, ToSet
  <2> QED
    BY <1>0, <2>4, <2>5, <2>6
<1> QED
  BY <1>1, <1>4, <1>5

LEMMA BeginTests ==
  ASSUME Shape, BeginRun
  PROVE  /\ Scripted /\ stamp' = stamp /\ proc'.script = proc.script /\ proc.at = "read"
         /\ proc'.at = "test" /\ proc'.script = "acceptance"
<1>1. Scripted /\ proc.at = "read" /\ proc.script = "acceptance" /\ stamp' = stamp
  BY AtScripted DEF BeginRun, Opening, Shape
<1> QED
  BY <1>1 DEF BeginRun, Scripted

LEMMA StepStamps == ASSUME Shape, Moved, Alone, Stamps, [Next]_vars PROVE Stamps'
<1>1. /\ stamp \in Nat /\ \A f \in Files : View(f).stamp \in Nat
      /\ proc.script \in Scripts => Mine \subseteq Files
  BY ViewStamped, EntriesOf DEF Shape, FilesShape, Stamped, Mine
<1>2. CASE proc' = proc /\ stamp' = stamp
  <2>1. CASE CommitSet
    <3>1. proc.at = "commit" /\ proc'.at = "finish"
      BY <2>1, AtScripted DEF CommitSet, Goes, Shape, Moving, Scripted
    <3> QED
      BY <1>2, <3>1
  <2> QED
    BY <1>2, <2>1, StepView DEF Stamps, ViewStays, Mine
<1>3. CASE Ends
  <2>1. ~CommitSet
    BY <1>3, AtScripted DEF Ends, CommitSet, Goes, Shape, Moving, Scripted
  <2> QED
    BY <1>3, <2>1, StepView DEF Ends, Stamps, ViewStays
<1>4. CASE Continues
  <2>1. /\ proc.script \in Scripts /\ proc'.script = proc.script /\ proc'.next = proc.next
        /\ stamp' = stamp /\ Mine' = Mine
    BY <1>4 DEF Continues, Scripted, Mine
  <2>2. CASE ~CommitSet
    <3>1. ~mixed' => ~mixed /\ \A f \in Files : View(f)' = View(f)
      BY <2>2, StepView DEF ViewStays
    <3> QED
      BY <1>4, <2>1, <2>2, <3>1 DEF Continues, Stamps, Moving
  <2>3. CASE CommitSet
    <3>1. proc.at = "commit" /\ proc'.at = "finish"
      BY <1>4, <2>3 DEF CommitSet, Goes, Continues, Scripted
    <3>2. \A f \in Mine : proc.next[f].stamp = stamp
      BY <2>1, <3>1 DEF Stamps
    <3>3. ~mixed' => \A f \in Files : View(f)'.stamp <= stamp
      BY <1>1, <2>1, <2>3, <3>1, <3>2, CommitView DEF Stamps
    <3> QED
      BY <2>1, <3>1, <3>3 DEF Stamps
  <2> QED
    BY <2>2, <2>3
<1>5. ASSUME NEW s \in Scripts, Start(s) PROVE Stamps'
  <2>1. stamp' = stamp + 1 /\ proc'.at \in {"read", "recover"} /\ proc = Idle
    BY <1>5 DEF Start
  <2>2. ~CommitSet
    BY <2>1 DEF CommitSet, Idle
  <2>3. ~mixed' => ~mixed /\ \A f \in Files : View(f)' = View(f)
    BY <2>2, StepView DEF ViewStays
  <2> QED
    BY <1>1, <2>1, <2>3 DEF Stamps
<1>6. CASE BeginRun \/ PublishRun \/ Aggregation \/ SupplyChain
  <2>1. /\ Scripted /\ stamp' = stamp /\ proc'.script = proc.script
        /\ proc.at \in {"read", "test"} /\ proc'.at \in {"test", "prepare"}
        /\ proc'.at = "test" => proc'.script = "acceptance"
        /\ proc'.at = "prepare" => \A f \in Mine' : proc'.next[f].stamp = stamp
    BY <1>6, CollectedStamps, BeginTests DEF Mine
  <2>2. ~CommitSet
    BY <2>1 DEF CommitSet
  <2>3. ~mixed' => ~mixed /\ \A f \in Files : View(f)' = View(f)
    BY <2>2, StepView DEF ViewStays
  <2> QED
    BY <2>1, <2>3 DEF Stamps, Scripted
<1> QED
  BY <1>2, <1>3, <1>4, <1>5, <1>6, ProcStep

-----------------------------------------------------------------------------
(* The inductive invariant of the transactions.                             *)
Transactional == Shape /\ Moved /\ Alone /\ Stamps

LEMMA InitTransactional == Init => Transactional
BY InitShape, InitMoved, InitStamps DEF Transactional

LEMMA StepTransactional == Transactional /\ [Next]_vars => Transactional'
BY StepShape, StepMoved, StepView, StepStamps DEF Transactional

(* What the mapping shows is a function of the files, or void. *)
ShownSet == IF mixed THEN Nothing ELSE [f \in Files |-> View(f).stamp]

LEMMA ShownStep ==
  ASSUME Transactional, [Next]_vars
  PROVE  [Abstract!Switch \/ Abstract!Give]_ShownSet
<1>1. Shape /\ Moved /\ Alone /\ Stamps /\ mixed \in BOOLEAN /\ mixed' \in BOOLEAN
  BY StepShape DEF Transactional, Shape, FilesShape
<1>2. CASE ~CommitSet
  <2>1. ~mixed' => ~mixed /\ \A f \in Files : View(f)' = View(f)
    BY <1>1, <1>2, StepView DEF ViewStays
  <2>2. CASE mixed'
    BY <2>2 DEF ShownSet, Abstract!Give
  <2>3. CASE ~mixed'
    BY <2>1, <2>3 DEF ShownSet
  <2> QED
    BY <2>2, <2>3
<1>3. CASE CommitSet
  <2>1. CASE mixed
    BY <1>1, <1>3, <2>1, CommitView DEF ShownSet, Abstract!Give
  <2>2. CASE ~mixed
    <3>1. /\ ~mixed' /\ Scripted /\ proc.at = "commit" /\ proc.script \in Scripts
          /\ \A f \in Files : View(f)' = IF f \in Mine THEN proc.next[f] ELSE View(f)
      BY <1>1, <1>3, <2>2, CommitView, AtScripted
         DEF CommitSet, Shape, Moving, Scripted
    <3>2. /\ \A f \in Mine : proc.next[f].stamp = stamp
          /\ \A f \in Files : View(f).stamp < stamp /\ View(f).stamp \in Nat
          /\ stamp \in 1..MaxStamps
      BY <1>1, <2>2, <3>1, ViewStamped DEF Stamps, Stamped, Shape, FilesShape, Scripted
    <3>3. Mine \in {Group(s) : s \in Scripts}
      BY <3>1 DEF Mine
    <3>4. /\ ShownSet = [f \in Files |-> View(f).stamp]
          /\ ShownSet' = [f \in Files |-> IF f \in Mine THEN stamp ELSE ShownSet[f]]
      BY <2>2, <3>1, <3>2 DEF ShownSet
    <3>5. ShownSet # Nothing
      <4>1. ShownSet \in [Files -> Nat]
        BY <3>2, <3>4
      <4> QED
        BY <4>1, NothingAssumption
    <3>6. Abstract!Switch
      BY <3>2, <3>3, <3>4, <3>5 DEF Abstract!Switch, ShownSet
    <3> QED
      BY <3>6
  <2> QED
    BY <2>1, <2>2
<1> QED
  BY <1>2, <1>3

(* Without journals, backups or crashes: a transaction over reports/release  *)
(* switches the files of its group to one new execution at once, or not at  *)
(* all, at its commit and nowhere else (writeFileSetAtomic with              *)
(* recoverJsonSetAtomic), until two transactions overlap.                   *)
THEOREM SetsAreSwitched == Spec => SetsSwitchAtOnce
<1>1. Init => ShownSet = [f \in Files |-> 0]
  <2> SUFFICES ASSUME Init PROVE ShownSet = [f \in Files |-> 0]
    OBVIOUS
  <2>1. ~mixed /\ \A s \in Scripts : journal[s] = Nothing
    BY DEF Init
  <2>2. \A f \in Files : View(f).stamp = 0
    BY <2>1 DEF View, Init, NoFiles, Absent
  <2> QED
    BY <2>1, <2>2 DEF ShownSet
<1>2. Init => Abstract!PublishedInit
  BY <1>1 DEF Abstract!PublishedInit, ShownSet
<1>3. Transactional /\ [Next]_vars => [Abstract!Switch \/ Abstract!Give]_ShownSet
  BY ShownStep
<1> QED
  BY <1>2, <1>3, InitTransactional, StepTransactional, PTL
     DEF Spec, SetsSwitchAtOnce, Abstract!PublishedSpec, ShownSet

-----------------------------------------------------------------------------
(* Stage 5: the runs that release-input names.                              *)
Writing == {"prepare", "aside", "publish", "commit"}
Unshared == \A s \in Scripts \ {proc.script} : journal[s] = Nothing
Settled(s) == journal[s] # Nothing /\ journal[s].phase = "COMMITTED"
Names(x, id) == "run" \in DOMAIN x /\ x.run = id

(* What a script that publishes says of the run: its own, or the last one.   *)
Quoted ==
    /\ proc.script \in {"evidence", "sbom"} => proc.id = Nothing
    /\ proc.script = "acceptance" =>
         /\ proc.id \in Runs \cup {Nothing}
         /\ proc.at = "test" => proc.id \in Runs
         /\ proc.at \in Writing => IsRun(proc.id) /\ Names(proc.next["input"], proc.id)
    /\ proc.script \in {"evidence", "sbom"} /\ proc.at \in Writing /\ ~mixed /\ Unshared =>
         Names(proc.next["input"], latest) /\ View("input") # Absent

(* What the set says of the runs. *)
Named ==
    ~mixed =>
      /\ \A s \in Scripts, f \in Files : Settled(s) /\ f \in Group(s) => View(f) # Absent
      /\ View("input") # Absent =>
           /\ Names(View("input"), latest)
           /\ ~dropped => /\ IsRun(latest)
                          /\ proc.script = "acceptance" /\ proc.at # "finish" =>
                                proc.id # latest

RunsShape == reports = [id \in Runs |-> reports[id]] /\ dropped \in BOOLEAN
Quotes == RunsShape /\ Quoted /\ Named

LEMMA InitQuotes == Init => Quotes
<1> SUFFICES ASSUME Init PROVE Quotes
  OBVIOUS
<1>1. \A s \in Scripts : journal[s] = Nothing
  BY DEF Init
<1>2. View("input") = Absent
  BY <1>1 DEF View, Init, NoFiles, Files
<1>3. proc.script \notin Scripts
  BY DEF Init, Idle, Scripts
<1>4. reports = [id \in Runs |-> NoReports] /\ dropped = FALSE
  BY DEF Init
<1>5. RunsShape
  BY <1>4 DEF RunsShape
<1>6. Quoted
  BY <1>3 DEF Quoted, Scripts
<1> QED
  BY <1>1, <1>2, <1>5, <1>6 DEF Quotes, Named, Settled

(* The number a run takes is free. *)
LEMMA FreeNumber ==
  ASSUME Free # {}
  PROVE  (CHOOSE i \in Free : \A j \in Free : i <= j) \in Free
<1>1. Free \subseteq Nat
  BY Bounds DEF Free, Runs
<1>2. PICK i \in Free : \A j \in Free : ~(<<j, i>> \in OpToRel(<, Nat))
  BY <1>1, WFMin, NatLessThanWellFounded, Zenon
<1>3. \A j \in Free : i <= j
  <2> SUFFICES ASSUME NEW j \in Free PROVE i <= j
    OBVIOUS
  <2>1. <<j, i>> \in Nat \X Nat /\ <<j, i>> \notin OpToRel(<, Nat)
    BY <1>1, <1>2
  <2>2. ~(j < i)
    BY <2>1, Zenon DEF OpToRel
  <2> QED
    BY <1>1, <2>2
<1> QED
  BY <1>3

(* What steps do to the reports. *)
LEMMA ReportsStep ==
  ASSUME Shape, RunsShape, [Next]_vars
  PROVE  \/ UNCHANGED <<reports, dropped>>
         \/ BeginRun \/ PublishRun
         \/ Fail /\ Scripted /\ latest' = latest
<1>1. CASE \/ Edit \/ Commit \/ Withdraw \/ StartBuild \/ Compile \/ Bless
           \/ Aggregation \/ SupplyChain \/ Prepare \/ MoveAside \/ Publish \/ CommitSet
           \/ Rejected \/ RecoverEntry \/ RemoveTarget \/ Crash \/ UNCHANGED vars
           \/ \E s \in Scripts : Start(s)
  BY <1>1 DEF Edit, Commit, Withdraw, StartBuild, Compile, Bless, Aggregation, SupplyChain,
     Prepare, MoveAside, Publish, CommitSet, Rejected, RecoverEntry, RemoveTarget, Crash,
     Start, vars, history
<1>2. CASE ReadFails \/ CommittedMissing \/ Recovered \/ FileError
  <2>1. Scripted /\ latest' = latest
    BY <1>2, AtScripted DEF ReadFails, CommittedMissing, Recovered, FileError, Recovering,
       Opening, Moving, Shape
  <2>2. Fail \/ Kept
    BY <1>2 DEF ReadFails, CommittedMissing, Recovered, FileError
  <2> QED
    BY <2>1, <2>2 DEF Kept
<1> QED
  BY <1>1, <1>2 DEF Next, User, Build, Collect, Transaction, Recovery

LEMMA LatestStep == [Next]_vars => CommitSet \/ latest' = latest
BY DEF Next, User, Build, Collect, Transaction, Recovery, Edit, Commit, Withdraw, StartBuild,
   Start, Compile, Bless, BeginRun, PublishRun, Aggregation, SupplyChain, ReadFails, Prepare,
   MoveAside, Publish, Rejected, RecoverEntry, RemoveTarget, Recovered, CommittedMissing,
   FileError, Crash, vars, history

(* A script changes its own journal only, and only its commit settles it.    *)
LEMMA JournalStep ==
  ASSUME Shape, [Next]_vars
  PROVE  /\ \A t \in Scripts \ {proc.script} : journal'[t] = journal[t]
         /\ \A t \in Scripts : Settled(t)' => Settled(t) \/ CommitSet
<1>1. CASE UNCHANGED journal
  BY <1>1 DEF Settled
<1>2. CASE Prepare
  <2> DEFINE own == [phase |-> "PREPARED", had |-> {f \in Group(proc.script) : target[f] # Absent}]
  <2>1. journal' = [journal EXCEPT ![proc.script] = own] /\ own.phase = "PREPARED"
    BY <1>2 DEF Prepare
  <2> HIDE DEF own
  <2> QED
    BY <2>1 DEF Settled, Shape, FilesShape
<1>3. CASE CommitSet
  BY <1>3 DEF CommitSet, Shape, FilesShape
<1>4. CASE Recovered
  BY <1>4 DEF Recovered, Settled, Shape, FilesShape
<1>5. \/ UNCHANGED journal \/ Prepare \/ CommitSet \/ Recovered
  BY DEF Next, User, Build, Collect, Transaction, Recovery, Edit, Commit, Withdraw, StartBuild,
     Start, Compile, Bless, BeginRun, PublishRun, Aggregation, SupplyChain, ReadFails,
     MoveAside, Publish, Rejected, RecoverEntry, RemoveTarget, CommittedMissing,
     FileError, Crash, vars, files
<1> QED
  BY <1>1, <1>2, <1>3, <1>4, <1>5

LEMMA BeginRunStep ==
  ASSUME Shape, RunsShape, BeginRun
  PROVE  \E id \in Free :
           /\ id \in Runs /\ reports[id] = NoReports
           /\ reports' = [reports EXCEPT ![id] = Orphan]
           /\ proc'.id = id /\ proc'.script = "acceptance" /\ proc'.at = "test"
           /\ Scripted /\ proc.at = "read" /\ proc.script = "acceptance" /\ dropped' = dropped
<1> DEFINE id == CHOOSE i \in Free : \A j \in Free : i <= j
<1>1. id \in Free
  BY FreeNumber DEF BeginRun
<1>2. Scripted /\ proc.at = "read" /\ proc.script = "acceptance" /\ dropped' = dropped
  BY AtScripted DEF BeginRun, Opening, Shape, history
<1>3. /\ proc' = [proc EXCEPT !.at = "test", !.id = id, !.commit = head, !.dirty = Dirty]
      /\ reports' = [reports EXCEPT ![id] = Orphan]
  BY DEF BeginRun
<1> HIDE DEF id
<1> QED
  BY <1>1, <1>2, <1>3 DEF Free, Scripted

LEMMA PublishRunStep ==
  ASSUME Shape, Stamps, RunsShape, Quoted, PublishRun
  PROVE  /\ Scripted /\ proc.at = "test" /\ proc.script = "acceptance" /\ proc.id \in Runs
         /\ proc'.script = "acceptance" /\ proc'.at = "prepare" /\ proc'.id = proc.id
         /\ Names(proc'.next["input"], proc.id) /\ dropped' = dropped
         /\ reports' = [reports EXCEPT ![proc.id] = reports'[proc.id]]
         /\ reports'[proc.id] # NoReports /\ reports'[proc.id] # Orphan
<1>1. Scripted /\ proc.at = "test" /\ dropped' = dropped
  BY AtScripted DEF PublishRun, Opening, Shape, history
<1>2. proc.script = "acceptance" /\ proc.id \in Runs
  BY <1>1 DEF Stamps, Quoted, Scripted
<1> DEFINE c == [stamp |-> stamp, commit |-> proc.commit, bytes |-> bytes]
           i == [stamp |-> stamp, commit |-> proc.commit, run |-> proc.id]
           next == [NoFiles EXCEPT !.candidate = c, !.input = i]
<1>3. proc' = [proc EXCEPT !.at = "prepare", !.next = next]
  BY DEF PublishRun
<1>4. next["input"] = i
  BY DEF NoFiles, Files
<1>5. Names(i, proc.id)
  BY DEF Names
<1> HIDE DEF next, i
<1>6. PICK raw, external, tested :
         reports' = [reports EXCEPT ![proc.id] =
              [raw |-> raw, external |-> external, results |-> Results(raw, external),
               commit |-> proc.commit, dirty |-> proc.dirty, tested |-> tested]]
  BY DEF PublishRun
<1> DEFINE r == [raw |-> raw, external |-> external, results |-> Results(raw, external),
                 commit |-> proc.commit, dirty |-> proc.dirty, tested |-> tested]
<1>7. DOMAIN r # DOMAIN NoReports /\ DOMAIN r # DOMAIN Orphan
  BY DEF NoReports, Orphan
<1>8. r # NoReports /\ r # Orphan
  BY <1>7
<1> HIDE DEF r
<1>9. reports' = [reports EXCEPT ![proc.id] = r]
  BY <1>6 DEF r
<1>10. reports'[proc.id] = r
  BY <1>2, <1>9 DEF RunsShape
<1> QED
  BY <1>1, <1>2, <1>3, <1>4, <1>5, <1>8, <1>9, <1>10 DEF Scripted

LEMMA FailStep ==
  ASSUME Scripted, RunsShape, Fail
  PROVE  /\ proc' = Idle /\ proc'.script \notin Scripts
         /\ dropped' = (dropped \/ (proc.at = "finish" /\ proc.id # Nothing))
         /\ \/ reports' = reports /\ proc.id = Nothing
            \/ reports' = [reports EXCEPT ![proc.id] = NoReports] /\ proc.id # Nothing
BY DEF Fail, Idle, Scripts

(* The reports that release-input names are kept. *)
LEMMA RunStays ==
  ASSUME Shape, Stamps, RunsShape, Quoted, [Next]_vars, ~CommitSet, ~dropped', IsRun(latest),
         proc.script = "acceptance" /\ proc.at # "finish" => proc.id # latest
  PROVE  IsRun(latest)' /\ latest' = latest
<1>1. latest' = latest /\ latest \in Runs
  BY LatestStep DEF IsRun
<1>2. CASE reports' = reports
  BY <1>1, <1>2 DEF IsRun
<1>3. CASE BeginRun
  BY <1>1, <1>3, BeginRunStep DEF IsRun, RunsShape
<1>4. CASE PublishRun
  BY <1>1, <1>4, PublishRunStep DEF IsRun, RunsShape
<1>5. CASE Fail /\ Scripted
  <2>1. CASE proc.id # Nothing
    <3>1. proc.script = "acceptance" /\ proc.id # latest
      BY <1>5, <2>1, FailStep DEF Quoted, Scripted, Scripts
    <3> QED
      BY <1>1, <1>5, <2>1, <3>1, FailStep DEF IsRun, RunsShape
  <2> QED
    BY <1>2, <1>5, <2>1, FailStep
<1> QED
  BY <1>2, <1>3, <1>4, <1>5, ReportsStep

LEMMA RunsShapeStep == ASSUME Shape, Stamps, RunsShape, Quoted, [Next]_vars PROVE RunsShape'
<1>1. CASE UNCHANGED <<reports, dropped>>
  BY <1>1 DEF RunsShape
<1>2. CASE BeginRun
  BY <1>2, BeginRunStep DEF RunsShape
<1>3. CASE PublishRun
  BY <1>3, PublishRunStep DEF RunsShape
<1>4. CASE Fail /\ Scripted
  BY <1>4, FailStep DEF RunsShape
<1> QED
  BY <1>1, <1>2, <1>3, <1>4, ReportsStep

LEMMA StartIs ==
  ASSUME NEW s \in Scripts, Start(s)
  PROVE  /\ proc'.script = s /\ proc'.id = Nothing /\ proc'.at \in {"read", "recover"}
         /\ proc = Idle /\ UNCHANGED <<reports, dropped, latest>>
BY DEF Start

(* release:evidence and release:sbom quote the input they have read. *)
LEMMA AggregateStep ==
  ASSUME Shape, Moved, Stamps, Quoted, Named, Aggregation \/ SupplyChain
  PROVE  /\ proc'.script \in {"evidence", "sbom"} /\ proc'.script = proc.script
         /\ proc'.id = Nothing /\ Scripted
         /\ UNCHANGED <<reports, dropped, latest, mixed, files>>
         /\ ~mixed /\ Unshared => Names(proc'.next["input"], latest) /\ View("input") # Absent
<1>1. /\ Scripted /\ proc.at = "read" /\ proc.script \in {"evidence", "sbom"}
      /\ UNCHANGED <<reports, dropped, latest, mixed, files>> /\ target.input # Absent
  BY AtScripted DEF Aggregation, SupplyChain, Opening, Shape, history, Loadable
<1> DEFINE i == [target.input EXCEPT !.stamp = stamp]
<1>2. \A e : WithEvidence(e)["input"] = i /\ WithEvidence(e) = [f \in Files |-> WithEvidence(e)[f]]
  BY DEF WithEvidence, NoFiles, Files
<1>3. proc'.script = proc.script /\ proc'.id = proc.id /\ proc'.next["input"] = i
  <2>1. CASE Aggregation
    <3> DEFINE next == WithEvidence(Aggregate(target, stamp, SupplyStates(target)))
    <3>1. proc' = [proc EXCEPT !.at = "prepare", !.next = next]
      BY <2>1 DEF Aggregation
    <3>2. next["input"] = i
      BY <1>2
    <3> HIDE DEF next, i
    <3> QED
      BY <1>1, <3>1, <3>2 DEF Scripted
  <2>2. CASE SupplyChain
    <3> DEFINE run == target.input.run
               states == [sbom |-> "pass", sums |-> "pass", signature |-> Signature(bytes)]
               supply == [stamp |-> stamp, commit |-> reports[run].commit, bytes |-> bytes,
                          clean |-> SourceClean(run), lock |-> Lock[head],
                          signature |-> Signature(bytes)]
               e == Aggregate(target, stamp, states)
               next == [WithEvidence(e) EXCEPT
                          !.candidate = target.candidate, !.supply = supply]
               sums == [stamp |-> stamp, of |-> Sums(next, run)]
               all == [next EXCEPT !.candidate = Absent, !.sums = sums]
    <3>1. proc' = [proc EXCEPT !.at = "prepare", !.next = all]
      BY <2>2 DEF SupplyChain
    <3> HIDE DEF sums, supply, e
    <3>2. all["input"] = i
      BY <1>2 DEF Files
    <3> HIDE DEF all, next, i
    <3> QED
      BY <1>1, <3>1, <3>2 DEF Scripted
  <2> QED
    BY <2>1, <2>2
<1>4. ASSUME ~mixed, Unshared PROVE Names(i, latest) /\ View("input") # Absent
  <2>1. \A t \in Scripts : journal[t] = Nothing
    BY <1>1, <1>4 DEF Moved, Own, Unshared, Scripted, Opening
  <2>2. View("input") = target.input
    BY <2>1 DEF View, Files
  <2>3. Names(target.input, latest)
    BY <1>1, <1>4, <2>2 DEF Named
  <2> QED
    BY <1>1, <2>2, <2>3 DEF Names
<1> QED
  BY <1>1, <1>3, <1>4 DEF Quoted

LEMMA QuotedStep ==
  ASSUME Shape, Moved, Alone, Stamps, Quotes, [Next]_vars
  PROVE  Quoted'
<1>1. RunsShape /\ Quoted /\ Named
  BY DEF Quotes
<1>2. \A t \in Scripts \ {proc.script} : journal'[t] = journal[t]
  BY JournalStep
<1>3. ~CommitSet /\ ~mixed' => ~mixed /\ View("input")' = View("input") /\ latest' = latest
  BY StepView, LatestStep DEF ViewStays, Files
<1>4. CASE Ends
  BY <1>4 DEF Ends, Quoted, Scripts
<1>5. ASSUME NEW s \in Scripts, Start(s) PROVE Quoted'
  BY <1>5, StartIs DEF Quoted, Writing
<1>6. CASE BeginRun
  BY <1>1, <1>6, BeginRunStep DEF Quoted, Writing
<1>7. CASE PublishRun
  <2>1. IsRun(proc.id)'
    BY <1>1, <1>7, PublishRunStep DEF IsRun
  <2> QED
    BY <1>1, <1>7, <2>1, PublishRunStep DEF Quoted, IsRun
<1>8. CASE Aggregation \/ SupplyChain
  <2>1. ~CommitSet
    BY <1>8 DEF Aggregation, SupplyChain, CommitSet
  <2>2. Unshared' => Unshared
    BY <1>1, <1>2, <1>8, AggregateStep DEF Unshared
  <2> QED
    BY <1>1, <1>3, <1>8, <2>1, <2>2, AggregateStep DEF Quoted
<1>9. CASE Continues \/ proc' = proc
  <2>1. /\ proc'.script = proc.script /\ proc'.id = proc.id /\ proc'.next = proc.next
        /\ proc'.at \in Writing => proc.at \in Writing
        /\ proc'.at = "test" => proc.at = "test"
        /\ proc'.at \in Writing => ~(proc.at # "prepare" /\ proc'.at = "prepare")
    BY <1>9 DEF Continues, Writing, Moving
  <2>2. CASE proc.script \in Scripts /\ proc'.at \in Writing
    <3>1. ~CommitSet
      BY <2>1, <2>2 DEF CommitSet, Goes, Writing, Shape, ProcShape, Scripted, Idle
    <3>2. ~BeginRun
      BY <1>1, <2>1, <2>2, BeginRunStep DEF Writing
    <3>3. ~PublishRun
      BY <1>1, <2>1, <2>2, PublishRunStep DEF Writing
    <3>4. ~Fail \/ ~Scripted
      BY <1>1, <2>1, <2>2, FailStep
    <3>5. UNCHANGED <<reports, dropped>>
      BY <1>1, <3>2, <3>3, <3>4, ReportsStep
    <3>6. Unshared' => Unshared
      BY <1>2, <2>1 DEF Unshared
    <3> QED
      BY <1>1, <1>3, <2>1, <2>2, <3>1, <3>5, <3>6 DEF Quoted, IsRun
  <2> QED
    BY <1>1, <2>1, <2>2 DEF Quoted, Scripts
<1> QED
  BY <1>4, <1>5, <1>6, <1>7, <1>8, <1>9, ProcStep

LEMMA NamedStep ==
  ASSUME Shape, Moved, Alone, Stamps, Quotes, [Next]_vars
  PROVE  Named'
<1>1. RunsShape /\ Quoted /\ Named
  BY DEF Quotes
<1>2. CASE CommitSet
  <2>1. /\ Scripted /\ proc.at = "commit" /\ proc' = [proc EXCEPT !.at = "finish"]
        /\ UNCHANGED <<reports, dropped, mixed>>
        /\ latest' = IF proc.script = "acceptance" THEN proc.id ELSE latest
        /\ proc'.at = "finish" /\ proc'.script = proc.script
    BY <1>2, AtScripted DEF CommitSet, Goes, Moving, Shape, Scripted
  <2> SUFFICES ASSUME ~mixed' PROVE Named'
    BY DEF Named
  <2>2. /\ ~mixed /\ Alone'
        /\ \A f \in Files : View(f)' = IF f \in Mine THEN proc.next[f] ELSE View(f)
    BY <1>2, <2>1, CommitView
  <2>3. proc.script \in Scripts /\ Mine \subseteq Files /\ "input" \in Mine
    <3>1. proc.script \in Scripts
      BY <2>1 DEF Scripted
    <3>2. "input" \in Mine
      BY <3>1 DEF Mine, Group, Entries, ToSet, Scripts
    <3> QED
      BY <3>1, <3>2, EntriesOf DEF Mine
  <2>4. journal[proc.script] # Nothing
    BY <2>1, <2>3 DEF Shape, ProcFits, Moving
  <2>5. Unshared
    BY <2>1, <2>2, <2>4, MovingAlone DEF Own, Unshared
  <2>6. \A s \in Scripts : Settled(s)' => s = proc.script
    BY <2>5, JournalStep DEF Unshared, Settled
  <2>7. \A f \in Mine : proc.next[f] # Absent
    <3>1. \A f \in Mine : proc.next[f].stamp = stamp /\ stamp > 0
      BY <2>1 DEF Stamps, Scripted
    <3> QED
      BY <3>1 DEF Absent
  <2>8. \A s \in Scripts, f \in Files : Settled(s)' /\ f \in Group(s) => View(f)' # Absent
    BY <2>2, <2>3, <2>6, <2>7 DEF Mine
  <2>9. Names(View("input"), latest)'
    <3>1. View("input")' = proc.next["input"]
      BY <2>2, <2>3
    <3>2. CASE proc.script = "acceptance"
      BY <1>1, <2>1, <3>1, <3>2 DEF Quoted, Writing, Names
    <3>3. CASE proc.script # "acceptance"
      BY <1>1, <2>1, <2>2, <2>3, <2>5, <3>1, <3>3 DEF Quoted, Writing, Names, Scripts
    <3> QED
      BY <3>2, <3>3
  <2>10. ~dropped' => IsRun(latest)'
    <3>1. CASE proc.script = "acceptance"
      BY <1>1, <2>1, <3>1 DEF Quoted, Writing, IsRun
    <3>2. CASE proc.script # "acceptance"
      BY <1>1, <2>1, <2>2, <2>3, <2>5, <3>2 DEF Quoted, Writing, IsRun, Named, Scripts
    <3> QED
      BY <3>1, <3>2
  <2> QED
    BY <2>1, <2>8, <2>9, <2>10 DEF Named
<1>3. CASE ~CommitSet
  <2> SUFFICES ASSUME ~mixed' PROVE Named'
    BY DEF Named
  <2>1. /\ ~mixed /\ \A f \in Files : View(f)' = View(f)
        /\ latest' = latest /\ \A s \in Scripts : Settled(s)' => Settled(s)
    BY <1>3, StepView, LatestStep, JournalStep DEF ViewStays
  <2>2. View("input")' = View("input")
    BY <2>1 DEF Files
  <2>3. \A s \in Scripts, f \in Files : Settled(s)' /\ f \in Group(s) => View(f)' # Absent
    BY <1>1, <2>1 DEF Named
  <2>4. ASSUME View("input") # Absent, ~dropped'
        PROVE  /\ IsRun(latest)'
               /\ (proc.script = "acceptance" /\ proc.at # "finish" => proc.id # latest)'
    <3>1. ~dropped
      <4>1. CASE Fail /\ Scripted
        BY <1>1, <2>4, <4>1, FailStep DEF RunsShape
      <4>2. CASE BeginRun \/ PublishRun
        BY <1>1, <2>4, <4>2, BeginRunStep, PublishRunStep
      <4> QED
        BY <1>1, <2>4, <4>1, <4>2, ReportsStep
    <3>2. IsRun(latest) /\ (proc.script = "acceptance" /\ proc.at # "finish" => proc.id # latest)
      BY <1>1, <2>1, <2>4, <3>1 DEF Named
    <3>3. IsRun(latest)'
      BY <1>1, <1>3, <2>4, <3>2, RunStays
    <3>4. ASSUME proc'.script = "acceptance", proc'.at # "finish" PROVE proc'.id # latest
      <4>1. CASE proc' = proc
        BY <3>2, <3>4, <4>1
      <4>2. CASE Ends
        BY <3>4, <4>2 DEF Ends, Scripts
      <4>3. CASE Continues
        BY <3>2, <3>4, <4>3 DEF Continues
      <4>4. ASSUME NEW s \in Scripts, Start(s) PROVE proc'.id # latest
        <5>1. Nothing \notin Runs
          BY NothingAssumption, Bounds DEF Runs
        <5> QED
          BY <3>2, <4>4, <5>1, StartIs DEF IsRun
      <4>5. CASE BeginRun
        BY <1>1, <3>2, <4>5, BeginRunStep DEF IsRun
      <4>6. CASE PublishRun
        BY <1>1, <3>2, <4>6, PublishRunStep
      <4>7. CASE Aggregation \/ SupplyChain
        BY <1>1, <3>4, <4>7, AggregateStep
      <4> QED
        BY <4>1, <4>2, <4>3, <4>4, <4>5, <4>6, <4>7, ProcStep
    <3> QED
      BY <2>1, <3>3, <3>4
  <2> QED
    BY <1>1, <2>1, <2>2, <2>3, <2>4 DEF Named, Names
<1> QED
  BY <1>2, <1>3

LEMMA StepQuotes ==
  ASSUME Transactional, Quotes, [Next]_vars
  PROVE  Quotes'
BY RunsShapeStep, QuotedStep, NamedStep DEF Quotes, Transactional

LEMMA ReleaseHolds == Transactional /\ Quotes => ReleaseConsistent
<1> SUFFICES ASSUME Transactional, Quotes PROVE ReleaseConsistent
  OBVIOUS
<1>1. Shape /\ Moved /\ Alone /\ Named
  BY DEF Transactional, Quotes
<1>2. proc.at \in {"idle", "compile", "bless", "read", "test", "prepare", "aside",
                   "publish", "commit", "recover", "undo", "finish"}
  BY <1>1 DEF Shape, ProcShape, Scripted, Idle, Opening, Moving
<1>3. \A s \in Scripts : journal[s] = Nothing => backup[s] = NoFiles
  BY <1>1 DEF Shape, FilesShape, Moved, BackupsHaveJournals, NoFiles
<1>4. ASSUME ~mixed, NEW s \in Scripts, Settled(s), NEW f \in Group(s) PROVE target[f] # Absent
  <2>1. f \in Files /\ View(f) # Absent
    BY <1>1, <1>4, EntriesOf DEF Named
  <2>2. \A t \in Scripts \ {s} : journal[t] = Nothing
    BY <1>1, <1>4 DEF Alone, Settled
  <2>3. View(f) = target[f]
    BY <1>4, <2>2, ViewOf DEF Undone, Settled
  <2> QED
    BY <2>1, <2>3
<1>5. ~mixed /\ View("input") # Absent =>
        View("input").run = latest /\ (~dropped => IsRun(latest))
  BY <1>1 DEF Named, Names
<1> QED
  BY <1>2, <1>3, <1>4, <1>5 DEF ReleaseConsistent, Settled

(* The files are where the journals say, whatever crashed: no backup without *)
(* a journal, a committed set is there, and release-input names the last run  *)
(* that was committed, with its reports (json-transaction and the acceptance *)
(* script's catch).                                                         *)
THEOREM FilesAreWhereJournalsSay == Spec => []ReleaseConsistent
<1>1. Init => Transactional /\ Quotes
  BY InitTransactional, InitQuotes
<1>2. (Transactional /\ Quotes) /\ [Next]_vars => (Transactional /\ Quotes)'
  BY StepTransactional, StepQuotes
<1> QED
  BY <1>1, <1>2, ReleaseHolds, PTL DEF Spec

-----------------------------------------------------------------------------
(* Stage 6: what the files of the set hold, wherever they lie.              *)

(* A build has that number; the tree was at that commit, or changed meanwhile. *)
BuiltAt(b, commit) == b \in 1..builds /\ builtFrom[b] \in {Nothing, commit}

(* Files that a script publishes together, written from one another. *)
FileFits(f, x) ==
    x # Absent =>
      /\ f = "candidate" /\ x.bytes # Nothing => BuiltAt(x.bytes, x.commit)
      /\ f = "input" => {"commit", "run"} \subseteq DOMAIN x
      /\ f = "texts" => x.of.stamp = x.stamp
      /\ f = "sums" => x.of.evidence.stamp = x.stamp /\ x.of.supply.stamp = x.stamp

Held(f) == {target[f]} \cup {backup[s][f] : s \in Scripts}
                       \cup (IF proc.script \in Scripts THEN {proc.next[f]} ELSE {})
FilesFit == \A f \in Files : \A x \in Held(f) : FileFits(f, x)

(* The installer and its provenance are of a build of that commit. *)
BuildsFit ==
    /\ head \in Nat /\ (proc # Idle => proc.commit \in Nat)
    /\ builds \in 0..MaxBuilds /\ builtFrom = [b \in 1..MaxBuilds |-> builtFrom[b]]
    /\ bytes \in 1..builds \cup {Nothing}
    /\ provenance # Nothing =>
         /\ provenance.bytes \in Nat /\ provenance.commit \in Nat
         /\ BuiltAt(provenance.bytes, provenance.commit)
    /\ proc.at = "compile" => builds < MaxBuilds
    /\ proc.at = "bless" /\ bytes # Nothing => BuiltAt(bytes, proc.commit)

(* External evidence is of external cases, passed or failed. *)
ReportsFit ==
    \A id \in Runs : IsRun(id) =>
        \A c \in DOMAIN reports[id].external :
            c \in External /\ reports[id].external[c] \in {"PASS", "FAIL"}

(* What release:verify accepts of a set of files. *)
Whole(disk) ==
    /\ disk.texts # Absent /\ Derives(disk) /\ disk.texts.of = disk.evidence
    /\ SumsHold(disk, disk.evidence.run) /\ disk.evidence.states.sums = "pass"

(* The same of an expression that a step may change. *)
IsWhole(set) == \E disk : disk = set /\ Whole(disk)

(* The set as it will be when release:sbom has published its files. *)
Coming == [f \in Files |-> IF f \in Group("sbom") THEN proc.next[f] ELSE target[f]]

(* While nobody touches the repository, release:sbom makes a whole set. *)
Converging ==
    /\ quiet \in {"no", "working", "yes"}
    /\ quiet = "working" =>
         \/ proc = Idle
         \/ /\ proc.script = "sbom" /\ proc.at \in Writing \cup {"undo", "finish"}
            /\ proc.at \in Writing => IsWhole(Coming)
            /\ proc.at = "finish" => IsWhole(target)
    /\ quiet = "yes" => proc = Idle /\ IsWhole(target)

Verified == FilesFit /\ BuildsFit /\ ReportsFit /\ audit \in Audits

-----------------------------------------------------------------------------
(* The verdict of release:verify follows. *)
LEMMA ReadySays ==
  ASSUME target.evidence = Aggregate(target, target.evidence.stamp, SupplyStates(target)),
         Disposition(target.evidence) = "ready"
  PROVE  /\ \A c \in Cases : reports[target.input.run].results[c] = "PASS"
         /\ ~reports[target.input.run].dirty /\ SourceClean(target.input.run)
         /\ bytes \in SignedBuilds /\ audit # Nothing /\ ~audit.open
         /\ target.candidate.bytes # Nothing
         /\ {"EXT02", "EXT04", "EXT08", "EXT10"} \subseteq Provided[head]
         /\ target.evidence.states.sbom = "pass" /\ target.evidence.states.sums = "pass"
         /\ target.evidence.states.signature = "valid" /\ FormalToolchain
         /\ ~Unclean(target.evidence)
<1> DEFINE e == target.evidence
           run == target.input.run
<1>1. /\ e.run = run /\ e.result = reports[run] /\ e.inventory = target.candidate
      /\ e.audit = audit /\ e.inputs = Provided[head] /\ e.states = SupplyStates(target)
      /\ e.clean = (~reports[run].dirty /\ SourceClean(run))
  BY DEF Aggregate
<1>2. /\ e.audit # Nothing /\ ~e.audit.open /\ e.inventory.bytes # Nothing /\ e.clean
      /\ "EXT02" \in e.inputs /\ AllPass(e)
      /\ e.states.signature = "valid" /\ e.states.sbom = "pass" /\ e.states.sums = "pass"
      /\ FormalToolchain /\ {"EXT04", "EXT08", "EXT10"} \subseteq e.inputs
  BY DEF Disposition
<1>3. bytes \in SignedBuilds
  BY <1>1, <1>2 DEF SupplyStates, SigningHolds, Signature
<1> QED
  BY <1>1, <1>2, <1>3 DEF AllPass, Unclean

(* A run fails, was not executed or was blocked where it did not pass. *)
LEMMA NotPassed ==
  ASSUME ReportsFit, NEW id \in Runs, IsRun(id), RunHolds(reports[id]), NEW c \in Cases,
         reports[id].results[c] \notin {"PASS", "FAIL", "NOT_RUN"}
  PROVE  c \in External /\ reports[id].results[c] = "BLOCKED"
<1>1. reports[id].results[c] = Results(reports[id].raw, reports[id].external)[c]
  BY DEF RunHolds
<1> QED
  BY <1>1 DEF Results, ReportsFit

(* What is listed as a gap besides the inputs that are not there. *)
Open(e) ==
    \/ e.inventory.bytes = Nothing \/ e.audit = Nothing \/ Unclean(e)
    \/ Failing(e) # {} \/ (e.audit # Nothing /\ e.audit.open)
    \/ \E c \in Cases : e.result.results[c] = "NOT_RUN"
    \/ e.states.sbom # "pass" \/ e.states.sums # "pass"
    \/ (~FormalToolchain /\ e.states.sbom = "pass")
    \/ (e.inventory.bytes # Nothing /\ e.states.signature # "valid")

LEMMA GapsOf ==
  ASSUME NEW e
  PROVE  /\ AllInputs \ e.inputs \subseteq Gaps(e)
         /\ ~Open(e) => Gaps(e) = AllInputs \ e.inputs
         /\ Gaps(e) = {} => ~Open(e)
<1> DEFINE open == [candidate |-> e.inventory.bytes = Nothing,
                    audit |-> e.audit = Nothing,
                    dirty |-> Unclean(e),
                    failures |-> Failing(e) # {},
                    defects |-> e.audit # Nothing /\ e.audit.open,
                    not_run |-> \E c \in Cases : e.result.results[c] = "NOT_RUN",
                    sbom |-> e.states.sbom # "pass",
                    sums |-> e.states.sums # "pass",
                    toolchain |-> ~FormalToolchain /\ e.states.sbom = "pass",
                    signature |-> e.inventory.bytes # Nothing /\ e.states.signature # "valid"]
           listed == {g \in DOMAIN open : open[g]}
<1>1. Gaps(e) = (AllInputs \ e.inputs) \cup listed
  BY DEF Gaps
<1>2. ~Open(e) => listed = {}
  <2> SUFFICES ASSUME ~Open(e), NEW g \in DOMAIN open PROVE ~open[g]
    OBVIOUS
  <2>1. /\ ~open.candidate /\ ~open.audit /\ ~open.dirty /\ ~open.failures /\ ~open.defects
        /\ ~open.not_run /\ ~open.sbom /\ ~open.sums /\ ~open.toolchain /\ ~open.signature
    BY DEF Open
  <2>2. DOMAIN open = {"candidate", "audit", "dirty", "failures", "defects", "not_run", "sbom",
                       "sums", "toolchain", "signature"}
    OBVIOUS
  <2> HIDE DEF open
  <2> QED
    BY <2>1, <2>2
<1>3. listed = {} => ~Open(e)
  <2> SUFFICES ASSUME \A g \in DOMAIN open : ~open[g] PROVE ~Open(e)
    OBVIOUS
  <2>1. /\ ~open.candidate /\ ~open.audit /\ ~open.dirty /\ ~open.failures /\ ~open.defects
        /\ ~open.not_run /\ ~open.sbom /\ ~open.sums /\ ~open.toolchain /\ ~open.signature
    OBVIOUS
  <2> QED
    BY <2>1 DEF Open
<1> HIDE DEF listed
<1> QED
  BY <1>1, <1>2, <1>3

LEMMA WholeIs ==
  ASSUME VerifyCode # 1
  PROVE  Whole(target)
BY DEF VerifyCode, Whole

LEMMA VerifiedHolds ==
  ASSUME FilesFit, audit \in Audits
  PROVE  VerifiedIsWhole
<1> DEFINE e == target.evidence
           run == reports[e.run]
<1> SUFFICES ASSUME VerifyCode # 1
             PROVE  /\ \A f \in {"texts", "supply", "sums"} : target[f].stamp = e.stamp
                    /\ e.result = run /\ e.inventory.bytes = bytes
                    /\ e.inventory.commit = run.commit
                    /\ bytes # Nothing => builtFrom[bytes] \in {Nothing, run.commit}
                    /\ VerifyCode = 0 =>
                         /\ \A c \in Cases : run.results[c] = "PASS"
                         /\ External # {} => run.tested = bytes
                         /\ ~run.dirty /\ head = run.commit /\ ~edited
                         /\ bytes \in SignedBuilds
                         /\ audit = [commit |-> run.commit, open |-> FALSE]
                         /\ Gaps(e) \subseteq AllInputs \ {"EXT02", "EXT04", "EXT08", "EXT10"}
  BY DEF VerifiedIsWhole
<1>1. /\ target.texts # Absent /\ target.texts.of = e /\ SumsHold(target, e.run)
      /\ e = Aggregate(target, e.stamp, SupplyStates(target)) /\ Loadable(target)
  BY WholeIs DEF Whole, Derives
<1>2. \A f \in Files : FileFits(f, target[f])
  BY DEF FilesFit, Held
<1>3. /\ e.run = target.input.run /\ e.result = run /\ e.inventory = target.candidate
      /\ e.audit = audit /\ e.inputs = Provided[head]
  BY <1>1 DEF Aggregate
<1>4. \A f \in {"texts", "supply", "sums"} : target[f].stamp = e.stamp
  <2>1. target.texts.stamp = e.stamp
    BY <1>1, <1>2 DEF FileFits, Files
  <2>2. target.sums # Absent /\ target.sums.of.evidence = e /\ target.sums.of.supply = target.supply
    BY <1>1 DEF SumsHold, Sums
  <2>3. target.sums.stamp = e.stamp /\ target.supply.stamp = target.sums.stamp
    BY <1>2, <2>2 DEF FileFits, Files
  <2> QED
    BY <2>1, <2>3
<1>5. /\ target.candidate # Absent /\ target.candidate.bytes = bytes
      /\ target.candidate.commit = run.commit /\ RunHolds(run) /\ AuditFits(run.commit)
  BY <1>1, <1>3 DEF Loadable
<1>6. bytes # Nothing => builtFrom[bytes] \in {Nothing, run.commit}
  BY <1>2, <1>5 DEF FileFits, Files, BuiltAt
<1>7. ASSUME VerifyCode = 0
      PROVE  /\ \A c \in Cases : run.results[c] = "PASS"
             /\ External # {} => run.tested = bytes
             /\ ~run.dirty /\ head = run.commit /\ ~edited
             /\ bytes \in SignedBuilds
             /\ audit = [commit |-> run.commit, open |-> FALSE]
             /\ Gaps(e) \subseteq AllInputs \ {"EXT02", "EXT04", "EXT08", "EXT10"}
  <2>1. Disposition(e) = "ready"
    BY <1>7 DEF VerifyCode
  <2>2. /\ \A c \in Cases : run.results[c] = "PASS"
        /\ ~run.dirty /\ SourceClean(e.run)
        /\ bytes \in SignedBuilds /\ audit # Nothing /\ ~audit.open
        /\ target.candidate.bytes # Nothing
        /\ {"EXT02", "EXT04", "EXT08", "EXT10"} \subseteq Provided[head]
        /\ e.states.sbom = "pass" /\ e.states.sums = "pass"
        /\ e.states.signature = "valid" /\ FormalToolchain /\ ~Unclean(e)
    BY <1>1, <1>3, <2>1, ReadySays
  <2>3. head = run.commit /\ ~edited
    BY <2>2 DEF SourceClean, CleanBut
  <2>4. ASSUME External # {} PROVE run.tested = bytes
    <3>1. PICK c \in External : TRUE
      BY <2>4
    <3>2. run.results[c] = "PASS" /\ run.results = Results(run.raw, run.external) /\ c \in Cases
      BY <1>5, <2>2, <3>1 DEF RunHolds, External
    <3>3. c \in DOMAIN run.external
      BY <3>1, <3>2 DEF Results
    <3>4. run.external # <<>>
      BY <3>3
    <3> QED
      BY <1>5, <3>4 DEF RunHolds
  <2>5. audit = [commit |-> run.commit, open |-> FALSE]
    <3>1. audit \in [commit : Nat, open : BOOLEAN]
      BY <2>2, ReleaseAssumption
    <3> QED
      BY <1>5, <2>2, <3>1 DEF AuditFits
  <2>6. Gaps(e) = AllInputs \ Provided[head]
    <3>1. Failing(e) = {} /\ ~(\E c \in Cases : e.result.results[c] = "NOT_RUN")
      BY <1>3, <2>2 DEF Failing
    <3> QED
      BY <1>3, <2>2, <3>1, GapsOf DEF Open
  <2> QED
    BY <2>2, <2>3, <2>4, <2>5, <2>6
<1> QED
  BY <1>3, <1>4, <1>5, <1>6, <1>7

LEMMA RefusalHolds ==
  ASSUME ReportsFit
  PROVE  NotReadySaysWhy
<1> DEFINE e == target.evidence
           run == reports[e.run]
<1> SUFFICES ASSUME VerifyCode = 2, Gaps(e) = {}
             PROVE  \E c \in External : e.result.results[c] = "BLOCKED"
  BY DEF NotReadySaysWhy
<1>1. /\ e = Aggregate(target, e.stamp, SupplyStates(target)) /\ Loadable(target)
      /\ Disposition(e) # "ready"
  BY WholeIs DEF Whole, Derives, VerifyCode
<1>2. e.run = target.input.run /\ e.result = run
  BY <1>1 DEF Aggregate
<1>3. IsRun(e.run) /\ e.run \in Runs /\ RunHolds(run)
  BY <1>1, <1>2 DEF Loadable, IsRun
<1>4. ~Open(e) /\ AllInputs \subseteq e.inputs
  BY GapsOf
<1>5. {"EXT02", "EXT04", "EXT08", "EXT10"} \subseteq e.inputs
  BY <1>4, ReleaseAssumption
<1>6. ~AllPass(e)
  BY <1>1, <1>4, <1>5 DEF Disposition, Open, Unclean
<1>7. PICK c \in Cases : e.result.results[c] # "PASS"
  BY <1>6 DEF AllPass
<1>8. run.results[c] \notin {"PASS", "FAIL", "NOT_RUN"}
  BY <1>2, <1>4, <1>7 DEF Open, Failing
<1> QED
  BY <1>2, <1>3, <1>8, NotPassed

LEMMA VerdictHolds ==
  ASSUME Verified
  PROVE  VerdictIsTrue
BY VerifiedHolds, RefusalHolds DEF Verified, VerdictIsTrue

(* The set that release:sbom has published is the one it has made. *)
LEMMA ConvergesHolds ==
  ASSUME Shape, Moved, Converging
  PROVE  SingleRoundConverges
<1>1. ASSUME quiet = "working", proc.at = "commit" PROVE Accepted
  <2>1. proc.script = "sbom" /\ Whole(Coming)
    BY <1>1 DEF Converging, Writing, Idle, IsWhole
  <2>2. /\ Mine = Group("sbom") /\ \A f \in Mine : target[f] = proc.next[f]
        /\ Mine \subseteq Files
    BY <1>1, <2>1, EntriesOf DEF Moved, PublishDone, Mine, Scripts
  <2>3. Coming = target
    BY <2>2 DEF Coming, Shape, FilesShape
  <2> QED
    BY <2>1, <2>3 DEF Whole, Accepted, Derives, Loadable
<1>2. ASSUME quiet = "yes" PROVE VerifyCode # 1
  BY <1>2 DEF Converging, IsWhole, Whole, VerifyCode
<1> QED
  BY <1>1, <1>2 DEF SingleRoundConverges

-----------------------------------------------------------------------------
LEMMA InitVerified == Init => Verified /\ Converging
<1> SUFFICES ASSUME Init PROVE Verified /\ Converging
  OBVIOUS
<1>1. FilesFit
  <2>1. proc.script \notin Scripts
    BY DEF Init, Idle, Scripts
  <2>2. \A f \in Files : Held(f) \subseteq {Absent}
    BY <2>1 DEF Init, Held, NoFiles
  <2> QED
    BY <2>2 DEF FilesFit, FileFits
<1>2. BuildsFit
  <2>1. head = 1 /\ builds = 0 /\ bytes = Nothing /\ provenance = Nothing /\ proc = Idle
    BY DEF Init
  <2>2. MaxBuilds \in Nat
    BY ReleaseAssumption
  <2>3. builtFrom = [b \in 1..MaxBuilds |-> builtFrom[b]]
    BY DEF Init
  <2>4. proc.at = "idle"
    BY <2>1 DEF Idle
  <2> QED
    BY <2>1, <2>2, <2>3, <2>4 DEF BuildsFit
<1>3. ReportsFit
  BY DEF Init, ReportsFit, IsRun
<1>4. Converging /\ audit \in Audits
  BY DEF Init, Converging
<1> QED
  BY <1>1, <1>2, <1>3, <1>4 DEF Verified

(* Only a build changes which builds there are, and it adds one. *)
LEMMA BuiltStays ==
  ASSUME BuildsFit, [Next]_vars, NEW b, NEW commit, BuiltAt(b, commit)
  PROVE  BuiltAt(b, commit)'
<1>1. CASE Compile
  <2>1. builds < MaxBuilds /\ builds \in Nat /\ MaxBuilds \in Nat
    BY <1>1, ReleaseAssumption DEF Compile, BuildsFit
  <2>2. b \in 1..builds /\ builds' = builds + 1
    BY <1>1 DEF Compile, BuiltAt
  <2>3. builtFrom'[b] = builtFrom[b]
    BY <1>1, <2>1, <2>2 DEF Compile, BuildsFit
  <2> QED
    BY <2>1, <2>2, <2>3 DEF BuiltAt
<1>2. CASE ~Compile
  <2>1. UNCHANGED <<builds, builtFrom>>
    BY <1>2 DEF Next, User, Build, Collect, Transaction, Recovery, Edit, Commit, Withdraw,
       StartBuild, Start, Bless, BeginRun, PublishRun, Aggregation, SupplyChain, ReadFails,
       Prepare, MoveAside, Publish, CommitSet, Rejected, RecoverEntry, RemoveTarget, Recovered,
       CommittedMissing, FileError, Crash, vars, candidate
  <2> QED
    BY <2>1 DEF BuiltAt
<1> QED
  BY <1>1, <1>2

LEMMA FitsStay ==
  ASSUME BuildsFit, [Next]_vars, NEW f, NEW x, FileFits(f, x)
  PROVE  FileFits(f, x)'
BY BuiltStays DEF FileFits

(* Files are moved, removed, or written by a script that has read the set. *)
LEMMA HeldStep ==
  ASSUME Shape, Moved, Stamps, [Next]_vars, NEW f \in Files
  PROVE  \/ Held(f)' \subseteq Held(f) \cup {Absent}
         \/ /\ PublishRun \/ Aggregation \/ SupplyChain
            /\ Held(f)' \subseteq Held(f) \cup {proc'.next[f]}
<1>1. \/ proc'.script \in Scripts => proc.script \in Scripts /\ proc'.next = proc.next
      \/ \E s \in Scripts : Start(s)
      \/ PublishRun \/ Aggregation \/ SupplyChain
  <2>1. CASE BeginRun
    <3>1. Scripted /\ proc' = [proc EXCEPT !.at = "test", !.id = proc'.id,
                                           !.commit = head, !.dirty = Dirty]
      BY <2>1, AtScripted DEF BeginRun, Opening, Shape, Scripted
    <3> QED
      BY <3>1 DEF Scripted
  <2> QED
    BY <2>1, ProcStep DEF Ends, Continues, Scripted
<1>2. CASE MoveAside
  <2>1. Held(f)' \subseteq Held(f) \cup {Absent}
    BY <1>2, AsideStep DEF Held, Scripted, Shape, FilesShape
  <2> QED
    BY <2>1
<1>3. CASE Publish
  <2>1. Held(f)' \subseteq Held(f) \cup {Absent}
    BY <1>3, PublishStep DEF Held, Scripted, Shape, FilesShape
  <2> QED
    BY <2>1
<1>4. CASE RecoverEntry
  <2>1. Held(f)' \subseteq Held(f) \cup {Absent}
    <3>1. proc.script \in Scripts /\ proc'.script = proc.script
      BY <1>4, RecoverStep
    <3>2. proc'.next = proc.next
      BY <1>1, <1>4, <3>1 DEF RecoverEntry, Start, PublishRun, Aggregation, SupplyChain, Recovering, Idle
    <3>3. target'[f] \in {Absent, target[f], backup[proc.script][f]}
      BY <1>4, RecoverStep DEF Shape, FilesShape, Restored
    <3>4. \A s \in Scripts : backup'[s][f] \in {Absent, backup[s][f]}
      BY <1>4, RecoverStep
    <3> QED
      BY <3>1, <3>2, <3>3, <3>4 DEF Held
  <2> QED
    BY <2>1
<1>5. CASE RemoveTarget
  <2>1. Held(f)' \subseteq Held(f) \cup {Absent}
    BY <1>5, RemoveStep DEF Held, Shape, FilesShape
  <2> QED
    BY <2>1
<1>6. CASE ~MoveAside /\ ~Publish /\ ~RecoverEntry /\ ~RemoveTarget
  <2>1. UNCHANGED <<target, backup>>
    BY <1>6 DEF Next, User, Build, Collect, Transaction, Recovery, Edit, Commit, Withdraw,
       StartBuild, Start, Compile, Bless, BeginRun, PublishRun, Aggregation, SupplyChain,
       ReadFails, Prepare, CommitSet, Rejected, Recovered,
       CommittedMissing, FileError, Crash, vars, files
  <2>2. CASE proc'.script \in Scripts => proc.script \in Scripts /\ proc'.next = proc.next
    BY <2>1, <2>2 DEF Held
  <2>3. CASE \E s \in Scripts : Start(s)
    <3>1. proc'.next[f] = Absent
      BY <2>3 DEF Start, NoFiles
    <3> QED
      BY <2>1, <3>1 DEF Held
  <2>4. CASE PublishRun \/ Aggregation \/ SupplyChain
    BY <2>1, <2>4 DEF Held
  <2> QED
    BY <1>1, <2>2, <2>3, <2>4
<1> QED
  BY <1>2, <1>3, <1>4, <1>5, <1>6

(* A run publishes the candidate it has tested, whose provenance it has read. *)
LEMMA RunFits ==
  ASSUME Shape, Stamps, BuildsFit, PublishRun, NEW f \in Files
  PROVE  FileFits(f, proc'.next[f])
<1>0. Scripted /\ proc.at = "test" /\ Blessed(proc.commit)
  BY AtScripted DEF PublishRun, Opening, Shape
<1> DEFINE c == [stamp |-> stamp, commit |-> proc.commit, bytes |-> bytes]
           i == [stamp |-> stamp, commit |-> proc.commit, run |-> proc.id]
           next == [NoFiles EXCEPT !.candidate = c, !.input = i]
<1>1. proc' = [proc EXCEPT !.at = "prepare", !.next = next]
  BY DEF PublishRun
<1>2. /\ next["candidate"] = c /\ next["input"] = i
      /\ f \notin {"candidate", "input"} => next[f] = Absent
  BY DEF NoFiles, Files
<1>3. {"commit", "run"} \subseteq DOMAIN i
  OBVIOUS
<1>4. bytes # Nothing => BuiltAt(bytes, proc.commit)
  <2> SUFFICES ASSUME bytes # Nothing PROVE BuiltAt(bytes, proc.commit)
    OBVIOUS
  <2>1. provenance = [commit |-> proc.commit, bytes |-> bytes]
    BY <1>0 DEF Blessed
  <2>2. proc.commit \in Nat /\ bytes \in Nat
    BY <1>0 DEF BuildsFit, Idle
  <2>3. provenance # Nothing
    BY <2>1, <2>2, NothingAssumption
  <2> QED
    BY <2>1, <2>3 DEF BuildsFit
<1>5. c.bytes = bytes /\ c.commit = proc.commit
  OBVIOUS
<1> HIDE DEF c, i, next
<1>6. proc'.next = next
  BY <1>0, <1>1 DEF Scripted
<1> QED
  BY <1>2, <1>3, <1>4, <1>5, <1>6 DEF FileFits

(* What release:evidence and release:sbom write of the set they have read. *)
LEMMA EvidenceFits ==
  ASSUME Shape, FilesFit, target.input # Absent, NEW e, e.stamp = stamp, NEW f \in Files
  PROVE  /\ f \in {"input", "texts"} => FileFits(f, WithEvidence(e)[f])
         /\ f = "evidence" => WithEvidence(e)[f] = e
         /\ f \notin {"evidence", "input", "texts"} => WithEvidence(e)[f] = Absent
<1> DEFINE i == [target.input EXCEPT !.stamp = stamp]
           t == [stamp |-> stamp, of |-> e]
<1>1. /\ WithEvidence(e)["input"] = i /\ WithEvidence(e)["texts"] = t
      /\ WithEvidence(e)["evidence"] = e
      /\ f \notin {"evidence", "input", "texts"} => WithEvidence(e)[f] = Absent
  BY DEF WithEvidence, NoFiles, Files
<1>2. FileFits("input", target.input)
  BY DEF FilesFit, Held, Files
<1>3. {"commit", "run"} \subseteq DOMAIN i
  BY <1>2 DEF FileFits
<1>4. t.of.stamp = t.stamp
  OBVIOUS
<1> QED
  BY <1>1, <1>3, <1>4 DEF FileFits

LEMMA CollectedFits ==
  ASSUME Shape, FilesFit, Aggregation \/ SupplyChain, NEW f \in Files
  PROVE  FileFits(f, proc'.next[f])
<1>1. /\ Scripted /\ target.input # Absent /\ target.candidate # Absent
  BY AtScripted DEF Aggregation, SupplyChain, Opening, Shape, Loadable
<1>2. \A disk, states : Aggregate(disk, stamp, states).stamp = stamp
  BY DEF Aggregate
<1>3. FileFits("evidence", proc'.next["evidence"])
  BY DEF FileFits
<1>4. CASE Aggregation
  <2> DEFINE e == Aggregate(target, stamp, SupplyStates(target))
  <2>1. proc' = [proc EXCEPT !.at = "prepare", !.next = WithEvidence(e)]
    BY <1>4 DEF Aggregation
  <2>2. e.stamp = stamp
    BY <1>2
  <2> HIDE DEF e
  <2>3. proc'.next = WithEvidence(e)
    BY <1>1, <2>1 DEF Scripted
  <2> QED
    BY <1>1, <1>3, <2>2, <2>3, EvidenceFits DEF FileFits
<1>5. CASE SupplyChain
  <2> DEFINE run == target.input.run
             states == [sbom |-> "pass", sums |-> "pass", signature |-> Signature(bytes)]
             supply == [stamp |-> stamp, commit |-> reports[run].commit, bytes |-> bytes,
                        clean |-> SourceClean(run), lock |-> Lock[head],
                        signature |-> Signature(bytes)]
             e == Aggregate(target, stamp, states)
             next == [WithEvidence(e) EXCEPT
                        !.candidate = target.candidate, !.supply = supply]
             sums == [stamp |-> stamp, of |-> Sums(next, run)]
             all == [next EXCEPT !.candidate = Absent, !.sums = sums]
  <2>1. proc' = [proc EXCEPT !.at = "prepare", !.next = all]
    BY <1>5 DEF SupplyChain
  <2>2. supply.stamp = stamp /\ e.stamp = stamp
    BY <1>2
  <2>3. /\ next["evidence"] = WithEvidence(e)["evidence"] /\ next["supply"] = supply
        /\ next["input"] = WithEvidence(e)["input"] /\ next["texts"] = WithEvidence(e)["texts"]
        /\ WithEvidence(e) = [g \in Files |-> WithEvidence(e)[g]]
        /\ next = [g \in Files |-> next[g]]
    BY DEF WithEvidence, NoFiles, Files
  <2>4. sums.stamp = stamp /\ sums.of.evidence = next["evidence"] /\ sums.of.supply = supply
    BY <2>3 DEF Sums
  <2> HIDE DEF e, supply
  <2>5. next["evidence"] = e
    BY <1>1, <2>2, <2>3, EvidenceFits DEF Files
  <2> HIDE DEF next, sums
  <2>6. /\ all["sums"] = sums /\ all["candidate"] = Absent
        /\ f \notin {"sums", "candidate"} => all[f] = next[f]
    BY <2>3 DEF Files
  <2> HIDE DEF all
  <2>7. proc'.next = all
    BY <1>1, <2>1 DEF Scripted
  <2>8. FileFits("sums", sums)
    BY <2>2, <2>4, <2>5 DEF FileFits
  <2>9. f \in {"input", "texts"} => FileFits(f, next[f])
    BY <1>1, <2>2, <2>3, EvidenceFits
  <2> QED
    BY <1>3, <2>6, <2>7, <2>8, <2>9 DEF FileFits, Files
<1> QED
  BY <1>4, <1>5

LEMMA FilesFitStep ==
  ASSUME Transactional, FilesFit, BuildsFit, [Next]_vars
  PROVE  FilesFit'
<1> SUFFICES ASSUME NEW f \in Files, NEW x \in Held(f)' PROVE FileFits(f, x)'
  BY DEF FilesFit
<1>1. CASE x \in Held(f)
  BY <1>1, FitsStay DEF FilesFit
<1>2. CASE x = Absent
  BY <1>2 DEF FileFits
<1>3. CASE x \notin Held(f) \cup {Absent}
  <2>1. (PublishRun \/ Aggregation \/ SupplyChain) /\ x = proc'.next[f]
    BY <1>3, HeldStep DEF Transactional
  <2>2. FileFits(f, x)
    BY <2>1, RunFits, CollectedFits DEF Transactional
  <2> QED
    BY <2>2, FitsStay
<1> QED
  BY <1>1, <1>2, <1>3

(* Only a build that starts or goes on ends in anything but nothing. *)
LEMMA EndsStep ==
  ASSUME Shape, Moved, [Next]_vars, Ends, ~StartBuild, ~Compile
  PROVE  proc' = Idle \/ proc' = proc
<1>1. CASE Prepare \/ MoveAside \/ Publish \/ CommitSet \/ Rejected \/ RecoverEntry
  <2>1. Scripted
    BY <1>1, AtScripted DEF Prepare, MoveAside, Publish, CommitSet, Rejected, RecoverEntry, Step,
       Recovering, Opening, Moving, Shape
  <2>2. proc'.script = proc.script
    BY <1>1, <2>1 DEF Prepare, MoveAside, Publish, CommitSet, Rejected, RecoverEntry, Step, Goes,
       Undo, Scripted
  <2> QED
    BY <2>1, <2>2 DEF Ends, Scripted
<1>2. CASE Bless \/ ReadFails \/ CommittedMissing \/ Crash
  BY <1>2 DEF Bless, ReadFails, CommittedMissing, Crash, Fail
<1>3. CASE Recovered
  BY <1>3, RecoveredStep DEF Ends
<1>4. CASE \E s \in Scripts : Start(s)
  BY <1>4 DEF Start, Ends
<1>5. CASE BeginRun \/ PublishRun \/ Aggregation \/ SupplyChain
  <2>1. Scripted /\ proc.at \in {"read", "test"}
    BY <1>5, AtScripted DEF BeginRun, PublishRun, Aggregation, SupplyChain, Opening, Shape
  <2>2. proc'.script = proc.script
    BY <1>5, <2>1 DEF BeginRun, PublishRun, Aggregation, SupplyChain, Scripted
  <2> QED
    BY <2>1, <2>2 DEF Ends, Scripted
<1>6. CASE FileError
  <2>1. Scripted
    BY <1>6, AtScripted DEF FileError, Opening, Moving, Shape
  <2>2. proc' = Idle \/ proc'.script = proc.script
    BY <1>6, <2>1 DEF FileError, Fail, Undo, Scripted
  <2> QED
    BY <2>1, <2>2 DEF Ends, Scripted
<1>7. CASE Edit \/ Commit \/ Withdraw \/ RemoveTarget \/ UNCHANGED vars
  BY <1>7 DEF Edit, Commit, Withdraw, RemoveTarget, vars
<1> QED
  BY <1>1, <1>2, <1>3, <1>4, <1>5, <1>6, <1>7
     DEF Next, User, Build, Collect, Transaction, Recovery

LEMMA BuildsFitStep ==
  ASSUME Shape, Moved, BuildsFit, [Next]_vars
  PROVE  BuildsFit'
<1>1. CASE UNCHANGED <<head, candidate>> /\ proc' = proc
  BY <1>1 DEF BuildsFit, BuiltAt, candidate
<1>2. CASE Edit \/ Commit \/ Withdraw
  <2>1. /\ proc' = proc /\ UNCHANGED <<provenance, builds, builtFrom>>
        /\ bytes' \in {bytes, Nothing} /\ head' \in {head, head + 1}
    BY <1>2 DEF Edit, Commit, Withdraw, candidate, repository
  <2> QED
    BY <2>1 DEF BuildsFit, BuiltAt
<1>3. CASE StartBuild
  <2>1. /\ proc' = [script |-> "build", at |-> "compile", commit |-> head]
        /\ provenance' = Nothing /\ builds < MaxBuilds
        /\ UNCHANGED <<head, bytes, builds, builtFrom>>
    BY <1>3 DEF StartBuild, repository
  <2>2. proc'.at = "compile" /\ proc'.commit = head
    BY <2>1
  <2> QED
    BY <2>1, <2>2 DEF BuildsFit
<1>4. CASE Compile
  <2>1. /\ proc # Idle /\ builds' = builds + 1 /\ builds < MaxBuilds
        /\ UNCHANGED <<head, provenance>> /\ MaxBuilds \in Nat /\ builds \in Nat
    BY <1>4, ReleaseAssumption DEF Compile, Idle, BuildsFit, repository
  <2>2. proc = [script |-> proc.script, at |-> proc.at, commit |-> proc.commit]
    BY <1>4, <2>1 DEF Compile, Shape, ProcShape, Scripted, Opening, Moving
  <2>3. /\ builtFrom' = [b \in 1..MaxBuilds |-> builtFrom'[b]]
        /\ builds' \in 1..builds' /\ builtFrom'[builds'] \in {Nothing, proc.commit}
    <3>1. builtFrom' = [builtFrom EXCEPT ![builds'] =
                          IF head = proc.commit /\ ~edited THEN head ELSE Nothing]
      BY <1>4 DEF Compile
    <3>2. builds' \in 1..MaxBuilds
      BY <2>1
    <3>3. builtFrom'[builds'] \in {Nothing, proc.commit}
      BY <3>1, <3>2 DEF BuildsFit
    <3>4. builtFrom' = [b \in 1..MaxBuilds |-> builtFrom'[b]]
      BY <3>1 DEF BuildsFit
    <3> QED
      BY <2>1, <3>2, <3>3, <3>4 DEF BuiltAt
  <2>4. provenance' # Nothing =>
          /\ provenance'.bytes \in Nat /\ provenance'.commit \in Nat
          /\ BuiltAt(provenance.bytes, provenance.commit)'
    <3>1. ASSUME NEW b, NEW c, BuiltAt(b, c) PROVE BuiltAt(b, c)'
      BY <3>1, BuiltStays
    <3>2. ASSUME provenance # Nothing
          PROVE  BuiltAt(provenance.bytes, provenance.commit)'
      <4>1. PICK b, c : b = provenance.bytes /\ c = provenance.commit
        OBVIOUS
      <4>2. BuiltAt(b, c)'
        BY <3>1, <3>2, <4>1 DEF BuildsFit
      <4> QED
        BY <2>1, <4>1, <4>2 DEF BuiltAt
    <3> QED
      BY <2>1, <3>2 DEF BuildsFit
  <2>5. bytes' \in {bytes, builds', Nothing} /\ bytes' \in 1..builds' \cup {Nothing}
    BY <1>4, <2>1 DEF Compile, BuildsFit
  <2>6. CASE bytes' = builds' /\ proc' = [proc EXCEPT !.at = "bless"]
    <3>1. proc'.at = "bless" /\ proc'.commit = proc.commit /\ proc' # Idle
      BY <2>2, <2>6 DEF Idle
    <3> QED
      BY <2>1, <2>3, <2>4, <2>5, <2>6, <3>1 DEF BuildsFit, BuiltAt
  <2>7. CASE proc' = Idle
    <3>1. proc'.at = "idle"
      BY <2>7 DEF Idle
    <3> QED
      BY <2>1, <2>3, <2>4, <2>5, <2>7, <3>1 DEF BuildsFit
  <2> QED
    BY <1>4, <2>6, <2>7 DEF Compile
<1>5. CASE Bless
  <2>1. /\ proc' = Idle /\ proc # Idle /\ proc.at = "bless" /\ proc'.at = "idle"
        /\ UNCHANGED <<head, bytes, builds, builtFrom>>
        /\ \/ provenance' = Nothing
           \/ bytes # Nothing /\ provenance' = [commit |-> proc.commit, bytes |-> bytes]
    BY <1>5 DEF Bless, Idle, repository
  <2>2. provenance' # Nothing =>
          /\ bytes # Nothing /\ provenance'.bytes = bytes /\ provenance'.commit = proc.commit
    BY <2>1
  <2> QED
    BY <2>1, <2>2 DEF BuildsFit, BuiltAt
<1>6. CASE ~(Edit \/ Commit \/ Withdraw \/ StartBuild \/ Compile \/ Bless)
  <2>1. UNCHANGED <<head, candidate>>
    BY <1>6 DEF Next, User, Build, Collect, Transaction, Recovery,
       Start, BeginRun, PublishRun, Aggregation, SupplyChain, ReadFails,
       Prepare, MoveAside, Publish, CommitSet, Rejected, RecoverEntry, RemoveTarget, Recovered,
       CommittedMissing, FileError, Crash, vars, repository
  <2>2. \/ proc' = proc \/ proc' = Idle
        \/ proc'.commit \in Nat /\ proc'.at \notin {"compile", "bless"}
    <3>1. CASE Ends
      BY <1>6, <3>1, EndsStep
    <3>2. CASE Continues
      BY <3>2 DEF Continues, Scripted, Idle, Scripts, BuildsFit, Moving
    <3>3. CASE \E s \in Scripts : Start(s)
      BY <3>3 DEF Start, BuildsFit
    <3>4. CASE BeginRun
      <4>1. Scripted /\ proc.at = "read"
        BY <3>4, AtScripted DEF BeginRun, Opening, Shape
      <4>2. proc' = [proc EXCEPT !.at = "test", !.id = proc'.id,
                                 !.commit = head, !.dirty = Dirty]
        BY <3>4, <4>1 DEF BeginRun, Scripted
      <4> QED
        BY <4>1, <4>2 DEF BuildsFit, Scripted
    <3>5. CASE PublishRun \/ Aggregation \/ SupplyChain
      <4>1. Scripted /\ proc.at \in {"read", "test"}
        BY <3>5, AtScripted DEF PublishRun, Aggregation, SupplyChain, Opening, Shape
      <4>2. proc' = [proc EXCEPT !.at = "prepare", !.next = proc'.next]
        BY <3>5, <4>1 DEF PublishRun, Aggregation, SupplyChain, Scripted
      <4> QED
        BY <4>1, <4>2 DEF BuildsFit, Scripted, Scripts, Idle
    <3> QED
      BY <3>1, <3>2, <3>3, <3>4, <3>5, ProcStep
  <2>3. CASE proc' = proc
    BY <1>1, <2>1, <2>3
  <2>4. CASE proc' = Idle
    BY <2>1, <2>4 DEF BuildsFit, BuiltAt, candidate, Idle
  <2>5. CASE proc'.commit \in Nat /\ proc'.at \notin {"compile", "bless"}
    BY <2>1, <2>5 DEF BuildsFit, BuiltAt, candidate
  <2> QED
    BY <2>2, <2>3, <2>4, <2>5
<1> QED
  BY <1>2, <1>3, <1>4, <1>5, <1>6

LEMMA ReportsFitStep ==
  ASSUME Transactional, Quotes, ReportsFit, [Next]_vars
  PROVE  ReportsFit'
<1>0. Shape /\ Stamps /\ RunsShape /\ Quoted
  BY DEF Transactional, Quotes
<1>1. CASE UNCHANGED reports
  BY <1>1 DEF ReportsFit, IsRun, External, Cases
<1>2. CASE BeginRun
  BY <1>0, <1>2, BeginRunStep DEF ReportsFit, IsRun, RunsShape
<1>3. CASE PublishRun
  <2>1. proc.id \in Runs
    BY <1>0, <1>3, PublishRunStep
  <2>2. PICK raw, external, tested :
          /\ external \in Externals /\ Admissible(external, proc.commit, tested)
          /\ reports' = [reports EXCEPT ![proc.id] =
               [raw |-> raw, external |-> external, results |-> Results(raw, external),
                commit |-> proc.commit, dirty |-> proc.dirty, tested |-> tested]]
    BY <1>3 DEF PublishRun
  <2>3. reports'[proc.id].external = external
    BY <1>0, <2>1, <2>2 DEF RunsShape
  <2>4. \A id \in Runs \ {proc.id} : reports'[id] = reports[id]
    BY <1>0, <2>2 DEF RunsShape
  <2>5. \A c \in DOMAIN external : c \in External /\ external[c] \in {"PASS", "FAIL"}
    BY <2>2, ReleaseAssumption DEF Admissible
  <2> QED
    BY <2>3, <2>4, <2>5 DEF ReportsFit, IsRun
<1>4. CASE Fail /\ Scripted
  BY <1>0, <1>4, FailStep DEF ReportsFit, IsRun, RunsShape
<1> QED
  BY <1>0, <1>1, <1>2, <1>3, <1>4, ReportsStep

LEMMA StepVerified ==
  ASSUME Transactional, Quotes, Verified, [Next]_vars
  PROVE  Verified'
<1>1. FilesFit' /\ BuildsFit' /\ ReportsFit'
  BY FilesFitStep, BuildsFitStep, ReportsFitStep DEF Verified, Transactional
<1>2. UNCHANGED audit
  BY DEF Next, User, Build, Collect, Transaction, Recovery, Edit, Commit, Withdraw,
     StartBuild, Start, Compile, Bless, BeginRun, PublishRun, Aggregation, SupplyChain,
     ReadFails, Prepare, MoveAside, Publish, CommitSet, Rejected, RecoverEntry, RemoveTarget,
     Recovered, CommittedMissing, FileError, Crash, vars, repository
<1> QED
  BY <1>1, <1>2 DEF Verified

(* What a set of files is judged by, besides the journals. *)
Judged == <<head, edited, audit, uncommitted, bytes, reports>>

LEMMA WholeStays ==
  ASSUME UNCHANGED Judged, UNCHANGED <<journal["acceptance"], journal["evidence"]>>,
         NEW disk, Whole(disk)
  PROVE  Whole(disk)'
<1>1. UNCHANGED <<head, edited, audit, uncommitted, bytes, reports>>
  BY DEF Judged
<1>2. \A id : SourceClean(id)' = SourceClean(id) /\ IsRun(id)' = IsRun(id)
  BY <1>1 DEF SourceClean, CleanBut, IsRun
<1>3. \A id : SumsHold(disk, id)' = SumsHold(disk, id)
  BY <1>1, <1>2 DEF SumsHold, Sums
<1>4. SupplyStates(disk)' = SupplyStates(disk)
  BY <1>1, <1>2, <1>3 DEF SupplyStates, ComponentsHold, EnvironmentHolds, SigningHolds, Signature
<1>5. \A n, states : Aggregate(disk, n, states)' = Aggregate(disk, n, states)
  BY <1>1, <1>2 DEF Aggregate
<1>6. Loadable(disk)' = Loadable(disk)
  BY <1>1, <1>2 DEF Loadable, RunHolds, AuditFits
<1> QED
  BY <1>3, <1>4, <1>5, <1>6 DEF Whole, Derives

(* What release:sbom has written of the set it has read is whole. *)
LEMMA MadeWhole ==
  ASSUME Loadable(target), {"commit", "run"} \subseteq DOMAIN target.input, stamp # 0,
         NEW disk,
         disk.candidate = target.candidate,
         disk.input = [target.input EXCEPT !.stamp = stamp],
         disk.supply = [stamp |-> stamp, commit |-> reports[target.input.run].commit,
                        bytes |-> bytes, clean |-> SourceClean(target.input.run),
                        lock |-> Lock[head], signature |-> Signature(bytes)],
         disk.evidence = Aggregate(target, stamp,
                           [sbom |-> "pass", sums |-> "pass", signature |-> Signature(bytes)]),
         disk.texts = [stamp |-> stamp, of |-> disk.evidence],
         disk.sums = [stamp |-> stamp, of |-> Sums(disk, target.input.run)]
  PROVE  Whole(disk)
<1> DEFINE run == target.input.run
           states == [sbom |-> "pass", sums |-> "pass", signature |-> Signature(bytes)]
<1>1. /\ disk.input.run = run /\ disk.input.commit = target.input.commit
  OBVIOUS
<1>2. /\ disk.input.stamp = stamp \/ "stamp" \notin DOMAIN target.input
      /\ disk.supply.stamp = stamp /\ disk.texts.stamp = stamp /\ disk.sums.stamp = stamp
      /\ disk.texts.of = disk.evidence
      /\ disk.evidence.stamp = stamp /\ disk.evidence.run = run /\ disk.evidence.states = states
  BY DEF Aggregate
<1>3. Absent.stamp = 0 /\ DOMAIN Absent = {"stamp"} /\ "run" \in DOMAIN disk.input
  BY DEF Absent
<1>4. /\ disk.input # Absent /\ disk.supply # Absent /\ disk.texts # Absent
      /\ disk.sums # Absent /\ disk.evidence # Absent
  BY <1>2, <1>3
<1>5. IsRun(run) /\ Loadable(disk)
  BY <1>1, <1>4 DEF Loadable
<1>6. SumsHold(disk, run)
  BY <1>4, <1>5 DEF SumsHold
<1>7. SupplyStates(disk) = states
  <2>1. ComponentsHold(disk.supply) /\ EnvironmentHolds(disk.supply, run)
        /\ SigningHolds(disk.supply, run) /\ disk.supply.signature = Signature(bytes)
    BY DEF ComponentsHold, EnvironmentHolds, SigningHolds
  <2> QED
    BY <1>1, <1>4, <1>6, <2>1 DEF SupplyStates
<1>8. disk.evidence = Aggregate(disk, disk.evidence.stamp, SupplyStates(disk))
  <2>1. disk.evidence = Aggregate(target, stamp, states)
    OBVIOUS
  <2>2. Aggregate(disk, stamp, states) = Aggregate(target, stamp, states)
    BY <1>1 DEF Aggregate
  <2> QED
    BY <1>2, <1>7, <2>1, <2>2
<1> QED
  BY <1>2, <1>4, <1>5, <1>6, <1>8 DEF Whole, Derives

LEMMA SupplyComing ==
  ASSUME Shape, Moved, FilesFit, SupplyChain
  PROVE  IsWhole(Coming)' /\ proc'.script = "sbom" /\ proc'.at = "prepare"
<1>1. /\ Scripted /\ proc.script = "sbom" /\ Loadable(target)
      /\ UNCHANGED Judged /\ UNCHANGED journal /\ target' = target
  BY AtScripted DEF SupplyChain, Opening, Shape, Judged, repository, tree, candidate, files
<1> DEFINE run == target.input.run
           states == [sbom |-> "pass", sums |-> "pass", signature |-> Signature(bytes)]
           supply == [stamp |-> stamp, commit |-> reports[run].commit, bytes |-> bytes,
                      clean |-> SourceClean(run), lock |-> Lock[head],
                      signature |-> Signature(bytes)]
           e == Aggregate(target, stamp, states)
           next == [WithEvidence(e) EXCEPT
                      !.candidate = target.candidate, !.supply = supply]
           sums == [stamp |-> stamp, of |-> Sums(next, run)]
           all == [next EXCEPT !.candidate = Absent, !.sums = sums]
           input == [target.input EXCEPT !.stamp = stamp]
           texts == [stamp |-> stamp, of |-> e]
           disk == [f \in Files |-> IF f \in Group("sbom") THEN all[f] ELSE target[f]]
<1>2. proc' = [proc EXCEPT !.at = "prepare", !.next = all]
  BY DEF SupplyChain
<1>3. {"commit", "run"} \subseteq DOMAIN target.input
  BY <1>1 DEF FilesFit, Held, Files, FileFits, Loadable
<1>4. stamp # 0
  BY <1>1 DEF Scripted, Shape, FilesShape
<1> HIDE DEF supply, e
<1>5. WithEvidence(e) = [f \in Files |-> IF f = "evidence" THEN e ELSE IF f = "texts" THEN texts
                                        ELSE IF f = "input" THEN input ELSE Absent]
  BY DEF WithEvidence, NoFiles, Files
<1> HIDE DEF input, texts
<1>6. next = [f \in Files |-> IF f = "evidence" THEN e ELSE IF f = "texts" THEN texts
                              ELSE IF f = "input" THEN input
                              ELSE IF f = "candidate" THEN target.candidate
                              ELSE IF f = "supply" THEN supply ELSE Absent]
  BY <1>5 DEF Files
<1>7. /\ next.evidence = e /\ next.texts = texts /\ next.candidate = target.candidate
      /\ next.supply = supply /\ next.input = input
  BY <1>6 DEF Files
<1> HIDE DEF next, sums
<1>8. all = [f \in Files |-> IF f = "candidate" THEN Absent ELSE IF f = "sums" THEN sums
                             ELSE next[f]]
  BY <1>6 DEF Files
<1>9. Group("sbom") = Files \ {"candidate"}
  BY DEF Group, Entries, ToSet, Files
<1> HIDE DEF all
<1>10. /\ disk.evidence = e /\ disk.texts = texts /\ disk.candidate = target.candidate
       /\ disk.supply = supply /\ disk.input = input /\ disk.sums = sums
  BY <1>7, <1>8, <1>9 DEF Files
<1> HIDE DEF disk
<1>11. sums = [stamp |-> stamp, of |-> Sums(disk, run)]
  BY <1>7, <1>10 DEF Sums, sums
<1>12. Whole(disk)
  BY <1>1, <1>3, <1>4, <1>10, <1>11, MadeWhole DEF e, supply, input, texts
<1>13. proc'.next = all /\ proc'.script = "sbom" /\ proc'.at = "prepare"
  BY <1>1, <1>2 DEF Scripted
<1>14. Coming' = disk
  BY <1>1, <1>13 DEF Coming, disk
<1>15. PICK d : d = disk
  OBVIOUS
<1>16. Whole(d)'
  BY <1>1, <1>12, <1>15, WholeStays
<1> QED
  BY <1>13, <1>14, <1>15, <1>16 DEF IsWhole

(* The script publishes what it has made, and nothing else changes. *)
LEMMA ComingStays ==
  ASSUME UNCHANGED Judged, UNCHANGED <<journal["acceptance"], journal["evidence"]>>
  PROVE  /\ IsWhole(Coming) /\ Coming' = Coming => IsWhole(Coming)'
         /\ IsWhole(target) /\ target' = target => IsWhole(target)'
<1>1. ASSUME IsWhole(Coming), Coming' = Coming PROVE IsWhole(Coming)'
  BY <1>1, WholeStays DEF IsWhole
<1>2. ASSUME IsWhole(target), target' = target PROVE IsWhole(target)'
  BY <1>2, WholeStays DEF IsWhole
<1> QED
  BY <1>1, <1>2

Quietly == proc.script = "sbom" /\ proc.at \in Writing \cup {"undo", "finish"}
Unread == UNCHANGED Judged /\ UNCHANGED <<journal["acceptance"], journal["evidence"]>>

LEMMA PublishQuietly ==
  ASSUME Shape, Moved, Quotes, Converging, quiet = "working", Quietly,
         Prepare \/ MoveAside \/ Publish \/ CommitSet \/ Rejected
  PROVE  Converging'
<1>1. /\ Scripted /\ quiet' = "working" /\ UNCHANGED Judged
      /\ \A s \in Scripts : s # "sbom" => journal'[s] = journal[s]
      /\ "sbom" \in Scripts
  BY AtScripted DEF Quietly, Scripts, Prepare, MoveAside, Publish, CommitSet, Rejected, history,
     Judged, repository, tree, candidate, files, Shape, FilesShape
<1>2. Unread
  BY <1>1 DEF Unread, Scripts
<1>3. proc.at \in Writing => IsWhole(Coming)
  BY DEF Converging, Quietly, Idle
<1>4. CASE Prepare \/ MoveAside \/ Publish
  <2>1. /\ proc.at \in Writing /\ proc'.script = "sbom" /\ proc'.next = proc.next
        /\ proc'.at \in Writing
        /\ \A f \in Files \ Mine : target'[f] = target[f]
    <3>1. CASE Prepare
      <4>1. proc' = [proc EXCEPT !.at = "aside", !.rest = Entries[proc.script]]
            /\ target' = target /\ proc.at = "prepare"
        BY <3>1 DEF Prepare
      <4> QED
        BY <1>1, <4>1 DEF Scripted, Writing, Quietly
    <3>2. CASE MoveAside
      BY <3>2, AsideStep DEF Quietly, Writing, Shape, FilesShape
    <3>3. CASE Publish
      BY <3>3, PublishStep DEF Quietly, Writing, Shape, FilesShape
    <3> QED
      BY <1>4, <3>1, <3>2, <3>3
  <2>2. Coming' = Coming
    BY <2>1 DEF Coming, Mine, Quietly
  <2>3. IsWhole(Coming)'
    BY <1>2, <1>3, <2>1, <2>2, ComingStays DEF Unread
  <2> QED
    BY <1>1, <2>1, <2>3 DEF Converging, Writing
<1>5. CASE CommitSet
  <2>1. /\ proc.at = "commit" /\ target' = target
        /\ proc'.at = "finish" /\ proc'.script = "sbom"
    BY <1>1, <1>5 DEF CommitSet, Goes, Scripted, Quietly
  <2>2. Coming = target
    <3>1. Mine = Group("sbom") /\ \A f \in Mine : target[f] = proc.next[f]
      BY <2>1 DEF Moved, PublishDone, Mine, Quietly, Scripts
    <3> QED
      BY <3>1 DEF Coming, Shape, FilesShape
  <2>3. IsWhole(target)
    BY <1>3, <2>1, <2>2 DEF Writing, IsWhole
  <2>4. IsWhole(target)'
    BY <1>2, <2>1, <2>3, ComingStays DEF Unread
  <2> QED
    BY <1>1, <2>1, <2>4 DEF Converging, Writing
<1>6. CASE Rejected
  <2>1. proc'.at = "undo" /\ proc'.script = "sbom"
    BY <1>1, <1>6 DEF Rejected, Undo, Scripted, Quietly
  <2> QED
    BY <1>1, <2>1 DEF Converging, Writing
<1> QED
  BY <1>4, <1>5, <1>6

LEMMA RecoverQuietly ==
  ASSUME Shape, Moved, Quotes, Converging, quiet = "working", Quietly,
         Recovery \/ FileError \/ Crash
  PROVE  Converging'
<1>1. /\ Scripted /\ proc.id = Nothing /\ proc.script = "sbom" /\ "sbom" \in Scripts
      /\ proc.at \in Writing \cup {"undo", "finish"}
      /\ proc.at = "finish" => Own.phase = "COMMITTED" /\ IsWhole(target)
  BY AtScripted DEF Quietly, Scripts, Shape, ProcFits, Quotes, Quoted, Converging, Idle, Own
<1>2. CASE quiet' = "working" /\ proc' = Idle
  BY <1>2 DEF Converging
<1>3. CASE RecoverEntry
  <2>1. /\ proc'.script = "sbom" /\ proc'.at = proc.at /\ proc.at \in {"undo", "finish"}
        /\ quiet' = "working"
        /\ target' = [target EXCEPT ![Head(proc.rest)] =
               IF Own.phase = "PREPARED" THEN Restored(Head(proc.rest)) ELSE @]
        /\ Unread
    BY <1>1, <1>3, RecoverStep DEF RecoverEntry, Recovering, Unread, Judged, repository, tree,
       candidate, history, Writing
  <2>2. CASE proc.at = "undo"
    BY <2>1, <2>2 DEF Converging, Writing
  <2>3. CASE proc.at = "finish"
    <3>1. target' = target
      BY <1>1, <2>1, <2>3 DEF Shape, FilesShape
    <3> QED
      BY <1>1, <2>1, <2>3, <3>1, ComingStays DEF Converging, Writing, Unread
  <2> QED
    BY <2>1, <2>2, <2>3
<1>4. CASE RemoveTarget
  <2>1. proc' = proc /\ quiet' = "working" /\ proc.at = "undo"
    BY <1>1, <1>4 DEF RemoveTarget, Recovering, Writing, history
  <2> QED
    BY <1>1, <2>1 DEF Converging, Writing
<1>5. CASE Recovered
  <2>1. /\ proc' = Idle /\ quiet' \in {"working", "yes"} /\ target' = target
        /\ quiet' = "yes" => proc.at = "finish"
        /\ UNCHANGED <<reports, uncommitted, bytes, repository>>
        /\ journal' = [journal EXCEPT !["sbom"] = Nothing]
    BY <1>1, <1>5 DEF Recovered, Recovering, Writing, Kept, Fail, candidate
  <2>2. Unread
    BY <2>1 DEF Unread, Judged, repository, Shape, FilesShape, Scripts
  <2> QED
    BY <1>1, <2>1, <2>2, ComingStays DEF Converging, Unread
<1>6. CASE CommittedMissing \/ Crash
  BY <1>2, <1>6 DEF CommittedMissing, Crash, Fail, history
<1>7. CASE FileError
  <2>1. quiet' = "working" /\ target' = target /\ Unread
    BY <1>1, <1>7 DEF FileError, Kept, Fail, Unread, Judged, repository, candidate, files
  <2>2. CASE Undo
    <3>1. proc'.at = "undo" /\ proc'.script = "sbom"
      BY <1>1, <2>2 DEF Undo, Scripted
    <3> QED
      BY <2>1, <3>1 DEF Converging, Writing
  <2>3. CASE /\ proc.at = "finish"
             /\ proc' = [proc EXCEPT !.failed = TRUE, !.rest = Entries[proc.script]]
    <3>1. proc'.at = "finish" /\ proc'.script = "sbom"
      BY <1>1, <2>3 DEF Scripted
    <3> QED
      BY <1>1, <2>1, <2>3, <3>1, ComingStays DEF Converging, Writing, Unread
  <2>4. CASE Fail
    BY <1>2, <2>1, <2>4 DEF Fail
  <2> QED
    BY <1>7, <2>2, <2>3, <2>4 DEF FileError
<1> QED
  BY <1>3, <1>4, <1>5, <1>6, <1>7 DEF Recovery

LEMMA ConvergingStep ==
  ASSUME Shape, Moved, FilesFit, Quotes, Converging, [Next]_vars
  PROVE  Converging'
<1>1. CASE quiet' = "no"
  BY <1>1 DEF Converging
<1>2. CASE Edit \/ Commit \/ Withdraw \/ StartBuild \/ \E s \in Scripts : Start(s)
  BY <1>1, <1>2 DEF Edit, Commit, Withdraw, StartBuild, Start, Change, Disturb
<1>3. CASE SupplyChain
  <2>1. quiet' = "working"
    BY <1>3 DEF SupplyChain
  <2> QED
    BY <1>3, <2>1, SupplyComing DEF Converging, Writing
<1>4. CASE UNCHANGED vars
  <2>1. /\ UNCHANGED Judged /\ UNCHANGED <<journal, quiet, proc, target>>
        /\ Coming' = Coming
    BY <1>4 DEF vars, Judged, repository, tree, candidate, files, history, Coming
  <2> QED
    BY <2>1, ComingStays DEF Converging
<1>5. CASE quiet = "no"
  <2>1. SupplyChain \/ quiet' \in {"no"}
    BY <1>5 DEF Next, User, Build, Collect, Transaction, Recovery, Edit, Commit, Withdraw,
       StartBuild, Start, Compile, Bless, BeginRun, PublishRun, Aggregation, ReadFails,
       Prepare, MoveAside, Publish, CommitSet, Rejected, RecoverEntry, RemoveTarget, Recovered,
       CommittedMissing, FileError, Crash, vars, history, Change, Disturb
  <2> QED
    BY <1>1, <1>3, <2>1
<1>6. ASSUME quiet # "no", Build \/ Collect \/ Transaction \/ Recovery \/ FileError \/ Crash,
             ~SupplyChain
      PROVE  Converging'
  <2>1. proc # Idle
    BY <1>6 DEF Build, Collect, Transaction, Recovery, Compile, Bless, BeginRun, PublishRun,
       Aggregation, ReadFails, Prepare, MoveAside, Publish, CommitSet, Rejected, RecoverEntry,
       RemoveTarget, Recovered, CommittedMissing, FileError, Crash, Step, Recovering, Idle
  <2>2. quiet = "working" /\ Quietly
    BY <1>6, <2>1 DEF Converging, Quietly
  <2>3. Transaction \/ Recovery \/ FileError \/ Crash
    BY <1>6, <2>2 DEF Quietly, Writing, Build, Collect, Compile, Bless, BeginRun, PublishRun,
       Aggregation, ReadFails
  <2> QED
    BY <2>2, <2>3, PublishQuietly, RecoverQuietly DEF Transaction
<1> QED
  BY <1>2, <1>3, <1>4, <1>5, <1>6 DEF Next, User

Accepting == Transactional /\ Quotes /\ Verified /\ Converging

LEMMA AcceptingAlways == Spec => []Accepting
<1>1. Init => Accepting
  BY InitTransactional, InitQuotes, InitVerified DEF Accepting
<1>2. Accepting /\ [Next]_vars => Accepting'
  <2> SUFFICES ASSUME Accepting, [Next]_vars PROVE Accepting'
    OBVIOUS
  <2>1. Transactional' /\ Quotes' /\ Verified'
    BY StepTransactional, StepQuotes, StepVerified DEF Accepting
  <2>2. Converging'
    BY ConvergingStep DEF Accepting, Transactional, Verified
  <2> QED
    BY <2>1, <2>2 DEF Accepting
<1> QED
  BY <1>1, <1>2, PTL DEF Spec

(* What release:verify accepts is one release, of one execution and of the    *)
(* installer that is there; it is ready only if every case passed with it, on  *)
(* a clean tree at that commit; and a refusal says why (release-verify.mjs).  *)
THEOREM VerdictIsAlwaysTrue == Spec => []VerdictIsTrue
<1>1. Accepting => VerdictIsTrue
  BY VerdictHolds DEF Accepting
<1> QED
  BY <1>1, AcceptingAlways, PTL

(* One release:sbom is enough: undisturbed it passes its own check, and       *)
(* release:verify accepts what it leaves, although it describes files that    *)
(* it was writing (generate-g11-supply-chain.mjs; HANDOFF.md:35).            *)
THEOREM OneRoundConverges == Spec => []SingleRoundConverges
<1>1. Accepting => SingleRoundConverges
  BY ConvergesHolds DEF Accepting, Transactional
<1> QED
  BY <1>1, AcceptingAlways, PTL

-----------------------------------------------------------------------------
(* Updates.                                                                 *)

(* The key of an entry appears once in a ledger. *)
Unique(entries) ==
    \A i, j \in 1..Len(entries) : entries[i].key = entries[j].key => i = j

(* A call that goes on after it read the ledger has a key that it did not    *)
(* find there.                                                              *)
Begun == {"called", "replay", "answer"}
HasRead(w) ==
    w.step \notin Begun =>
        /\ Unique(w.ledger) /\ Len(w.ledger) <= LedgerLimit
        /\ \A i \in 1..Len(w.ledger) : w.ledger[i].key # w.key

(* What a call is about to answer is there, or was taken back. *)
HasStaged(w) ==
    w.step \in {"answer", "persist"} => Matches(ready[Release[w.package]], w.package) \/ w.withdrawn

CallsFit == \A c \in Calls : call[c] # None => HasRead(call[c]) /\ HasStaged(call[c])

(* A record is in the directory of its release. *)
RecordsFit ==
    \A r \in Releases : \A d \in {partial[r], ready[r]} :
        d # None /\ d.record # None => Release[d.record.package] = r

StagingInv == TypeOK /\ KeysAreUnique /\ CallsFit /\ RecordsFit /\ RuinsHaveACause

LEMMA NoneIs ==
  /\ None \notin Packages /\ None \notin LedgerEntries /\ None \notin Selections
  /\ None \notin Directories /\ None \notin StageCalls
BY NoneAssumption

LEMMA ReleaseIs ==
  /\ \A p \in Packages : Release[p] \in Releases /\ Version[p] \in Nat
  /\ LedgerLimit \in Nat /\ LedgerLimit > 0 /\ MaxInspections \in Nat
  /\ MaxCalls \in Nat /\ MaxFaults \in Nat
BY UpdatesAssumption

LEMMA InitStaging == UpdatesInit => StagingInv
<1> SUFFICES ASSUME UpdatesInit PROVE StagingInv
  OBVIOUS
<1>1. /\ version = 0 /\ selections = [t \in Tokens |-> None] /\ inspections = 0
      /\ partial = [r \in Releases |-> None] /\ ready = [r \in Releases |-> None]
      /\ left = {} /\ ledger = <<>>
      /\ call = [c \in Calls |-> None] /\ calls = 0 /\ faults = 0
  BY DEF UpdatesInit
<1>2. ledger \in Seq(LedgerEntries) /\ Len(ledger) = 0
  BY <1>1
<1>3. TypeOK
  BY <1>1, <1>2, ReleaseIs DEF TypeOK
<1>4. CallsFit
  BY <1>1 DEF CallsFit
<1>5. RecordsFit
  BY <1>1 DEF RecordsFit
<1>6. RuinsHaveACause
  BY <1>1 DEF RuinsHaveACause
<1>7. KeysAreUnique
  BY <1>2 DEF KeysAreUnique
<1> QED
  BY <1>3, <1>4, <1>5, <1>6, <1>7 DEF StagingInv

-----------------------------------------------------------------------------
(* One call changes. *)
LEMMA OneCall ==
  ASSUME StagingInv, NEW c \in Calls, call[c] # None,
         NEW new \in StageCalls \cup {None}, call' = [call EXCEPT ![c] = new]
  PROVE  /\ call' \in [Calls -> StageCalls \cup {None}] /\ call'[c] = new
         /\ \A d \in Calls : d # c => call'[d] = call[d]
BY DEF StagingInv, TypeOK

LEMMA CallIs ==
  ASSUME StagingInv, NEW c \in Calls, call[c] # None
  PROVE  /\ call[c] \in StageCalls /\ Directory(c) \in Releases
         /\ HasRead(call[c]) /\ HasStaged(call[c])
BY ReleaseIs DEF StagingInv, TypeOK, CallsFit, Directory, StageCalls

(* A record of a call with another step, or another kind. *)
Advanced(w, v) ==
    /\ v \in StageCalls /\ v.key = w.key /\ v.package = w.package /\ v.token = w.token
    /\ v.withdrawn = w.withdrawn

LEMMA StepIs ==
  ASSUME NEW w \in StageCalls, NEW step \in StageSteps, NEW v, v = [w EXCEPT !.step = step]
  PROVE  Advanced(w, v) /\ v.step = step /\ v.ledger = w.ledger
BY DEF Advanced, StageCalls

LEMMA KindIs ==
  ASSUME NEW w \in StageCalls, NEW kind \in {"reserved", "existing"}, NEW v,
         v = [w EXCEPT !.step = "persist", !.kind = kind]
  PROVE  Advanced(w, v) /\ v.step = "persist" /\ v.ledger = w.ledger
BY DEF Advanced, StageCalls, StageSteps

LEMMA ReadIs ==
  ASSUME NEW w \in StageCalls, NEW step \in {"reserved", "inspect"},
         NEW entries \in Seq(LedgerEntries), NEW v,
         v = [w EXCEPT !.ledger = entries, !.step = step]
  PROVE  Advanced(w, v) /\ v.step = step /\ v.ledger = entries
BY DEF Advanced, StageCalls, StageSteps

(* Directories that are being filled. *)
PartialFits ==
    /\ partial \in [Releases -> Directories \cup {None}]
    /\ \A r \in Releases : partial[r] # None /\ partial[r].record # None =>
         Release[partial[r].record.package] = r

LEMMA PartialIs == ASSUME StagingInv PROVE PartialFits
BY DEF StagingInv, TypeOK, RecordsFit, PartialFits

SelectionsFit == selections \in [Tokens -> Selections \cup {None}]

LEMMA FaultsAre == ASSUME StagingInv PROVE faults \in 0..MaxFaults
BY DEF StagingInv, TypeOK

LEMMA SelectionsAre == ASSUME StagingInv PROVE SelectionsFit
BY DEF StagingInv, TypeOK, SelectionsFit

LEMMA RestoredFits ==
  ASSUME StagingInv, NEW c \in Calls, call[c] \in StageCalls, RestoreSelection(c)
  PROVE  SelectionsFit'
<1>1. [package |-> call[c].package, expired |-> FALSE] \in Selections
  BY DEF StageCalls, Selections
<1> QED
  BY <1>1, SelectionsAre DEF RestoreSelection, SelectionsFit

(* A step of one call that leaves the final directories and the ledger alone. *)
CallStep(c) ==
    /\ call[c] # None /\ faults' \in 0..MaxFaults
    /\ UNCHANGED <<version, inspections, ready, left, ledger, calls>>

Published == {"confirm", "undo", "withdraw"}
Stays(w, step) ==
    w.step \in Published => step \in Published \/ Intact(ready[Release[w.package]])

(* A ruin whose cause is a call that goes on. *)
Caused(r) ==
    \E d \in Calls : call[d] # None /\ Release[call[d].package] = r /\ call[d].step \in Published

LEMMA RuinsAreCaused ==
  ASSUME StagingInv, NEW r \in Releases, ready[r] # None, ~Intact(ready[r]), r \notin left
  PROVE  Caused(r)
BY DEF StagingInv, RuinsHaveACause, Answerable, Caused, Published, Directory

LEMMA RuinsStayCaused ==
  ASSUME \A r \in Releases : ready'[r] # None /\ ~Intact(ready'[r]) => r \in left' \/ Caused(r)'
  PROVE  RuinsHaveACause'
BY DEF RuinsHaveACause, Answerable, Caused, Published, Directory, Intact

LEMMA CallStepInv ==
  ASSUME StagingInv, NEW c \in Calls, NEW new \in StageCalls \cup {None}, CallStep(c),
         call' = [call EXCEPT ![c] = new], SelectionsFit', PartialFits',
         new # None => Advanced(call[c], new) /\ HasRead(new) /\ HasStaged(new)
                       /\ Stays(call[c], new.step),
         new = None => Stays(call[c], "none")
  PROVE  StagingInv'
<1>1. /\ call' \in [Calls -> StageCalls \cup {None}] /\ call'[c] = new
      /\ \A d \in Calls : d # c => call'[d] = call[d]
  BY OneCall DEF CallStep
<1>2. UNCHANGED <<version, inspections, ready, left, ledger, calls>> /\ faults' \in 0..MaxFaults
  BY DEF CallStep
<1>3. TypeOK'
  BY <1>1, <1>2 DEF StagingInv, TypeOK, SelectionsFit, PartialFits
<1>4. KeysAreUnique'
  BY <1>2 DEF StagingInv, KeysAreUnique
<1>5. \A w : HasStaged(w)' <=> HasStaged(w)
  BY <1>2 DEF HasStaged, Matches, Recorded, Acceptable
<1>6. CallsFit'
  BY <1>1, <1>5 DEF StagingInv, CallsFit, HasRead
<1>7. RecordsFit'
  BY <1>2 DEF StagingInv, RecordsFit, PartialFits
<1>8. RuinsHaveACause'
  <2> SUFFICES ASSUME NEW r \in Releases, ready[r] # None, ~Intact(ready[r]), r \notin left
               PROVE  Caused(r)'
    BY <1>2, RuinsStayCaused
  <2>1. PICK d \in Calls : call[d] # None /\ Release[call[d].package] = r /\ call[d].step \in Published
    BY RuinsAreCaused DEF Caused
  <2>2. CASE d # c
    BY <2>1, <2>2, <1>1 DEF Caused
  <2>3. CASE d = c
    BY <2>1, <2>3, <1>1 DEF Caused, Published, Advanced, Stays
  <2> QED
    BY <2>2, <2>3
<1> QED
  BY <1>3, <1>4, <1>6, <1>7, <1>8 DEF StagingInv

(* The call ends. *)
LEMMA EndInv ==
  ASSUME StagingInv, NEW c \in Calls, CallStep(c), End(c), SelectionsFit', PartialFits',
         call[c].step \notin Published
  PROVE  StagingInv'
BY CallStepInv DEF End, Stays

(* It goes on, after it read the ledger. *)
LEMMA GotoInv ==
  ASSUME StagingInv, NEW c \in Calls, CallStep(c), NEW step \in StageSteps \ Begun,
         Goto(c, step), SelectionsFit', PartialFits', call[c].step \notin Begun,
         step # "persist" \/ Matches(ready[Directory(c)], call[c].package),
         Stays(call[c], step)
  PROVE  StagingInv'
<1>1. call[c] \in StageCalls /\ HasRead(call[c])
  BY CallIs DEF CallStep
<1>2. call' = [call EXCEPT ![c] = [call[c] EXCEPT !.step = step]]
  BY DEF Goto
<1>3. PICK new : new = [call[c] EXCEPT !.step = step]
  OBVIOUS
<1>4. Advanced(call[c], new) /\ new.ledger = call[c].ledger /\ new.step = step
  BY <1>1, <1>3, StepIs
<1>5. HasRead(new)
  BY <1>1, <1>4 DEF HasRead, Advanced
<1>6. HasStaged(new)
  BY <1>4 DEF HasStaged, Advanced, Directory, Begun
<1>7. new \in StageCalls /\ new # None
  BY <1>4, NoneIs DEF Advanced
<1> QED
  BY <1>2, <1>3, <1>4, <1>5, <1>6, <1>7, CallStepInv

-----------------------------------------------------------------------------
(* The steps that touch no directory. *)
LEMMA QuietInv ==
  ASSUME StagingInv, NEW c \in Calls,
         \/ Replay(c) \/ AnswerReplay(c) \/ \E same \in BOOLEAN : InspectAgain(c, same)
         \/ Existing(c) \/ Readback(c) \/ Confirm(c)
  PROVE  StagingInv'
<1>1. SelectionsFit /\ PartialFits
  BY PartialIs, SelectionsAre
<1> SUFFICES ASSUME UNCHANGED <<selections, partial>> => SelectionsFit' /\ PartialFits'
             PROVE  StagingInv'
  BY <1>1 DEF SelectionsFit, PartialFits
<1>2. CASE Replay(c)
  <2>1. /\ call[c] # None /\ call[c].step = "replay" /\ CallStep(c)
        /\ UNCHANGED <<selections, partial>>
    BY <1>2, FaultsAre DEF Replay, At, CallStep, stagingFiles
  <2>2. CASE End(c)
    BY <2>1, <2>2, EndInv DEF Published
  <2>3. CASE (\E e \in Records : e.package = call[c].package) /\ Goto(c, "answer")
    <3>1. PICK r \in Releases : Recorded(ready[r]) /\ ready[r].record.package = call[c].package
      BY <2>3 DEF Records
    <3>2. ready[r] # None /\ ready[r].record # None
      BY <3>1 DEF Recorded, Intact
    <3>3. Release[call[c].package] = r
      BY <3>1, <3>2 DEF StagingInv, RecordsFit
    <3>4. Matches(ready[Release[call[c].package]], call[c].package)
      BY <3>1, <3>3 DEF Matches
    <3>5. PICK new : new = [call[c] EXCEPT !.step = "answer"]
      OBVIOUS
    <3>6. call[c] \in StageCalls /\ call' = [call EXCEPT ![c] = new]
      BY <2>1, <2>3, <3>5, CallIs DEF Goto
    <3>7. Advanced(call[c], new) /\ new.step = "answer" /\ new # None /\ new \in StageCalls
      BY <3>5, <3>6, StepIs, NoneIs DEF Advanced, StageSteps
    <3>8. HasRead(new) /\ HasStaged(new) /\ Stays(call[c], new.step)
      BY <2>1, <3>4, <3>7 DEF HasRead, HasStaged, Stays, Begun, Advanced, Published
    <3> QED
      BY <2>1, <3>6, <3>7, <3>8, CallStepInv
  <2> QED
    BY <1>2, <2>2, <2>3 DEF Replay
<1>3. ASSUME NEW same \in BOOLEAN, InspectAgain(c, same) PROVE StagingInv'
  BY <1>3, FaultsAre, EndInv, GotoInv
     DEF InspectAgain, At, CallStep, stagingFiles, StageSteps, Begun, Stays, Published
<1>4. CASE Existing(c)
  <2>1. CASE /\ Recorded(ready[Directory(c)]) /\ ready[Directory(c)].record.package = call[c].package
             /\ call' = [call EXCEPT ![c].step = "persist", ![c].kind = "existing"]
    <3>1. /\ call' = [call EXCEPT ![c].step = "persist", ![c].kind = "existing"]
          /\ At(c, "existing") /\ CallStep(c) /\ UNCHANGED <<selections, partial>>
      BY <1>4, <2>1, FaultsAre DEF Existing, CallStep, stagingFiles, At
    <3>2. PICK new : new = [call[c] EXCEPT !.step = "persist", !.kind = "existing"]
      OBVIOUS
    <3>3. call[c] \in StageCalls /\ HasRead(call[c])
      BY <3>1, CallIs DEF CallStep
    <3>4. call' = [call EXCEPT ![c] = new]
      BY <3>1, <3>2, <3>3 DEF StagingInv, TypeOK
    <3>5. Advanced(call[c], new) /\ new.ledger = call[c].ledger /\ new.step = "persist"
      BY <3>2, <3>3, KindIs, Zenon
    <3>6. HasRead(new) /\ HasStaged(new)
      BY <2>1, <3>1, <3>3, <3>5 DEF HasRead, HasStaged, Advanced, At, Begun, Matches, Directory
    <3>7. new \in StageCalls /\ new # None
      BY <3>5, NoneIs DEF Advanced
    <3> QED
      BY <3>1, <3>4, <3>5, <3>6, <3>7, CallStepInv DEF At, Stays, Published
  <2>2. CASE Goto(c, "failing") \/ Goto(c, "clear")
    BY <1>4, <2>2, FaultsAre, GotoInv
       DEF Existing, At, CallStep, stagingFiles, StageSteps, Begun, Stays, Published
  <2> QED
    BY <1>4, <2>1, <2>2 DEF Existing
<1>5. CASE Readback(c)
  BY <1>5, FaultsAre, GotoInv
     DEF Readback, At, CallStep, stagingFiles, StageSteps, Begun, Stays, Published
<1>6. CASE Confirm(c)
  BY <1>6, FaultsAre, GotoInv
     DEF Confirm, At, CallStep, stagingFiles, StageSteps, Begun, Stays, Published, Matches, Recorded,
     Directory
<1>7. CASE AnswerReplay(c)
  BY <1>7, FaultsAre, EndInv DEF AnswerReplay, At, CallStep, stagingFiles, Published
<1> QED
  BY <1>2, <1>3, <1>4, <1>5, <1>6, <1>7

(* What a removal leaves has the record that was there, or none. *)
LEMMA RemainsAre ==
  ASSUME NEW d \in Directories \cup {None}, NEW e \in Remains(d)
  PROVE  /\ e \in Directories \cup {None} /\ (d = None => e = None)
         /\ e # None /\ e.record # None => d # None /\ e.record = d.record
<1>1. CASE d = None
  BY <1>1 DEF Remains
<1>2. CASE d # None /\ e # None
  <2>1. e \in [installer : {d.installer, None}, manifest : {d.manifest, None},
                record : {d.record, None}]
    BY <1>2 DEF Remains
  <2> QED
    BY <1>2, <2>1 DEF Directories
<1>3. CASE d # None /\ e = None
  BY <1>3
<1> QED
  BY <1>1, <1>2, <1>3

LEMMA LeavingIs ==
  ASSUME StagingInv, NEW d, Leaving(d)
  PROVE  faults' \in 0..MaxFaults
BY FaultsAre, ReleaseIs DEF Leaving

LEMMA RemovalFits ==
  ASSUME StagingInv, NEW c \in Calls, Directory(c) \in Releases, RemovePartial(c)
  PROVE  PartialFits' /\ faults' \in 0..MaxFaults
<1>1. PICK d \in Remains(partial[Directory(c)]) :
         Leaving(d) /\ partial' = [partial EXCEPT ![Directory(c)] = d]
  BY DEF RemovePartial
<1>2. PartialFits /\ partial[Directory(c)] \in Directories \cup {None}
  BY PartialIs DEF PartialFits
<1>3. /\ d \in Directories \cup {None}
      /\ d # None /\ d.record # None => Release[d.record.package] = Directory(c)
  BY <1>1, <1>2, RemainsAre DEF PartialFits
<1> QED
  BY <1>1, <1>2, <1>3, LeavingIs DEF PartialFits

(* The steps that fill or remove a partial directory. *)
LEMMA PartialInv ==
  ASSUME StagingInv, NEW c \in Calls, CallStep(c),
         \/ ClearPartial(c) \/ MakePartial(c) \/ CopyPackage(c) \/ Describe(c)
         \/ CleanUp(c) \/ CleanUpAfterRename(c)
  PROVE  StagingInv'
<1>1. SelectionsFit /\ PartialFits
  BY PartialIs, SelectionsAre
<1>2. /\ call[c] \in StageCalls /\ Directory(c) \in Releases /\ call[c].package \in Packages
      /\ call[c].key \in Keys /\ call[c].token \in Tokens
  BY CallIs DEF CallStep, StageCalls, Tokens
<1>3. selections' = selections => SelectionsFit'
  BY <1>1 DEF SelectionsFit
<1>4. partial' = partial => PartialFits'
  BY <1>1 DEF PartialFits
<1>5. ASSUME NEW d \in Directories \cup {None}, partial' = [partial EXCEPT ![Directory(c)] = d],
             d # None /\ d.record # None => Release[d.record.package] = Directory(c)
      PROVE  PartialFits'
  BY <1>1, <1>2, <1>5 DEF PartialFits
<1>6. CASE ClearPartial(c)
  <2>1. PartialFits'
    BY <1>2, <1>6, RemovalFits DEF ClearPartial
  <2> QED
    BY <1>6, <1>3, <2>1, GotoInv DEF ClearPartial, At, StageSteps, Begun, Stays, Published
<1>7. CASE MakePartial(c)
  <2>1. EmptyDirectory \in Directories /\ EmptyDirectory.record = None
    BY DEF EmptyDirectory, Directories
  <2> QED
    BY <1>7, <1>3, <1>4, <1>5, <2>1, GotoInv DEF MakePartial, At, StageSteps, Begun, Stays, Published
<1>8. CASE CopyPackage(c)
  <2>1. CASE UNCHANGED partial
    BY <1>8, <2>1, <1>3, <1>4, GotoInv DEF CopyPackage, At, StageSteps, Begun, Stays, Published
  <2>2. CASE partial[Directory(c)] # None
             /\ partial' = [partial EXCEPT ![Directory(c)].installer = call[c].package]
    <3>1. PICK d : d = [partial[Directory(c)] EXCEPT !.installer = call[c].package]
      OBVIOUS
    <3>2. d \in Directories /\ d.record = partial[Directory(c)].record
      BY <1>1, <1>2, <2>2, <3>1 DEF PartialFits, Directories
    <3>3. partial' = [partial EXCEPT ![Directory(c)] = d]
      BY <1>1, <1>2, <2>2, <3>1 DEF PartialFits
    <3>4. PartialFits'
      BY <1>1, <1>2, <1>5, <2>2, <3>2, <3>3 DEF PartialFits
    <3> QED
      BY <1>8, <3>4, <1>3, GotoInv DEF CopyPackage, At, StageSteps, Begun, Stays, Published
  <2> QED
    BY <1>8, <2>1, <2>2 DEF CopyPackage
<1>9. CASE Describe(c)
  <2>1. CASE UNCHANGED partial
    BY <1>9, <2>1, <1>3, <1>4, GotoInv DEF Describe, At, StageSteps, Begun, Stays, Published
  <2>2. CASE partial[Directory(c)] # None
             /\ partial' = [partial EXCEPT ![Directory(c)].manifest = call[c].package,
                  ![Directory(c)].record = [key |-> call[c].key, package |-> call[c].package]]
    <3>1. PICK d : d = [partial[Directory(c)] EXCEPT !.manifest = call[c].package,
                          !.record = [key |-> call[c].key, package |-> call[c].package]]
      OBVIOUS
    <3>2. d \in Directories /\ d.record.package = call[c].package
      BY <1>1, <1>2, <2>2, <3>1 DEF PartialFits, Directories, LedgerEntries
    <3>3. partial' = [partial EXCEPT ![Directory(c)] = d]
      BY <1>1, <1>2, <2>2, <3>1 DEF PartialFits
    <3>4. PartialFits'
      BY <1>5, <3>2, <3>3 DEF Directory
    <3> QED
      BY <1>9, <3>4, <1>3, GotoInv DEF Describe, At, StageSteps, Begun, Stays, Published
  <2> QED
    BY <1>9, <2>1, <2>2 DEF Describe
<1>10. CASE CleanUp(c)
  <2>1. SelectionsFit'
    BY <1>10, <1>2, RestoredFits DEF CleanUp
  <2>2. PartialFits'
    BY <1>2, <1>10, RemovalFits DEF CleanUp
  <2> QED
    BY <1>10, <2>1, <2>2, EndInv DEF CleanUp, At, Published
<1>11. CASE CleanUpAfterRename(c)
  <2>1. PartialFits'
    BY <1>2, <1>11, RemovalFits DEF CleanUpAfterRename
  <2> QED
    BY <1>11, <1>3, <2>1, GotoInv DEF CleanUpAfterRename, At, StageSteps, Begun, Stays, Published
<1> QED
  BY <1>6, <1>7, <1>8, <1>9, <1>10, <1>11

-----------------------------------------------------------------------------
(* The beginning of a call. *)
LEMMA AppendIs ==
  ASSUME NEW entries \in Seq(LedgerEntries), NEW e \in LedgerEntries, Unique(entries),
         \A i \in 1..Len(entries) : entries[i].key # e.key
  PROVE  /\ Append(entries, e) \in Seq(LedgerEntries) /\ Unique(Append(entries, e))
         /\ Len(Append(entries, e)) = Len(entries) + 1
<1>1. /\ Append(entries, e) \in Seq(LedgerEntries)
      /\ Len(Append(entries, e)) = Len(entries) + 1 /\ Len(entries) \in Nat
      /\ Append(entries, e)[Len(entries) + 1] = e
      /\ \A i \in 1..Len(entries) : Append(entries, e)[i] = entries[i]
  OBVIOUS
<1> QED
  BY <1>1 DEF Unique

LEMMA NewestIs ==
  ASSUME NEW entries \in Seq(LedgerEntries), Unique(entries)
  PROVE  /\ Newest(entries) \in Seq(LedgerEntries) /\ Unique(Newest(entries))
         /\ Len(Newest(entries)) <= LedgerLimit
<1>1. CASE Len(entries) <= LedgerLimit
  BY <1>1 DEF Newest
<1>2. CASE Len(entries) > LedgerLimit
  <2>1. PICK first \in Nat : first = Len(entries) - LedgerLimit + 1 /\ first >= 1
    BY <1>2, ReleaseIs
  <2>2. PICK rest : rest = SubSeq(entries, first, Len(entries))
    OBVIOUS
  <2>3. /\ rest \in Seq(LedgerEntries) /\ Len(rest) = LedgerLimit
        /\ \A i \in 1..Len(rest) : rest[i] = entries[first + i - 1]
    BY <1>2, <2>1, <2>2, ReleaseIs
  <2>4. Unique(rest)
    <3> SUFFICES ASSUME NEW i \in 1..Len(rest), NEW j \in 1..Len(rest), rest[i].key = rest[j].key
                 PROVE  i = j
      BY DEF Unique
    <3>1. first + i - 1 \in 1..Len(entries) /\ first + j - 1 \in 1..Len(entries)
      BY <1>2, <2>1, <2>3, ReleaseIs
    <3>2. first + i - 1 = first + j - 1
      BY <2>3, <3>1 DEF Unique
    <3> QED
      BY <2>1, <2>3, <3>2, ReleaseIs
  <2> QED
    BY <1>2, <2>1, <2>2, <2>3, <2>4, ReleaseIs DEF Newest
<1> QED
  BY <1>1, <1>2, ReleaseIs

LEMMA PersistInv ==
  ASSUME StagingInv, NEW c \in Calls, Persist(c)
  PROVE  StagingInv'
<1>1. /\ call[c] # None /\ call[c].step = "persist" /\ call' = [call EXCEPT ![c] = None]
      /\ ledger' = Newest(Append(call[c].ledger, Entry(call[c].key, call[c].package)))
      /\ UNCHANGED <<version, selections, inspections, partial, ready, left, calls, faults>>
  BY DEF Persist, At, End
<1>2. call[c] \in StageCalls /\ HasRead(call[c])
  BY <1>1, CallIs
<1>3. PICK e : e = Entry(call[c].key, call[c].package)
  OBVIOUS
<1>4. e \in LedgerEntries /\ e.key = call[c].key /\ call[c].ledger \in Seq(LedgerEntries)
  BY <1>2, <1>3 DEF Entry, LedgerEntries, StageCalls
<1>5. Unique(call[c].ledger) /\ \A i \in 1..Len(call[c].ledger) : call[c].ledger[i].key # e.key
  BY <1>1, <1>2, <1>4 DEF HasRead, Begun
<1>6. /\ Append(call[c].ledger, e) \in Seq(LedgerEntries) /\ Unique(Append(call[c].ledger, e))
  BY <1>4, <1>5, AppendIs
<1>7. ledger' \in Seq(LedgerEntries) /\ Unique(ledger') /\ Len(ledger') <= LedgerLimit
  BY <1>1, <1>3, <1>6, NewestIs
<1>8. call' \in [Calls -> StageCalls \cup {None}] /\ \A d \in Calls : call'[d] \in {call[d], None}
  BY <1>1, OneCall
<1>9. TypeOK'
  BY <1>1, <1>7, <1>8 DEF StagingInv, TypeOK
<1>10. KeysAreUnique'
  BY <1>7 DEF KeysAreUnique, Unique
<1>11. CallsFit'
  <2> SUFFICES ASSUME NEW d \in Calls, call'[d] # None PROVE HasRead(call[d])' /\ HasStaged(call[d])'
    BY DEF CallsFit
  <2>1. call'[d] = call[d] /\ HasRead(call[d]) /\ HasStaged(call[d])
    BY <1>8, CallIs
  <2> QED
    BY <1>1, <2>1 DEF HasRead, HasStaged, Matches, Recorded, Acceptable
<1>12. RecordsFit'
  BY <1>1 DEF StagingInv, RecordsFit
<1>13. RuinsHaveACause'
  <2> SUFFICES ASSUME NEW r \in Releases, ready[r] # None, ~Intact(ready[r]), r \notin left
               PROVE  Caused(r)'
    BY <1>1, RuinsStayCaused
  <2>1. PICK d \in Calls : call[d] # None /\ Release[call[d].package] = r /\ call[d].step \in Published
    BY RuinsAreCaused DEF Caused
  <2>2. d # c /\ call'[d] = call[d]
    BY <1>1, <2>1, <1>2, OneCall DEF Published
  <2> QED
    BY <2>1, <2>2 DEF Caused
<1> QED
  BY <1>9, <1>10, <1>11, <1>12, <1>13 DEF StagingInv

LEMMA ReadLedgerInv ==
  ASSUME StagingInv, NEW c \in Calls, ReadLedger(c)
  PROVE  StagingInv'
<1>1. /\ call[c] # None /\ call[c].step = "called" /\ CallStep(c) /\ UNCHANGED partial
  BY FaultsAre DEF ReadLedger, At, CallStep, stagingFiles
<1>2. call[c] \in StageCalls
  BY <1>1, CallIs
<1>3. SelectionsFit'
  BY SelectionsAre DEF ReadLedger, SelectionsFit
<1>4. PartialFits'
  BY <1>1, PartialIs DEF PartialFits
<1>5. CASE End(c)
  BY <1>1, <1>3, <1>4, <1>5, EndInv DEF Published
<1>6. CASE Goto(c, "replay")
  <2>1. PICK new : new = [call[c] EXCEPT !.step = "replay"]
    OBVIOUS
  <2>2. Advanced(call[c], new) /\ new.step = "replay"
    BY <1>2, <2>1, StepIs DEF StageSteps
  <2>3. call' = [call EXCEPT ![c] = new]
    BY <1>6, <2>1 DEF Goto
  <2>4. HasRead(new) /\ HasStaged(new) /\ Stays(call[c], new.step) /\ new \in StageCalls /\ new # None
    BY <1>1, <2>2, NoneIs DEF HasRead, HasStaged, Stays, Begun, Advanced, Published
  <2> QED
    BY <1>1, <1>3, <1>4, <2>2, <2>3, <2>4, CallStepInv
<1>7. ASSUME {e \in ToSet(ledger) : e.key = call[c].key} = {},
             NEW step \in {"reserved", "inspect"},
             call' = [call EXCEPT ![c].ledger = ledger, ![c].step = step]
      PROVE  StagingInv'
  <2>1. PICK new : new = [call[c] EXCEPT !.ledger = ledger, !.step = step]
    OBVIOUS
  <2>2. ledger \in Seq(LedgerEntries) /\ Len(ledger) <= LedgerLimit /\ Unique(ledger)
    BY DEF StagingInv, TypeOK, KeysAreUnique, Unique
  <2>3. Advanced(call[c], new) /\ new.step = step /\ new.ledger = ledger
    BY <1>2, <1>7, <2>1, <2>2 DEF Advanced, StageCalls, StageSteps
  <2>4. call' = [call EXCEPT ![c] = new]
    BY <1>1, <1>7, <2>1 DEF StagingInv, TypeOK
  <2>5. \A i \in 1..Len(ledger) : ledger[i].key # call[c].key
    BY <1>7, <2>2 DEF ToSet
  <2>6. HasRead(new) /\ HasStaged(new) /\ Stays(call[c], new.step) /\ new \in StageCalls /\ new # None
    BY <1>1, <2>2, <2>3, <2>5, NoneIs DEF HasRead, HasStaged, Stays, Advanced, Published
  <2> QED
    BY <1>1, <1>3, <1>4, <2>3, <2>4, <2>6, CallStepInv
<1> QED
  BY <1>5, <1>6, <1>7 DEF ReadLedger

LEMMA ReservedInv ==
  ASSUME StagingInv, NEW c \in Calls, Reserved(c)
  PROVE  StagingInv'
<1>1. /\ call[c] # None /\ call[c].step = "reserved" /\ CallStep(c) /\ UNCHANGED <<partial, selections>>
  BY FaultsAre DEF Reserved, At, CallStep, stagingFiles
<1>2. call[c] \in StageCalls /\ HasRead(call[c])
  BY <1>1, CallIs
<1>3. SelectionsFit' /\ PartialFits'
  BY <1>1, PartialIs, SelectionsAre DEF PartialFits, SelectionsFit
<1>4. CASE End(c)
  BY <1>1, <1>3, <1>4, EndInv DEF Published
<1>5. CASE /\ [key |-> call[c].key, package |-> call[c].package] \in Records
           /\ call' = [call EXCEPT ![c].step = "persist", ![c].kind = "reserved"]
  <2>1. PICK new : new = [call[c] EXCEPT !.step = "persist", !.kind = "reserved"]
    OBVIOUS
  <2>2. Advanced(call[c], new) /\ new.ledger = call[c].ledger /\ new.step = "persist"
    BY <1>2, <2>1, KindIs, Zenon
  <2>3. call' = [call EXCEPT ![c] = new]
    BY <1>1, <1>5, <2>1 DEF StagingInv, TypeOK
  <2>4. PICK r \in Releases : Recorded(ready[r])
                              /\ ready[r].record = [key |-> call[c].key, package |-> call[c].package]
    BY <1>5 DEF Records
  <2>5. ready[r].record.package = call[c].package /\ ready[r] # None /\ ready[r].record # None
    BY <2>4 DEF Recorded, Intact
  <2>6. Release[call[c].package] = r
    BY <2>5 DEF StagingInv, RecordsFit
  <2>7. HasRead(new) /\ HasStaged(new) /\ Stays(call[c], new.step) /\ new \in StageCalls /\ new # None
    BY <1>1, <1>2, <2>2, <2>4, <2>5, <2>6, NoneIs
       DEF HasRead, HasStaged, Stays, Begun, Advanced, Matches, Published
  <2> QED
    BY <1>1, <1>3, <2>2, <2>3, <2>7, CallStepInv
<1> QED
  BY <1>4, <1>5 DEF Reserved

-----------------------------------------------------------------------------
(* The final directory of a release appears and is taken back. *)
LEMMA PublishReleaseInv ==
  ASSUME StagingInv, NEW c \in Calls, PublishRelease(c)
  PROVE  StagingInv'
<1>1. /\ call[c] # None /\ call[c].step = "rename"
      /\ UNCHANGED <<version, selections, inspections, ledger, calls, faults>>
  BY DEF PublishRelease, At
<1>2. call[c] \in StageCalls /\ HasRead(call[c]) /\ Directory(c) \in Releases
  BY <1>1, CallIs
<1>3. SelectionsFit'
  BY <1>1, SelectionsAre DEF SelectionsFit
<1>4. CASE Goto(c, "failing") /\ UNCHANGED <<partial, ready, left>>
  <2>1. PartialFits'
    BY <1>4, PartialIs DEF PartialFits
  <2> QED
    BY <1>1, <1>3, <1>4, <2>1, FaultsAre, GotoInv DEF CallStep, StageSteps, Begun, Stays, Published
<1>5. CASE /\ partial[Directory(c)] # None /\ ready[Directory(c)] \in {None, EmptyDirectory}
           /\ left' = left \ {Directory(c)}
           /\ ready' = [ready EXCEPT ![Directory(c)] = partial[Directory(c)]]
           /\ partial' = [partial EXCEPT ![Directory(c)] = None] /\ Goto(c, "confirm")
  <2>1. PICK new \in StageCalls :
           /\ call' = [call EXCEPT ![c] = new] /\ new.step = "confirm" /\ new # None
           /\ Advanced(call[c], new) /\ HasRead(new)
    <3>1. PICK new : new = [call[c] EXCEPT !.step = "confirm"]
      OBVIOUS
    <3>2. Advanced(call[c], new) /\ new.ledger = call[c].ledger /\ new.step = "confirm"
      BY <1>2, <3>1, StepIs DEF StageSteps
    <3>3. call' = [call EXCEPT ![c] = new]
      BY <1>5, <3>1 DEF Goto
    <3>4. HasRead(new)
      BY <1>1, <1>2, <3>2 DEF HasRead, Begun, Advanced
    <3>5. new \in StageCalls /\ new # None
      BY <3>2, NoneIs DEF Advanced
    <3> QED
      BY <3>2, <3>3, <3>4, <3>5
  <2>2. /\ call' \in [Calls -> StageCalls \cup {None}] /\ call'[c] = new
        /\ \A d \in Calls : d # c => call'[d] = call[d]
    BY <1>1, <2>1, OneCall
  <2>3. /\ partial \in [Releases -> Directories \cup {None}]
        /\ ready \in [Releases -> Directories \cup {None}]
    BY DEF StagingInv, TypeOK
  <2>4. TypeOK'
    BY <1>1, <1>2, <1>5, <2>2, <2>3 DEF StagingInv, TypeOK
  <2>5. KeysAreUnique'
    BY <1>1 DEF StagingInv, KeysAreUnique
  <2>6. RecordsFit'
    BY <1>2, <1>5, <2>3 DEF StagingInv, RecordsFit
  <2>7. \A r \in Releases : r # Directory(c) => ready'[r] = ready[r]
    BY <1>2, <1>5, <2>3
  <2>8. \A w \in StageCalls : HasStaged(w) => HasStaged(w)'
    <3> SUFFICES ASSUME NEW w \in StageCalls, w.step \in {"answer", "persist"}, ~w.withdrawn,
                        HasStaged(w)
                 PROVE  Matches(ready[Release[w.package]], w.package)'
      BY DEF HasStaged
    <3>1. Matches(ready[Release[w.package]], w.package) /\ Release[w.package] \in Releases
      BY ReleaseIs DEF HasStaged, StageCalls
    <3>2. Release[w.package] # Directory(c)
      BY <1>5, <3>1 DEF Matches, Recorded, Intact, EmptyDirectory
    <3> QED
      BY <1>1, <2>7, <3>1, <3>2 DEF Matches, Recorded, Acceptable
  <2>9. CallsFit'
    <3> SUFFICES ASSUME NEW d \in Calls, call'[d] # None
                 PROVE  HasRead(call'[d]) /\ HasStaged(call[d])'
      BY DEF CallsFit, HasRead
    <3>1. CASE d = c
      BY <2>1, <2>2, <3>1 DEF HasStaged
    <3>2. CASE d # c
      BY <2>2, <2>8, <3>2, CallIs DEF HasStaged
    <3> QED
      BY <3>1, <3>2
  <2>10. RuinsHaveACause'
    <3> SUFFICES ASSUME NEW r \in Releases, ready'[r] # None, ~Intact(ready'[r]), r \notin left'
                 PROVE  Caused(r)'
      BY RuinsStayCaused
    <3>1. CASE r = Directory(c)
      BY <2>1, <2>2, <3>1 DEF Directory, Advanced, Caused, Published
    <3>2. CASE r # Directory(c)
      <4>1. ready[r] # None /\ ~Intact(ready[r]) /\ r \notin left
        BY <1>5, <2>7, <3>2
      <4>2. PICK d \in Calls :
               call[d] # None /\ Release[call[d].package] = r /\ call[d].step \in Published
        BY <4>1, RuinsAreCaused DEF Caused
      <4> QED
        BY <2>2, <4>2, <3>2 DEF Directory, Caused
    <3> QED
      BY <3>1, <3>2
  <2> QED
    BY <2>4, <2>5, <2>6, <2>9, <2>10 DEF StagingInv
<1> QED
  BY <1>4, <1>5 DEF PublishRelease

LEMMA TakeBackReleaseInv ==
  ASSUME StagingInv, NEW c \in Calls, TakeBackRelease(c)
  PROVE  StagingInv'
<1>1. /\ call[c] # None /\ call[c].step = "withdraw" /\ RestoreSelection(c)
      /\ UNCHANGED <<version, inspections, partial, ledger, calls>>
  BY DEF TakeBackRelease, At
<1>2. call[c] \in StageCalls /\ Directory(c) \in Releases
  BY <1>1, CallIs
<1>3. ready \in [Releases -> Directories \cup {None}] /\ left \subseteq Releases
  BY DEF StagingInv, TypeOK
<1>4. PICK rest \in Remains(ready[Directory(c)]) :
         /\ Leaving(rest) /\ ready' = [ready EXCEPT ![Directory(c)] = rest]
         /\ left' = IF rest = None THEN left \ {Directory(c)} ELSE left \cup {Directory(c)}
         /\ call' = [b \in Calls |->
              IF b = c \/ call[b] = None THEN None
              ELSE [call[b] EXCEPT !.withdrawn = \/ @
                                                 \/ /\ call[b].step \in {"answer", "persist"}
                                                    /\ Directory(b) = Directory(c)
                                                    /\ rest # ready[Directory(c)]]]
  BY DEF TakeBackRelease
<1>5. /\ rest \in Directories \cup {None}
      /\ rest # None /\ rest.record # None =>
           ready[Directory(c)] # None /\ rest.record = ready[Directory(c)].record
      /\ faults' \in 0..MaxFaults
  BY <1>2, <1>3, <1>4, RemainsAre, LeavingIs
<1>6. ASSUME NEW d \in Calls, d # c, call[d] # None
      PROVE  /\ call'[d] \in StageCalls /\ call'[d].step = call[d].step
             /\ call'[d].key = call[d].key /\ call'[d].package = call[d].package
             /\ call'[d].ledger = call[d].ledger
             /\ call'[d].withdrawn =
                  \/ call[d].withdrawn
                  \/ /\ call[d].step \in {"answer", "persist"}
                     /\ Directory(d) = Directory(c) /\ rest # ready[Directory(c)]
  <2>1. PICK b \in BOOLEAN :
           b = (\/ call[d].withdrawn
                \/ /\ call[d].step \in {"answer", "persist"}
                   /\ Directory(d) = Directory(c) /\ rest # ready[Directory(c)])
    OBVIOUS
  <2>2. call'[d] = [call[d] EXCEPT !.withdrawn = b]
    BY <1>4, <1>6, <2>1
  <2>3. call[d] \in StageCalls
    BY <1>6, CallIs
  <2> QED
    BY <2>1, <2>2, <2>3 DEF StageCalls
<1>7. call'[c] = None /\ \A d \in Calls : call[d] = None => call'[d] = None
  BY <1>4
<1>8. call' \in [Calls -> StageCalls \cup {None}]
  <2>1. \A d \in Calls : call'[d] \in StageCalls \cup {None}
    BY <1>6, <1>7
  <2>2. call' = [d \in Calls |-> call'[d]]
    BY <1>4
  <2> QED
    BY <2>1, <2>2
<1>9. SelectionsFit'
  BY <1>1, <1>2, RestoredFits
<1>10. TypeOK'
  <2>1. ready' \in [Releases -> Directories \cup {None}] /\ left' \subseteq Releases
    BY <1>2, <1>3, <1>4, <1>5
  <2> QED
    BY <1>1, <1>5, <1>8, <1>9, <2>1 DEF StagingInv, TypeOK, SelectionsFit
<1>11. KeysAreUnique'
  BY <1>1 DEF StagingInv, KeysAreUnique
<1>12. \A r \in Releases : r # Directory(c) => ready'[r] = ready[r]
  BY <1>2, <1>3, <1>4
<1>13. ready'[Directory(c)] = rest
  BY <1>2, <1>3, <1>4
<1>14. RecordsFit'
  <2> SUFFICES ASSUME NEW r \in Releases
               PROVE  /\ partial'[r] # None /\ partial'[r].record # None
                           => Release[partial'[r].record.package] = r
                      /\ ready'[r] # None /\ ready'[r].record # None
                           => Release[ready'[r].record.package] = r
    BY DEF RecordsFit
  <2>1. CASE r = Directory(c)
    BY <1>1, <1>5, <1>13, <2>1 DEF StagingInv, RecordsFit
  <2>2. CASE r # Directory(c)
    BY <1>1, <1>12, <2>2 DEF StagingInv, RecordsFit
  <2> QED
    BY <2>1, <2>2
<1>15. CallsFit'
  <2> SUFFICES ASSUME NEW d \in Calls, call'[d] # None
               PROVE  /\ HasRead(call'[d])
                      /\ call'[d].step \in {"answer", "persist"} =>
                           \/ Matches(ready[Release[call[d].package]], call[d].package)'
                           \/ call'[d].withdrawn
    BY DEF CallsFit, HasRead, HasStaged
  <2>1. d # c /\ call[d] # None
    BY <1>7
  <2>2. HasRead(call[d]) /\ HasStaged(call[d]) /\ Directory(d) \in Releases
    BY <2>1, CallIs
  <2>3. HasRead(call'[d])
    BY <1>6, <2>1, <2>2 DEF HasRead
  <2>4. CASE Directory(d) = Directory(c) /\ rest # ready[Directory(c)]
    <3>1. call'[d].step \in {"answer", "persist"} => call'[d].withdrawn
      BY <1>6, <2>1, <2>4
    <3> QED
      BY <2>3, <3>1
  <2>5. CASE Directory(d) # Directory(c) \/ rest = ready[Directory(c)]
    <3>1. ready'[Release[call[d].package]] = ready[Release[call[d].package]]
      BY <1>12, <1>13, <2>2, <2>5 DEF Directory
    <3>2. /\ call'[d].step = call[d].step /\ call'[d].package = call[d].package
          /\ (call[d].withdrawn => call'[d].withdrawn) /\ version' = version
      BY <1>1, <1>6, <2>1
    <3> QED
      BY <2>2, <2>3, <3>1, <3>2 DEF HasStaged, Matches, Recorded, Acceptable, Intact
  <2> QED
    BY <2>4, <2>5
<1>16. RuinsHaveACause'
  <2> SUFFICES ASSUME NEW r \in Releases, ready'[r] # None, ~Intact(ready'[r]), r \notin left'
               PROVE  Caused(r)'
    BY RuinsStayCaused
  <2>1. r # Directory(c)
    BY <1>4, <1>13
  <2>2. ready[r] # None /\ ~Intact(ready[r]) /\ r \notin left
    BY <1>4, <1>12, <2>1
  <2>3. PICK d \in Calls : call[d] # None /\ Release[call[d].package] = r /\ call[d].step \in Published
    BY <2>2, RuinsAreCaused DEF Caused
  <2>4. d # c
    BY <2>1, <2>3 DEF Directory
  <2> QED
    BY <1>6, <2>3, <2>4, NoneIs DEF Caused
<1> QED
  BY <1>10, <1>11, <1>14, <1>15, <1>16 DEF StagingInv

LEMMA FileFailsInv ==
  ASSUME StagingInv, NEW c \in Calls, FileFails(c)
  PROVE  StagingInv'
<1>1. SelectionsFit' /\ PartialFits'
  BY PartialIs, SelectionsAre DEF FileFails, PartialFits, SelectionsFit, stagingFiles
<1> QED
  BY <1>1, FaultsAre, GotoInv, EndInv
     DEF FileFails, Fails, At, CallStep, stagingFiles, StageSteps, Begun, Stays, Published

-----------------------------------------------------------------------------
(* The selections, the calls and the process. *)
LEMMA SameDiskInv ==
  ASSUME StagingInv, SelectionsFit', inspections' \in 0..MaxInspections,
         calls' \in 0..MaxCalls, UNCHANGED <<version, stagingFiles, faults>>,
         call' \in [Calls -> StageCalls \cup {None}],
         \A c \in Calls : \/ call'[c] = call[c]
                          \/ call[c] = None /\ call'[c].step = "called"
  PROVE  StagingInv'
<1>1. UNCHANGED <<version, partial, ready, left, ledger, faults>>
  BY DEF stagingFiles
<1>2. TypeOK'
  BY <1>1 DEF StagingInv, TypeOK, SelectionsFit
<1>3. KeysAreUnique'
  BY <1>1 DEF StagingInv, KeysAreUnique
<1>4. RecordsFit'
  BY <1>1 DEF StagingInv, RecordsFit
<1>5. CallsFit'
  <2> SUFFICES ASSUME NEW d \in Calls, call'[d] # None
               PROVE  /\ HasRead(call'[d])
                      /\ call'[d].step \in {"answer", "persist"} =>
                           \/ Matches(ready[Release[call[d].package]], call[d].package)'
                           \/ call'[d].withdrawn
    BY DEF CallsFit, HasRead, HasStaged
  <2>1. CASE call'[d] = call[d]
    BY <1>1, <2>1, CallIs DEF HasStaged, Matches, Recorded, Acceptable
  <2>2. CASE call'[d].step = "called"
    BY <2>2 DEF HasRead, HasStaged, Begun
  <2> QED
    BY <2>1, <2>2
<1>6. RuinsHaveACause'
  <2> SUFFICES ASSUME NEW r \in Releases, ready[r] # None, ~Intact(ready[r]), r \notin left
               PROVE  Caused(r)'
    BY <1>1, RuinsStayCaused
  <2>1. Caused(r)
    BY RuinsAreCaused
  <2> QED
    BY <2>1 DEF Caused
<1> QED
  BY <1>2, <1>3, <1>4, <1>5, <1>6 DEF StagingInv

LEMMA SelectionInv ==
  ASSUME StagingInv,
         (\E p \in Packages : InspectOffline(p)) \/ (\E t \in Tokens : Expire(t))
  PROVE  StagingInv'
<1>1. TypeOK
  BY DEF StagingInv
<1>2. ASSUME NEW p \in Packages, InspectOffline(p) PROVE StagingInv'
  <2>1. [package |-> p, expired |-> FALSE] \in Selections
    BY DEF Selections
  <2>2. SelectionsFit'
    BY <1>1, <1>2, <2>1 DEF InspectOffline, SelectionsFit, TypeOK
  <2>3. inspections' \in 0..MaxInspections
    BY <1>1, <1>2, ReleaseIs DEF InspectOffline, TypeOK
  <2> QED
    BY <1>1, <1>2, <2>2, <2>3, SameDiskInv DEF InspectOffline, TypeOK
<1>3. ASSUME NEW t \in Tokens, Expire(t) PROVE StagingInv'
  <2>1. PICK s : s = [selections[t] EXCEPT !.expired = TRUE]
    OBVIOUS
  <2>2. s \in Selections
    BY <1>1, <1>3, <2>1 DEF Expire, TypeOK, Selections
  <2>3. selections' = [selections EXCEPT ![t] = s]
    BY <1>1, <1>3, <2>1 DEF Expire, TypeOK
  <2>4. SelectionsFit'
    BY <1>1, <2>2, <2>3 DEF SelectionsFit, TypeOK
  <2> QED
    BY <1>1, <1>3, <2>4, SameDiskInv DEF Expire, TypeOK
<1> QED
  BY <1>2, <1>3

LEMMA StageOfflineInv ==
  ASSUME StagingInv, NEW c \in Calls, NEW k \in Keys, NEW p \in Packages, NEW t \in Tokens,
         StageOffline(c, k, p, t)
  PROVE  StagingInv'
<1>1. TypeOK
  BY DEF StagingInv
<1>2. PICK new : new = [step |-> "called", key |-> k, package |-> p, token |-> t,
                        ledger |-> <<>>, kind |-> "new", withdrawn |-> FALSE]
  OBVIOUS
<1>3. new \in StageCalls /\ new.step = "called"
  BY <1>2 DEF StageCalls, StageSteps, Tokens
<1>4. call[c] = None /\ call' = [call EXCEPT ![c] = new] /\ calls < MaxCalls /\ calls' = calls + 1
  BY <1>2 DEF StageOffline
<1>5. call' \in [Calls -> StageCalls \cup {None}] /\ call'[c] = new
      /\ \A d \in Calls : d # c => call'[d] = call[d]
  BY <1>1, <1>3, <1>4 DEF TypeOK
<1>6. SelectionsFit'
  BY <1>1 DEF StageOffline, SelectionsFit, TypeOK
<1>7. calls' \in 0..MaxCalls
  BY <1>1, <1>4, ReleaseIs DEF TypeOK
<1> QED
  BY <1>1, <1>3, <1>4, <1>5, <1>6, <1>7, SameDiskInv DEF StageOffline, Begun, TypeOK

LEMMA RestartInv ==
  ASSUME StagingInv, NEW v \in {version} \cup {Version[p] : p \in Packages}, Restart(v)
  PROVE  StagingInv'
<1>1. /\ faults < MaxFaults /\ faults' = faults + 1
      /\ left' = left \cup {Directory(c) : c \in {c \in Calls : Answerable(c)}}
      /\ version' = v /\ call' = [c \in Calls |-> None] /\ selections' = [t \in Tokens |-> None]
      /\ UNCHANGED <<inspections, partial, ready, ledger, calls>>
  BY DEF Restart
<1>2. TypeOK
  BY DEF StagingInv
<1>3. faults' \in 0..MaxFaults /\ version' \in Nat
  BY <1>1, <1>2, ReleaseIs DEF TypeOK
<1>4. left' \subseteq Releases
  BY <1>1, <1>2, CallIs DEF TypeOK, Answerable
<1>5. TypeOK'
  BY <1>1, <1>2, <1>3, <1>4 DEF TypeOK
<1>6. RecordsFit' /\ KeysAreUnique' /\ CallsFit'
  BY <1>1 DEF StagingInv, RecordsFit, KeysAreUnique, CallsFit
<1>7. RuinsHaveACause'
  <2> SUFFICES ASSUME NEW r \in Releases, ready[r] # None, ~Intact(ready[r]), r \notin left
               PROVE  r \in left'
    BY <1>1, RuinsStayCaused
  <2>1. PICK d \in Calls : Answerable(d) /\ Directory(d) = r
    BY DEF StagingInv, RuinsHaveACause
  <2> QED
    BY <1>1, <2>1
<1> QED
  BY <1>5, <1>6, <1>7 DEF StagingInv

-----------------------------------------------------------------------------
LEMMA StepsInv ==
  ASSUME StagingInv, NEW c \in Calls, Steps(c)
  PROVE  StagingInv'
<1>1. MakePartial(c) \/ CopyPackage(c) \/ Describe(c) => CallStep(c)
  BY FaultsAre DEF MakePartial, CopyPackage, Describe, At, CallStep
<1>2. ClearPartial(c) \/ CleanUp(c) \/ CleanUpAfterRename(c) => CallStep(c)
  BY CallIs, RemovalFits DEF ClearPartial, CleanUp, CleanUpAfterRename, At, CallStep
<1> QED
  BY <1>1, <1>2, ReadLedgerInv, ReservedInv, QuietInv, PartialInv, PublishReleaseInv, PersistInv,
     TakeBackReleaseInv DEF Steps

LEMMA StagingStep == StagingInv /\ [UpdatesNext]_updateVars => StagingInv'
<1> SUFFICES ASSUME StagingInv, [UpdatesNext]_updateVars PROVE StagingInv'
  OBVIOUS
<1>1. CASE UNCHANGED updateVars
  <2>1. UNCHANGED <<version, selections, inspections, partial, ready, ledger, call, calls, left, faults>>
    BY <1>1 DEF updateVars, stagingFiles
  <2> QED
    BY <2>1, SameDiskInv DEF StagingInv, TypeOK, SelectionsFit, stagingFiles
<1>2. CASE UpdatesNext
  BY <1>2, SelectionInv, StageOfflineInv, StepsInv, FileFailsInv, RestartInv DEF UpdatesNext
<1> QED
  BY <1>1, <1>2

LEMMA StagingAlways == UpdatesSpec => []StagingInv
BY InitStaging, StagingStep, PTL DEF UpdatesSpec

(* Whatever calls, inspections, failures and ends of the process: no key is  *)
(* entered twice, and a directory that is not whole under a final name is     *)
(* about to be taken back, or was left by a removal that failed or by a       *)
(* process that ended (stageOffline, persistLedger and the catch blocks       *)
(* after the publication).                                                  *)
THEOREM StagingIsConsistent == UpdatesSpec => []UpdatesConsistent
<1>1. StagingInv => UpdatesConsistent
  BY DEF StagingInv, UpdatesConsistent
<1> QED
  BY <1>1, StagingAlways, PTL

(* Who is told that a package is staged, now or once more, finds it whole     *)
(* under its final name, unless it was taken back since it was read           *)
(* (stageOffline, whichever of its four ways the call took).                 *)
THEOREM StagedIsThere == UpdatesSpec => AnswersAreTrue
<1>1. StagingInv => [\A c \in Calls : Persist(c) \/ AnswerReplay(c) =>
         Matches(ready[Directory(c)], call[c].package) \/ call[c].withdrawn]_updateVars
  BY CallIs DEF Persist, AnswerReplay, At, HasStaged, Directory
<1> QED
  BY <1>1, StagingAlways, PTL DEF AnswersAreTrue
================================================================================
