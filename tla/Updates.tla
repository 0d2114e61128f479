-------------------------------- MODULE Updates --------------------------------
(***************************************************************************)
(* Staging of an offline update (update/service.ts): a container is          *)
(* inspected, the user confirms it with a token, and it is copied to          *)
(* <release>.partial, read back, renamed to <release>.ready and entered in    *)
(* the ledger of keys.  Nothing is installed.                                *)
(*                                                                         *)
(* The service takes no lock and every step awaits the disk.  The panel       *)
(* waits for its own answer, but it forgets that when the user leaves the     *)
(* page: two calls may stage at the same time, of one release or of two.      *)
(*                                                                         *)
(* A package stands for its manifest, its bytes and its digests.              *)
(***************************************************************************)
EXTENDS Naturals, FiniteSets, SequencesExt

CONSTANTS
    Packages, Releases, Keys, Calls, None,
    Release,        \* the releaseId of a package
    Version,        \* its targetVersion
    LedgerLimit,    \* entries the ledger holds (LEDGER_MAX_ENTRIES, ledgerMaxBytes)
    MaxInspections, MaxCalls,
    MaxFaults       \* bounds; faults are removals that fail and ends of the process

ASSUME UpdatesAssumption ==
    /\ Release \in [Packages -> Releases] /\ Version \in [Packages -> Nat]
    /\ LedgerLimit \in Nat \ {0} /\ {MaxInspections, MaxCalls, MaxFaults} \subseteq Nat

(* The records that the maps, directories and files hold. *)
LedgerEntries == [key : Keys, package : Packages]
Selections == [package : Packages, expired : BOOLEAN]
Directories ==
    [installer : Packages \cup {None}, manifest : Packages \cup {None},
     record : LedgerEntries \cup {None}]
StageSteps ==
    {"called", "replay", "answer", "reserved", "inspect", "existing", "clear", "make", "copy",
     "describe", "readback", "rename", "confirm", "persist", "failing", "undo", "withdraw"}
StageCalls ==
    [step : StageSteps, key : Keys, package : Packages, token : 1..MaxInspections,
     ledger : Seq(LedgerEntries), kind : {"new", "reserved", "existing"}, withdrawn : BOOLEAN]

ASSUME NoneAssumption ==
    None \notin Packages \cup LedgerEntries \cup Selections \cup Directories \cup StageCalls

VARIABLES
    version,       \* currentVersion
    selections,    \* the tokens the service knows
    inspections,   \* tokens given so far
    partial, ready,    \* the two directories of a release
    ledger,        \* idempotency.json
    call,          \* the stage calls in flight
    left,          \* history: final directories that a removal or the end of the
                   \* process has left behind
    calls,         \* how many calls there have been
    faults         \* how many removals have failed, and processes ended

stagingFiles == <<partial, ready, left, ledger>>
updateVars == <<version, selections, inspections, stagingFiles, call, calls, faults>>

-----------------------------------------------------------------------------
Tokens == 1..MaxInspections
EmptyDirectory == [installer |-> None, manifest |-> None, record |-> None]

(* verifyUpdateMetadata: signed for this application, and newer than it. *)
Acceptable(p) == Version[p] > version

Intact(d) ==
    /\ d # None /\ d.record # None
    /\ d.installer = d.record.package /\ d.manifest = d.record.package

(* readVerificationRecord gives the record. *)
Recorded(d) == Intact(d) /\ Acceptable(d.manifest)

(* readVerificationRecords *)
Records == {ready[r].record : r \in {r \in Releases : Recorded(ready[r])}}

Entry(k, p) == [key |-> k, package |-> p]

(* What rm of a directory leaves: nothing, or, when it fails, the directory,  *)
(* empty or with any of its files.                                          *)
Remains(d) ==
    IF d = None THEN {None}
    ELSE {None} \cup [installer : {d.installer, None}, manifest : {d.manifest, None},
                      record : {d.record, None}]

Leaving(d) == IF d = None THEN UNCHANGED faults ELSE faults < MaxFaults /\ faults' = faults + 1

(* persistLedger: the oldest make room. *)
Newest(entries) ==
    IF Len(entries) <= LedgerLimit THEN entries
    ELSE SubSeq(entries, Len(entries) - LedgerLimit + 1, Len(entries))

UpdatesInit ==
    /\ version = 0 /\ selections = [t \in Tokens |-> None] /\ inspections = 0
    /\ partial = [r \in Releases |-> None] /\ ready = [r \in Releases |-> None]
    /\ left = {} /\ ledger = <<>>
    /\ call = [c \in Calls |-> None] /\ calls = 0 /\ faults = 0

-----------------------------------------------------------------------------
(* inspectOffline: a new selection replaces the others. *)
InspectOffline(p) ==
    /\ inspections < MaxInspections /\ Acceptable(p)
    /\ inspections' = inspections + 1
    /\ selections' = [t \in Tokens |->
         IF t = inspections + 1 THEN [package |-> p, expired |-> FALSE] ELSE None]
    /\ UNCHANGED <<version, stagingFiles, call, calls, faults>>

Expire(t) ==
    /\ selections[t] # None /\ ~selections[t].expired
    /\ selections' = [selections EXCEPT ![t].expired = TRUE]
    /\ UNCHANGED <<version, inspections, stagingFiles, call, calls, faults>>

At(c, step) == call[c] # None /\ call[c].step = step
Goto(c, step) == call' = [call EXCEPT ![c].step = step]
End(c) == call' = [call EXCEPT ![c] = None]
Directory(c) == Release[call[c].package]

(* stageOffline, before its first await: clearExpiredSelections. *)
StageOffline(c, k, p, t) ==
    /\ call[c] = None /\ calls < MaxCalls /\ t <= inspections
    /\ calls' = calls + 1
    /\ selections' = [u \in Tokens |->
         IF selections[u] # None /\ selections[u].expired THEN None ELSE selections[u]]
    /\ call' = [call EXCEPT ![c] = [step |-> "called", key |-> k, package |-> p, token |-> t,
                                    ledger |-> <<>>, kind |-> "new", withdrawn |-> FALSE]]
    /\ UNCHANGED <<version, inspections, stagingFiles, faults>>

(* The ledger is read once.  A key it does not hold takes the token. *)
ReadLedger(c) ==
    LET k == call[c].key p == call[c].package s == selections[call[c].token]
        prior == {e \in ToSet(ledger) : e.key = k} IN
    /\ At(c, "called")
    /\ \/ prior # {} /\ Entry(k, p) \notin prior /\ End(c) /\ UNCHANGED selections
       \/ Entry(k, p) \in prior /\ Goto(c, "replay") /\ UNCHANGED selections
       \/ /\ prior = {}
          /\ selections' = [selections EXCEPT ![call[c].token] = None]
          /\ IF s # None /\ (s.expired \/ s.package # p) THEN End(c)
             ELSE call' = [call EXCEPT ![c].ledger = ledger,
                                       ![c].step = IF s = None THEN "reserved" ELSE "inspect"]
    /\ UNCHANGED <<version, inspections, stagingFiles, calls, faults>>

(* A key of the ledger is answered if its release is there when the          *)
(* directories are read, and refused if not: a record that cannot be read is *)
(* none.  The answer comes when the last of them was read.                  *)
Replay(c) ==
    /\ At(c, "replay")
    /\ \/ (\E e \in Records : e.package = call[c].package) /\ Goto(c, "answer")
       \/ End(c)
    /\ UNCHANGED <<version, selections, inspections, stagingFiles, calls, faults>>

AnswerReplay(c) ==
    /\ At(c, "answer") /\ End(c)
    /\ UNCHANGED <<version, selections, inspections, stagingFiles, calls, faults>>

(* Without a token: the release may have been published under this very key, *)
(* and the ledger not written.                                               *)
Reserved(c) ==
    LET own == [key |-> call[c].key, package |-> call[c].package] IN
    /\ At(c, "reserved")
    /\ \/ /\ own \in Records
          /\ call' = [call EXCEPT ![c].step = "persist", ![c].kind = "reserved"]
       \/ End(c)
    /\ UNCHANGED <<version, selections, inspections, stagingFiles, calls, faults>>

(* inspectUpdateFile: the file may have become another one.  The token is gone. *)
InspectAgain(c, same) ==
    /\ At(c, "inspect")
    /\ IF same THEN Goto(c, "existing") ELSE End(c)
    /\ UNCHANGED <<version, selections, inspections, stagingFiles, calls, faults>>

(* Mutant: whatever package the release has is taken for the one asked for. *)
ExistingOfAnyPackage(c) ==
    /\ At(c, "existing")
    /\ \/ /\ Recorded(ready[Directory(c)])
          /\ call' = [call EXCEPT ![c].step = "persist", ![c].kind = "existing"]
       \/ ~Recorded(ready[Directory(c)]) /\ Goto(c, "clear")
    /\ UNCHANGED <<version, selections, inspections, stagingFiles, calls, faults>>

(* The try block.  What fails in it is cleaned up by CleanUp, or, after the   *)
(* rename, by CleanUpAfterRename and TakeBackRelease.  Here too a record that *)
(* cannot be read is none.                                                  *)
Existing(c) ==
    LET d == ready[Directory(c)] IN
    /\ At(c, "existing")
    /\ \/ /\ Recorded(d) /\ d.record.package = call[c].package
          /\ call' = [call EXCEPT ![c].step = "persist", ![c].kind = "existing"]
       \/ Recorded(d) /\ d.record.package # call[c].package /\ Goto(c, "failing")
       \/ Goto(c, "clear")
    /\ UNCHANGED <<version, selections, inspections, stagingFiles, calls, faults>>

RemovePartial(c) ==
    \E d \in Remains(partial[Directory(c)]) :
        Leaving(d) /\ partial' = [partial EXCEPT ![Directory(c)] = d]

(* This removal is not swallowed. *)
ClearPartial(c) ==
    /\ At(c, "clear") /\ RemovePartial(c)
    /\ Goto(c, IF partial'[Directory(c)] = None THEN "make" ELSE "failing")
    /\ UNCHANGED <<version, selections, inspections, ready, left, ledger, calls>>

(* mkdir fails on a directory that is there. *)
MakePartial(c) ==
    LET r == Directory(c) IN
    /\ At(c, "make")
    /\ \/ partial[r] # None /\ Goto(c, "failing") /\ UNCHANGED partial
       \/ /\ partial[r] = None /\ Goto(c, "copy")
          /\ partial' = [partial EXCEPT ![r] = EmptyDirectory]
    /\ UNCHANGED <<version, selections, inspections, ready, left, ledger, calls, faults>>

(* copyVerifiedPackage: the destination is created, and is not there yet. *)
CopyPackage(c) ==
    LET r == Directory(c) free == partial[r] # None /\ partial[r].installer = None IN
    /\ At(c, "copy")
    /\ \/ ~free /\ Goto(c, "failing") /\ UNCHANGED partial
       \/ /\ free /\ Goto(c, "describe")
          /\ partial' = [partial EXCEPT ![r].installer = call[c].package]
    /\ UNCHANGED <<version, selections, inspections, ready, left, ledger, calls, faults>>

(* manifest.json and verification.json *)
Describe(c) ==
    LET r == Directory(c)
        free == partial[r] # None /\ partial[r].manifest = None /\ partial[r].record = None IN
    /\ At(c, "describe")
    /\ \/ ~free /\ Goto(c, "failing") /\ UNCHANGED partial
       \/ /\ free /\ Goto(c, "readback")
          /\ partial' = [partial EXCEPT ![r].manifest = call[c].package,
               ![r].record = [key |-> call[c].key, package |-> call[c].package]]
    /\ UNCHANGED <<version, selections, inspections, ready, left, ledger, calls, faults>>

(* assertRecordMatches: the key of the record is not compared. *)
Matches(d, p) == Recorded(d) /\ d.record.package = p

(* It is read back twice, with a hook between that does nothing here. *)
Readback(c) ==
    /\ At(c, "readback")
    /\ Goto(c, IF Matches(partial[Directory(c)], call[c].package) THEN "rename" ELSE "failing")
    /\ UNCHANGED <<version, selections, inspections, stagingFiles, calls, faults>>

(* rename fails without a source and on a directory that has files; whether   *)
(* it replaces an empty one depends on the platform.                        *)
PublishRelease(c) ==
    LET r == Directory(c) IN
    /\ At(c, "rename")
    /\ \/ /\ partial[r] = None \/ ready[r] # None
          /\ Goto(c, "failing") /\ UNCHANGED <<partial, ready, left>>
       \/ /\ partial[r] # None /\ ready[r] \in {None, EmptyDirectory}
          /\ ready' = [ready EXCEPT ![r] = partial[r]] /\ partial' = [partial EXCEPT ![r] = None]
          /\ left' = left \ {r} /\ Goto(c, "confirm")
    /\ UNCHANGED <<version, selections, inspections, ledger, calls, faults>>

Confirm(c) ==
    /\ At(c, "confirm")
    /\ Goto(c, IF Matches(ready[Directory(c)], call[c].package) THEN "persist" ELSE "undo")
    /\ UNCHANGED <<version, selections, inspections, stagingFiles, calls, faults>>

(* persistLedger: the ledger that was read at the beginning, and the key. *)
Persist(c) ==
    /\ At(c, "persist") /\ End(c)
    /\ ledger' = Newest(Append(call[c].ledger, Entry(call[c].key, call[c].package)))
    /\ UNCHANGED <<version, selections, inspections, partial, ready, left, calls, faults>>

-----------------------------------------------------------------------------
(* Failures.                                                                *)

(* A file operation fails; a lack of space is one of them. *)
Fails(c) ==
    \/ At(c, "called") /\ End(c)
    \/ /\ \E step \in {"existing", "clear", "make", "copy", "describe", "readback", "rename"} :
            At(c, step)
       /\ Goto(c, "failing")
    \/ At(c, "confirm") /\ Goto(c, "undo")
    \/ /\ At(c, "persist")
       /\ CASE call[c].kind = "new" -> Goto(c, "withdraw")
            [] call[c].kind = "existing" -> Goto(c, "failing")
            [] OTHER -> End(c)

FileFails(c) ==
    /\ Fails(c)
    /\ UNCHANGED <<version, selections, inspections, stagingFiles, calls, faults>>

(* restoreSelection, if it has not expired meanwhile. *)
RestoreSelection(c) ==
    \/ selections' = [selections EXCEPT ![call[c].token] =
                        [package |-> call[c].package, expired |-> FALSE]]
    \/ UNCHANGED selections

(* The catch block: it removes the partial directory, whoever made it; after  *)
(* the rename it takes the publication back as well.                        *)
CleanUp(c) ==
    /\ At(c, "failing") /\ End(c)
    /\ RemovePartial(c) /\ RestoreSelection(c)
    /\ UNCHANGED <<version, inspections, ready, left, ledger, calls>>

CleanUpAfterRename(c) ==
    /\ At(c, "undo") /\ Goto(c, "withdraw")
    /\ RemovePartial(c)
    /\ UNCHANGED <<version, selections, inspections, ready, left, ledger, calls>>

(* Mutant: the publication is left where it is. *)
WithdrawNothing(c) ==
    /\ At(c, "withdraw") /\ End(c) /\ RestoreSelection(c)
    /\ UNCHANGED <<version, inspections, stagingFiles, calls, faults>>

(* That block and the one after it: the publication is taken back, whoever    *)
(* has been told of it meanwhile, as far as its files can be removed.       *)
TakeBackRelease(c) ==
    LET r == Directory(c) IN
    /\ At(c, "withdraw")
    /\ \E d \in Remains(ready[r]) :
          /\ Leaving(d)
          /\ ready' = [ready EXCEPT ![r] = d]
          /\ left' = IF d = None THEN left \ {r} ELSE left \cup {r}
          /\ call' = [b \in Calls |->
               IF b = c \/ call[b] = None THEN None
               ELSE [call[b] EXCEPT !.withdrawn = \/ @
                                                  \/ /\ call[b].step \in {"answer", "persist"}
                                                     /\ Directory(b) = r /\ d # ready[r]]]
    /\ RestoreSelection(c)
    /\ UNCHANGED <<version, inspections, partial, ledger, calls>>

(* A call that has published a directory which it may have to take back.     *)
Answerable(c) == call[c] # None /\ call[c].step \in {"confirm", "undo", "withdraw"}

(* The process ends; what was to be taken back stays.  The next one may be of *)
(* a version that was installed meanwhile.                                  *)
Restart(v) ==
    /\ faults < MaxFaults /\ faults' = faults + 1
    /\ left' = left \cup {Directory(c) : c \in {c \in Calls : Answerable(c)}}
    /\ v = version \/ \E record \in Records : v = Version[record.package]
    /\ version' = v
    /\ call' = [c \in Calls |-> None] /\ selections' = [t \in Tokens |-> None]
    /\ UNCHANGED <<inspections, partial, ready, ledger, calls>>

-----------------------------------------------------------------------------
Steps(c) ==
    \/ ReadLedger(c) \/ Replay(c) \/ AnswerReplay(c) \/ Reserved(c)
    \/ \E same \in BOOLEAN : InspectAgain(c, same)
    \/ Existing(c) \/ ClearPartial(c) \/ MakePartial(c) \/ CopyPackage(c) \/ Describe(c)
    \/ Readback(c) \/ PublishRelease(c) \/ Confirm(c) \/ Persist(c) \/ CleanUp(c)
    \/ CleanUpAfterRename(c) \/ TakeBackRelease(c)

UpdatesNext ==
    \/ \E p \in Packages : InspectOffline(p)
    \/ \E t \in Tokens : Expire(t)
    \/ \E c \in Calls, k \in Keys, p \in Packages, t \in Tokens : StageOffline(c, k, p, t)
    \/ \E c \in Calls : Steps(c) \/ FileFails(c)
    \/ \E v \in {version} \cup {Version[p] : p \in Packages} : Restart(v)

UpdatesSpec == UpdatesInit /\ [][UpdatesNext]_updateVars

-----------------------------------------------------------------------------
(* Properties.                                                              *)

TypeOK ==
    /\ version \in Nat /\ inspections \in 0..MaxInspections
    /\ calls \in 0..MaxCalls /\ faults \in 0..MaxFaults
    /\ selections \in [Tokens -> Selections \cup {None}]
    /\ {partial, ready} \subseteq [Releases -> Directories \cup {None}]
    /\ left \subseteq Releases
    /\ call \in [Calls -> StageCalls \cup {None}]
    /\ ledger \in Seq(LedgerEntries) /\ Len(ledger) <= LedgerLimit

(* No key is entered twice, though a ledger read long ago is written back. *)
KeysAreUnique ==
    \A i, j \in 1..Len(ledger) : ledger[i].key = ledger[j].key => i = j

(* A directory under the final name that is not whole is about to be taken   *)
(* back, or it was left by a removal that failed or by a process that ended:  *)
(* calls that clear, fill and rename one another's directories leave none    *)
(* behind.  (Such a leftover blocks its release for good: nothing but a       *)
(* rename that fails meets it.)                                             *)
RuinsHaveACause ==
    \A r \in Releases : ready[r] # None /\ ~Intact(ready[r]) =>
      r \in left \/ \E c \in Calls : Answerable(c) /\ Directory(c) = r

UpdatesConsistent == TypeOK /\ KeysAreUnique /\ RuinsHaveACause

(* Who is told that a package is staged, now or once more, finds it whole     *)
(* under its final name, whatever two calls did to one another, unless a call *)
(* that published it has taken it back since it was read.                   *)
AnswersAreTrue ==
    [][\A c \in Calls : Persist(c) \/ AnswerReplay(c) =>
         Matches(ready[Directory(c)], call[c].package) \/ call[c].withdrawn]_updateVars
=============================================================================
