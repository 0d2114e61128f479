------------------------------ MODULE ReleaseSet ------------------------------
(***************************************************************************)
(* How a release is put together (scripts/): the build of the candidate, the *)
(* acceptance run, the release evidence and the supply chain, each a script  *)
(* that publishes several files of reports/release in a transaction with a   *)
(* journal of its own, and release:verify, which reads them all.             *)
(*                                                                         *)
(* One script runs at a time; it may crash or fail at any step, and the      *)
(* repository may be edited or committed meanwhile.  Files that are always   *)
(* written together and read alike are one file here: the two texts, and     *)
(* the SBOM with its environment and the signing status.                     *)
(***************************************************************************)
EXTENDS Naturals, SequencesExt

CONSTANTS
    Mode,           \* Mode[case]: "automation", "external" or "not_run"
    Needs,          \* Needs[case]: the external inputs of an external case
    Severe,         \* cases of priority P0 or P1
    AllInputs, Provided,   \* the external inputs; those registered at a commit
    Lock,           \* Lock[commit]: the contents of package-lock.json
    SignedBuilds,   \* builds whose signature and timestamp are valid
    FormalToolchain,\* the toolchain is that of ENV_LOCK.json
    Raws,           \* what vitest may report: the cases passed, the success
    Externals,      \* external evidence: the status of some external cases
    Audits,         \* the defect audits there may be, or Nothing
    Nothing,        \* no value
    MaxCommits, MaxBuilds, MaxRuns,  \* bounds
    MaxStamps,      \* bound: executions of the three scripts
    MaxChanges,     \* bound: what the user does to the repository
    MaxFailures     \* bound: crashes and errors of the file system

Cases == DOMAIN Mode

ASSUME ReleaseAssumption ==
    /\ {MaxCommits, MaxBuilds, MaxRuns, MaxStamps, MaxChanges, MaxFailures} \subseteq Nat
    /\ SignedBuilds \subseteq 1..MaxBuilds /\ FormalToolchain \in BOOLEAN
    /\ \A c \in Cases : Mode[c] \in {"automation", "external", "not_run"}
    /\ {"EXT02", "EXT04", "EXT08", "EXT10"} \subseteq AllInputs
    /\ Audits \subseteq [commit : Nat, open : BOOLEAN] \cup {Nothing}
    /\ \A external \in Externals : \A c \in DOMAIN external : external[c] \in {"PASS", "FAIL"}

VARIABLES
    head, edited,   \* git: the commit, and whether sources differ from it
    uncommitted,    \* reports of acceptance runs that are not in the commit
    touched,        \* whether another generated file differs from the commit
    audit,          \* defect-audit.json: the commit it assessed, open P0/P1 defects
    bytes,          \* the candidate installer: the build that wrote it
    provenance,     \* candidate-build-provenance.json
    reports,        \* reports/acceptance-runs: what is there for each run
    target,         \* reports/release: the file under each name
    backup,         \* reports/release/*.rollback-*
    journal,        \* reports/release/.g11-*-transaction.json
    proc,           \* memory of the script that runs
    stamp,          \* executions so far
    builds, builtFrom, latest, mixed, quiet, dropped,   \* history, for the properties
    changes, failures

repository == <<head, edited, audit>>
candidate == <<bytes, provenance, builds, builtFrom>>
tree == <<uncommitted, touched>>
files == <<target, backup, journal>>
counters == <<changes, failures>>
history == <<latest, mixed, quiet, dropped>>
vars == <<repository, tree, candidate, reports, files, proc, stamp, history, counters>>

-----------------------------------------------------------------------------
Files == {"candidate", "input", "evidence", "texts", "supply", "sums"}
Scripts == {"acceptance", "evidence", "sbom"}

(* The files that each script publishes, in order. *)
Entries == [acceptance |-> <<"candidate", "input">>,
            evidence |-> <<"evidence", "texts", "input">>,
            sbom |-> <<"supply", "evidence", "texts", "input", "sums">>]
Group(s) == ToSet(Entries[s])
Journals == [phase : {"PREPARED", "COMMITTED"}, had : SUBSET Files]

ASSUME NothingAssumption ==
    Nothing \notin Nat \cup Journals \cup [Files -> Nat] \cup [commit : Nat, bytes : Nat]

Runs == 1..MaxRuns
NoReports == [results |-> "none"]
Orphan == [results |-> "partial"]   \* reports of an execution that has no run file
IsRun(id) == id \in Runs /\ reports[id] \notin {NoReports, Orphan}
Idle == [script |-> "none", at |-> "idle"]
Absent == [stamp |-> 0]             \* no file has this stamp
NoFiles == [f \in Files |-> Absent]

Init ==
    /\ head = 1 /\ edited = FALSE /\ uncommitted = {} /\ touched = FALSE
    /\ audit \in Audits
    /\ bytes = Nothing /\ provenance = Nothing /\ builds = 0
    /\ builtFrom = [b \in 1..MaxBuilds |-> Nothing]
    /\ reports = [id \in Runs |-> NoReports]
    /\ target = NoFiles /\ backup = [s \in Scripts |-> NoFiles]
    /\ journal = [s \in Scripts |-> Nothing]
    /\ proc = Idle /\ stamp = 0 /\ latest = Nothing /\ mixed = FALSE /\ quiet = "no"
    /\ changes = 0 /\ failures = 0 /\ dropped = FALSE

-----------------------------------------------------------------------------
(* git status: of everything, and of what the release evidence depends on.  *)

Dirty == edited \/ touched \/ uncommitted # {}

(* Mutant: the journal of release:sbom is not among the files that may be new. *)
CleanWithoutJournals(id) ==
    ~edited /\ uncommitted \subseteq {id} /\ journal = [s \in Scripts |-> Nothing]

CleanBut(id) ==
    ~edited /\ uncommitted \subseteq {id} /\ journal.acceptance = Nothing
            /\ journal.evidence = Nothing

(* Mutant: the commit of the run is not compared with HEAD. *)
SourceCleanAnywhere(id) == CleanBut(id)

SourceClean(id) == head = reports[id].commit /\ CleanBut(id)

(* The user acts when no script moves files: the steps that do read nothing  *)
(* of the repository, so to act between them is to act before or after.     *)
Disturb == quiet' = "no"
Change ==
    /\ proc.at \notin {"aside", "publish", "recover", "undo", "finish"}
    /\ changes < MaxChanges /\ changes' = changes + 1 /\ Disturb
    /\ UNCHANGED failures

Edit ==
    /\ edited' = ~edited /\ Change
    /\ UNCHANGED <<head, audit, tree, candidate, reports, files, proc, stamp, latest, mixed,
                   dropped>>

Commit ==
    /\ head < MaxCommits /\ head' = head + 1 /\ Change
    /\ edited' = FALSE /\ uncommitted' = {} /\ touched' = FALSE
    /\ UNCHANGED <<audit, candidate, reports, files, proc, stamp, latest, mixed, dropped>>

Withdraw ==
    /\ bytes # Nothing /\ bytes' = Nothing /\ Change
    /\ UNCHANGED <<repository, tree, provenance, builds, builtFrom, reports, files, proc,
                   stamp, latest, mixed, dropped>>

-----------------------------------------------------------------------------
(* build-win-candidate.mjs.                                                 *)

StartBuild ==
    /\ proc = Idle /\ builds < MaxBuilds /\ ~Dirty
    /\ proc' = [script |-> "build", at |-> "compile", commit |-> head]
    /\ provenance' = Nothing /\ Disturb
    /\ UNCHANGED <<repository, tree, bytes, builds, builtFrom, reports, files, stamp, latest,
                   mixed, counters, dropped>>

(* A build that fails leaves the old installer, a new one, or none. *)
Compile ==
    /\ proc.at = "compile" /\ builds' = builds + 1
    /\ builtFrom' = [builtFrom EXCEPT ![builds'] =
         IF head = proc.commit /\ ~edited THEN head ELSE Nothing]
    /\ \/ bytes' = builds' /\ proc' = [proc EXCEPT !.at = "bless"]
       \/ bytes' \in {bytes, builds', Nothing} /\ proc' = Idle
    /\ UNCHANGED <<repository, tree, provenance, reports, files, stamp, history, counters>>

Bless ==
    /\ proc.at = "bless" /\ proc' = Idle
    /\ provenance' = IF Dirty \/ bytes = Nothing THEN Nothing
                     ELSE [commit |-> proc.commit, bytes |-> bytes]
    /\ UNCHANGED <<repository, tree, bytes, builds, builtFrom, reports, files, stamp,
                   history, counters>>

-----------------------------------------------------------------------------
(* The run: an external case passes only with evidence of the installer.    *)

External == {c \in Cases : Mode[c] = "external"}

(* validateExternalEvidenceInput: external evidence for an installer. *)
Admissible(external, commit, tested) ==
    /\ DOMAIN external \subseteq External
    /\ UNION {Needs[c] : c \in DOMAIN external} \subseteq Provided[commit]
    /\ tested = (IF external = <<>> THEN Nothing ELSE bytes)
    /\ external # <<>> => bytes # Nothing

Results(raw, external) ==
    [c \in Cases |->
        IF c \in DOMAIN external THEN external[c]
        ELSE IF c \in External THEN "BLOCKED"
        ELSE IF Mode[c] = "not_run" THEN "NOT_RUN"
        ELSE IF raw.success /\ c \in raw.passed THEN "PASS" ELSE "FAIL"]

(* validateAcceptanceRun: the run follows from the reports it quotes, and    *)
(* the installer is the one that the external evidence names.               *)
RunHolds(run) ==
    /\ run.results = Results(run.raw, run.external)
    /\ run.external # <<>> => run.tested = bytes

-----------------------------------------------------------------------------
(* What the files say.  "disk" holds the files that are read.               *)

AuditFits(commit) == audit = Nothing \/ audit.commit = commit

(* loadReleaseAggregationInputs. *)
Loadable(disk) ==
    /\ disk.input # Absent /\ disk.candidate # Absent
    /\ disk.candidate.bytes = bytes
    /\ IsRun(disk.input.run)
    /\ LET run == reports[disk.input.run] IN
         /\ RunHolds(run) /\ AuditFits(run.commit)
         /\ disk.input.commit = run.commit /\ disk.candidate.commit = run.commit

Signature(b) == IF b \in SignedBuilds THEN "valid" ELSE IF b = Nothing THEN "none" ELSE "unsigned"

(* SHA256SUMS.txt: one line for each of these files. *)
Sums(disk, run) ==
    [candidate |-> disk.candidate, evidence |-> disk.evidence, texts |-> disk.texts,
     supply |-> disk.supply, audit |-> audit, run |-> run, result |-> reports[run],
     bytes |-> bytes, lock |-> Lock[head]]
SumsHold(disk, run) == IsRun(run) /\ disk.sums # Absent /\ disk.sums.of = Sums(disk, run)

(* The supply chain's files, read again: the components of the lock file,    *)
(* the record of the repository, and the signature of the installer.        *)
ComponentsHold(supply) == supply.lock = Lock[head]
EnvironmentHolds(supply, run) ==
    supply.commit = reports[run].commit /\ supply.clean = SourceClean(run)
SigningHolds(supply, run) ==
    supply.commit = reports[run].commit /\ supply.bytes = bytes
                                        /\ supply.signature = Signature(bytes)

SupplyStates(disk) ==
    LET run == disk.input.run
        supply == disk.supply
        Check(there, holds) == IF ~there THEN "none" ELSE IF holds THEN "pass" ELSE "fail"
    IN [sbom |-> Check(supply # Absent, ComponentsHold(supply) /\ EnvironmentHolds(supply, run)),
        sums |-> Check(disk.sums # Absent, SumsHold(disk, run)),
        signature |-> IF supply = Absent THEN "none"
                      ELSE IF SigningHolds(supply, run) THEN supply.signature ELSE "invalid"]

Aggregate(disk, n, states) ==
    [stamp |-> n, run |-> disk.input.run, result |-> reports[disk.input.run],
     inventory |-> disk.candidate, audit |-> audit, inputs |-> Provided[head],
     clean |-> ~reports[disk.input.run].dirty /\ SourceClean(disk.input.run),
     states |-> states]

(* validateReleaseEvidence: it is what the files on disk aggregate to. *)
Derives(disk) ==
    /\ Loadable(disk) /\ disk.evidence # Absent
    /\ disk.evidence = Aggregate(disk, disk.evidence.stamp, SupplyStates(disk))

AllPass(e) == \A c \in Cases : e.result.results[c] = "PASS"
Failing(e) == {c \in Cases : e.result.results[c] = "FAIL"}

(* decideReleaseDisposition, with the gates of aggregateReleaseEvidence. *)
Disposition(e) ==
    IF \/ Failing(e) \cap Severe # {} \/ (e.audit # Nothing /\ e.audit.open)
       \/ e.inventory.bytes = Nothing \/ ~e.clean
       \/ "EXT02" \notin e.inputs \/ ~AllPass(e) \/ e.audit = Nothing
    THEN "blocked"
    ELSE IF e.states.signature # "valid" THEN "unsigned"
    ELSE IF /\ e.states.sbom = "pass" /\ e.states.sums = "pass" /\ FormalToolchain
            /\ {"EXT04", "EXT08", "EXT10"} \subseteq e.inputs
    THEN "ready" ELSE "blocked"

Unclean(e) == ~e.clean

(* deriveKnownGaps: what KNOWN_LIMITATIONS.md lists. *)
Gaps(e) ==
    LET open == [candidate |-> e.inventory.bytes = Nothing,
                 audit |-> e.audit = Nothing,
                 dirty |-> Unclean(e),
                 failures |-> Failing(e) # {},
                 defects |-> e.audit # Nothing /\ e.audit.open,
                 not_run |-> \E c \in Cases : e.result.results[c] = "NOT_RUN",
                 sbom |-> e.states.sbom # "pass",
                 sums |-> e.states.sums # "pass",
                 toolchain |-> ~FormalToolchain /\ e.states.sbom = "pass",
                 signature |-> e.inventory.bytes # Nothing /\ e.states.signature # "valid"]
    IN (AllInputs \ e.inputs) \cup {g \in DOMAIN open : open[g]}

(* release-verify.mjs: 1 invalid, 0 ready, 2 well-formed but not ready. *)
VerifyCode ==
    IF ~( /\ target.texts # Absent /\ Derives(target)
          /\ target.texts.of = target.evidence
          /\ SumsHold(target, target.evidence.run)
          /\ target.evidence.states.sums = "pass" )
    THEN 1
    ELSE IF Disposition(target.evidence) = "ready" THEN 0 ELSE 2

-----------------------------------------------------------------------------
(* The scripts up to their transaction.                                     *)

Goes(at) == proc' = [proc EXCEPT !.at = at]

(* A script first recovers the transaction of its own journal. *)
Start(s) ==
    /\ proc = Idle /\ stamp < MaxStamps /\ stamp' = stamp + 1 /\ Disturb
    /\ proc' = [script |-> s, at |-> IF journal[s] = Nothing THEN "read" ELSE "recover",
                rest |-> Entries[s], next |-> NoFiles, id |-> Nothing, commit |-> head,
                dirty |-> Dirty, failed |-> FALSE]
    /\ UNCHANGED <<repository, tree, candidate, reports, files, latest, mixed, counters,
                   dropped>>

(* The run takes the first number that has no file. *)
Free == {id \in Runs : reports[id] = NoReports}

BeginRun ==
    /\ proc.script = "acceptance" /\ proc.at = "read" /\ Free # {}
    /\ LET id == CHOOSE i \in Free : \A j \in Free : i <= j IN
         /\ proc' = [proc EXCEPT !.at = "test", !.id = id, !.commit = head, !.dirty = Dirty]
         /\ reports' = [reports EXCEPT ![id] = Orphan]
         /\ uncommitted' = uncommitted \cup {id}
    /\ UNCHANGED <<repository, touched, candidate, files, stamp, history, counters>>

(* loadCandidateBuildProvenance. *)
Blessed(commit) == bytes = Nothing \/ provenance = [commit |-> commit, bytes |-> bytes]

(* The tests end; the reports are written and the transaction is prepared.  *)
PublishRun ==
    /\ proc.at = "test" /\ Blessed(proc.commit)
    /\ \E raw \in Raws, external \in Externals, tested \in {Nothing, bytes} :
         /\ Admissible(external, proc.commit, tested)
         /\ reports' = [reports EXCEPT ![proc.id] =
              [raw |-> raw, external |-> external, results |-> Results(raw, external),
               commit |-> proc.commit, dirty |-> proc.dirty, tested |-> tested]]
    /\ proc' = [proc EXCEPT !.at = "prepare", !.next =
         [NoFiles EXCEPT
            !.candidate = [stamp |-> stamp, commit |-> proc.commit, bytes |-> bytes],
            !.input = [stamp |-> stamp, commit |-> proc.commit, run |-> proc.id]]]
    /\ UNCHANGED <<repository, tree, candidate, files, stamp, history, counters>>

(* release:evidence and release:sbom aggregate from what is published.      *)
WithEvidence(e) ==
    [NoFiles EXCEPT !.evidence = e, !.texts = [stamp |-> stamp, of |-> e],
                    !.input = [target.input EXCEPT !.stamp = stamp]]

Aggregation ==
    /\ proc.script = "evidence" /\ proc.at = "read" /\ Loadable(target)
    /\ proc' = [proc EXCEPT !.at = "prepare", !.next =
         WithEvidence(Aggregate(target, stamp, SupplyStates(target)))]
    /\ UNCHANGED <<repository, tree, candidate, reports, files, stamp, history, counters>>

(* The states it will have are written before the files that give them.     *)
SupplyChain ==
    /\ proc.script = "sbom" /\ proc.at = "read" /\ Loadable(target)
    /\ LET run == target.input.run
           states == [sbom |-> "pass", sums |-> "pass", signature |-> Signature(bytes)]
           supply == [stamp |-> stamp, commit |-> reports[run].commit, bytes |-> bytes,
                      clean |-> SourceClean(run), lock |-> Lock[head],
                      signature |-> Signature(bytes)]
           next == [WithEvidence(Aggregate(target, stamp, states)) EXCEPT
                      !.candidate = target.candidate, !.supply = supply]
       IN proc' = [proc EXCEPT !.at = "prepare", !.next =
            [next EXCEPT !.candidate = Absent, !.sums = [stamp |-> stamp, of |-> Sums(next, run)]]]
    /\ quiet' = "working"
    /\ UNCHANGED <<repository, tree, candidate, reports, files, stamp, latest, mixed,
                   counters, dropped>>

-----------------------------------------------------------------------------
(* writeFileSetAtomic.                                                      *)

Kept == UNCHANGED <<reports, uncommitted, dropped>>

(* The catch of the acceptance script removes what it has published.        *)
Fail ==
    /\ proc' = Idle
    /\ dropped' = (dropped \/ (proc.at = "finish" /\ proc.id # Nothing))
    /\ IF proc.id = Nothing THEN UNCHANGED <<reports, uncommitted>>
       ELSE /\ reports' = [reports EXCEPT ![proc.id] = NoReports]
            /\ uncommitted' = uncommitted \ {proc.id}

ReadFails ==
    /\ proc.at \in {"read", "test"} /\ Fail
    /\ UNCHANGED <<repository, touched, candidate, files, stamp, latest, mixed, quiet, counters>>

Prepare ==
    /\ proc.at = "prepare"
    /\ journal' = [journal EXCEPT ![proc.script] =
         [phase |-> "PREPARED", had |-> {f \in Group(proc.script) : target[f] # Absent}]]
    /\ proc' = [proc EXCEPT !.at = "aside", !.rest = Entries[proc.script]]
    /\ touched' = TRUE
    /\ mixed' = (mixed \/ \E s \in Scripts \ {proc.script} : journal[s] # Nothing)
    /\ UNCHANGED <<repository, uncommitted, candidate, reports, target, backup, stamp,
                   latest, quiet, counters, dropped>>

Step(at, then) ==
    /\ proc.at = at
    /\ proc' = IF Len(proc.rest) > 1 THEN [proc EXCEPT !.rest = Tail(@)]
               ELSE [proc EXCEPT !.at = then, !.rest = Entries[proc.script]]

MoveAside ==
    LET f == Head(proc.rest)
        had == f \in journal[proc.script].had
    IN /\ Step("aside", "publish")
       /\ target' = [target EXCEPT ![f] = IF had THEN Absent ELSE @]
       /\ backup' = [backup EXCEPT ![proc.script][f] = IF had THEN target[f] ELSE @]
       /\ UNCHANGED <<repository, tree, candidate, reports, journal, stamp, history, counters>>

Publish ==
    LET f == Head(proc.rest) IN
    /\ Step("publish", "commit")
    /\ target' = [target EXCEPT ![f] = proc.next[f]]
    /\ UNCHANGED <<repository, tree, candidate, reports, backup, journal, stamp, history,
                   counters>>

(* beforeCommit: only release:sbom looks at what it has published. *)
Accepted == proc.script = "sbom" =>
    /\ target.candidate # Absent /\ target.candidate.bytes = bytes
    /\ SumsHold(target, target.evidence.run) /\ Derives(target)

CommitSet ==
    /\ proc.at = "commit" /\ Accepted /\ Goes("finish")
    /\ journal' = [journal EXCEPT ![proc.script].phase = "COMMITTED"]
    /\ latest' = IF proc.script = "acceptance" THEN proc.id ELSE latest
    /\ UNCHANGED <<repository, tree, candidate, reports, target, backup, stamp, mixed, quiet,
                   counters, dropped>>

Undo == proc' = [proc EXCEPT !.at = "undo", !.failed = TRUE, !.rest = Entries[proc.script]]

Rejected ==
    /\ proc.at = "commit" /\ ~Accepted /\ Undo
    /\ UNCHANGED <<repository, tree, candidate, reports, files, stamp, history, counters>>

-----------------------------------------------------------------------------
(* recoverJsonSetAtomic, when a script starts, when its transaction fails    *)
(* and when it is committed.                                                *)

Recovering == proc.at \in {"recover", "undo", "finish"}
Own == journal[proc.script]

(* Mutant: a target that had not been moved aside yet is removed as well. *)
RestoredAlways(f) == backup[proc.script][f]

(* Mutant: a file that was not there before the transaction is kept. *)
RestoredKept(f) ==
    IF backup[proc.script][f] # Absent THEN backup[proc.script][f] ELSE target[f]

(* A file that was there and is not in the backup was not moved yet. *)
Restored(f) ==
    IF f \notin Own.had THEN Absent
    ELSE IF backup[proc.script][f] # Absent THEN backup[proc.script][f] ELSE target[f]

RecoverEntry ==
    LET f == Head(proc.rest) IN
    /\ Recovering /\ proc.rest # <<>>
    /\ target' = [target EXCEPT ![f] = IF Own.phase = "PREPARED" THEN Restored(f) ELSE @]
    /\ backup' = [backup EXCEPT ![proc.script][f] = Absent]
    /\ proc' = [proc EXCEPT !.rest = Tail(@)]
    /\ Own.phase = "COMMITTED" => target[f] # Absent
    /\ UNCHANGED <<repository, tree, candidate, reports, journal, stamp, history, counters>>

(* The target is removed before the backup takes its name. *)
RemoveTarget ==
    LET f == Head(proc.rest) IN
    /\ Recovering /\ proc.rest # <<>> /\ Own.phase = "PREPARED"
    /\ backup[proc.script][f] # Absent /\ target[f] # Absent
    /\ target' = [target EXCEPT ![f] = Absent]
    /\ UNCHANGED <<repository, tree, candidate, reports, backup, journal, proc, stamp,
                   history, counters>>

Recovered ==
    /\ Recovering /\ proc.rest = <<>>
    /\ journal' = [journal EXCEPT ![proc.script] = Nothing]
    /\ IF proc.at = "recover" THEN Goes("read") /\ Kept
       ELSE IF proc.failed THEN Fail
       ELSE proc' = Idle /\ Kept
    /\ quiet' = IF proc.at = "finish" /\ ~proc.failed /\ quiet = "working" THEN "yes" ELSE quiet
    /\ UNCHANGED <<repository, touched, candidate, target, backup, stamp, latest, mixed, counters>>

(* A committed file is missing: another transaction has taken it.           *)
CommittedMissing ==
    /\ Recovering /\ proc.rest # <<>> /\ Own.phase = "COMMITTED"
    /\ target[Head(proc.rest)] = Absent /\ Fail
    /\ UNCHANGED <<repository, touched, candidate, files, stamp, latest, mixed, quiet, counters>>

(* A call of the file system fails.  The error of a transaction starts one   *)
(* recovery, also when the set is committed; a second error ends the script. *)
FileError ==
    /\ failures < MaxFailures /\ failures' = failures + 1
    /\ \/ proc.at \in {"aside", "publish", "commit"} /\ Undo /\ Kept
       \/ /\ proc.at = "finish" /\ ~proc.failed
          /\ proc' = [proc EXCEPT !.failed = TRUE, !.rest = Entries[proc.script]]
          /\ Kept
       \/ /\ \/ proc.at \in {"read", "test", "prepare", "recover", "undo"}
             \/ proc.at = "finish" /\ proc.failed
          /\ Fail
    /\ UNCHANGED <<repository, touched, candidate, files, stamp, latest, mixed, quiet, changes>>

Crash ==
    /\ proc # Idle /\ proc' = Idle
    /\ failures < MaxFailures /\ failures' = failures + 1
    /\ UNCHANGED <<repository, tree, candidate, reports, files, stamp, history, changes>>

-----------------------------------------------------------------------------
User == Edit \/ Commit \/ Withdraw \/ StartBuild \/ \E s \in Scripts : Start(s)
Build == Compile \/ Bless
Collect == BeginRun \/ PublishRun \/ Aggregation \/ SupplyChain \/ ReadFails
Transaction == Prepare \/ MoveAside \/ Publish \/ CommitSet \/ Rejected
Recovery == RecoverEntry \/ RemoveTarget \/ Recovered \/ CommittedMissing

Next == User \/ Build \/ Collect \/ Transaction \/ Recovery \/ FileError \/ Crash
Spec == Init /\ [][Next]_vars

-----------------------------------------------------------------------------
(* The set that a transaction leaves when it is recovered now.              *)
View(f) ==
    LET undone == {s \in Scripts : journal[s] # Nothing /\ journal[s].phase = "PREPARED"
                                   /\ f \in Group(s)}
    IN IF undone = {} THEN target[f]
       ELSE LET s == CHOOSE s \in undone : TRUE
            IN IF f \notin journal[s].had THEN Absent
               ELSE IF backup[s][f] # Absent THEN backup[s][f] ELSE target[f]

(* The files are where the journals say: no backup without its journal, a    *)
(* committed set is there, and release-input names the last run that was     *)
(* committed, whose reports exist, unless an error after a commit has made    *)
(* the acceptance script delete them (run-g11-acceptance.mjs:287).          *)
ReleaseConsistent ==
    /\ proc.at \in {"idle", "compile", "bless", "read", "test", "prepare", "aside",
                    "publish", "commit", "recover", "undo", "finish"}
    /\ \A s \in Scripts : journal[s] = Nothing => backup[s] = NoFiles
    /\ ~mixed => \A s \in Scripts : journal[s] # Nothing /\ journal[s].phase = "COMMITTED" =>
                    \A f \in Group(s) : target[f] # Absent
    /\ ~mixed /\ View("input") # Absent =>
         /\ View("input").run = latest
         /\ ~dropped => IsRun(latest)

(* What release:verify accepts is one release, whatever crashed and whatever *)
(* the user changed in between: the evidence, its texts, the supply chain    *)
(* and the sums are of one execution, quote the run as it is, and concern    *)
(* the installer that is there, built from the commit of the run if the      *)
(* tree was left alone during its build; ready only if every case passed     *)
(* with that installer, on a tree that was clean and at that commit, and     *)
(* nothing is listed as a gap but an input no gate asks for.                *)
VerifiedIsWhole ==
    LET e == target.evidence
        run == reports[e.run]
    IN VerifyCode # 1 =>
         /\ \A f \in {"texts", "supply", "sums"} : target[f].stamp = e.stamp
         /\ e.result = run /\ e.inventory.bytes = bytes /\ e.inventory.commit = run.commit
         /\ bytes # Nothing => builtFrom[bytes] \in {Nothing, run.commit}
         /\ VerifyCode = 0 =>
              /\ \A c \in Cases : run.results[c] = "PASS"
              /\ External # {} => run.tested = bytes
              /\ ~run.dirty /\ head = run.commit /\ ~edited
              /\ bytes \in SignedBuilds /\ audit = [commit |-> run.commit, open |-> FALSE]
              /\ Gaps(e) \subseteq AllInputs \ {"EXT02", "EXT04", "EXT08", "EXT10"}

(* A release that is not ready says why: its limitations are not empty,      *)
(* unless external cases were left out although their inputs are there.     *)
NotReadySaysWhy ==
    VerifyCode = 2 => \/ Gaps(target.evidence) # {}
                      \/ \E c \in External : target.evidence.result.results[c] = "BLOCKED"

(* One release:sbom is enough: while nobody touches the repository it passes *)
(* its own check, and when it has ended release:verify accepts the files,    *)
(* although the files it describes were changing as it wrote them            *)
(* (HANDOFF.md:35).                                                         *)
SingleRoundConverges ==
    /\ quiet = "working" /\ proc.at = "commit" => Accepted
    /\ quiet = "yes" => VerifyCode # 1

(* A transaction over the set switches all its files or none.               *)
Abstract == INSTANCE PublishedSet WITH
    Groups <- {Group(s) : s \in Scripts}, Void <- Nothing,
    set <- IF mixed THEN Nothing
           ELSE [f \in Files |-> View(f).stamp]
SetsSwitchAtOnce == Abstract!PublishedSpec

(* The verdict of release:verify is true, and a refusal is explained.         *)
VerdictIsTrue == VerifiedIsWhole /\ NotReadySaysWhy
=============================================================================
