----------------------------- MODULE DraftClosing -----------------------------
(***************************************************************************)
(* The draft and the closing of the window: DraftController in the page      *)
(* (renderer/draftController.ts), the store's commitDraftSave behind the     *)
(* handler ui.saveDraft, and CloseController in the main process             *)
(* (main/lifecycle.ts), which asks the page to save before it lets the       *)
(* window close.                                                            *)
(*                                                                         *)
(* Messages between the page and the main process arrive in order.  The      *)
(* store may refuse a save (the transaction is rolled back), an answer may    *)
(* be lost after the commit, and another client may save the draft.         *)
(***************************************************************************)
EXTENDS Naturals, Sequences

CONSTANTS
    Texts, Empty,   \* what the draft may say; Empty is in Texts
    Nothing,        \* no key, no request, no caller
    MaxTyped, MaxSaves, MaxLoads, MaxCloses, MaxOthers, MaxFaults   \* bounds

(* A fingerprint, and what a key was used for. *)
Fingerprints == Texts \X Nat
LedgerRecords ==
    [of : Fingerprints, status : {"applied"}, revision : Nat]
        \cup [of : Fingerprints, status : {"conflict"}]
SaveRequests == [op : {"save"}, content : Texts, expected : Nat, key : Nat]

ASSUME DraftAssumption ==
    /\ Empty \in Texts /\ Nothing \notin Texts \cup Nat \cup LedgerRecords \cup SaveRequests
    /\ {MaxTyped, MaxSaves, MaxLoads, MaxCloses, MaxOthers, MaxFaults} \subseteq Nat

VARIABLES
    page,      \* the fields of DraftController
    runs,      \* calls of save() that wait in "drain" or run: Nothing or a close request
    at,        \* where the first of them is: "start", "save" or "reload"
    sent,      \* the save that it waits for
    toMain, toPage,   \* messages under way
    store,     \* the draft row
    ledger,    \* the idempotency table: what each key was used for
    main,      \* the fields of CloseController, and the dialogs that are open
    closed,    \* the window: "no"; or closed after the user was "asked", or without
               \* asking, with a text that is "saved" or "dropped"
    last,      \* history: the text of the row that this page wrote or took last
    seen,      \* history: the revisions of the row that the page was given
    lost,      \* history: the answer of a committed save was lost
    used       \* counters for the bounds

draftVars == <<page, runs, at, sent, toMain, toPage, store, ledger, main, closed, last,
               seen, lost, used>>

controller == <<page, runs, at, sent>>
channel == <<toMain, toPage>>
process == <<main, closed>>
history == <<last, seen, lost>>

Keys == DOMAIN ledger

DraftInit ==
    /\ page = [content |-> Empty, revision |-> 0, dirty |-> FALSE, conflict |-> FALSE,
               blocked |-> FALSE, remote |-> Nothing, key |-> Nothing]
    /\ runs = <<>> /\ at = "start" /\ sent = Nothing
    /\ toMain = <<>> /\ toPage = <<>>
    /\ \E t \in Texts : store = [content |-> t, revision |-> 0, by |-> "other"]
    /\ ledger = <<>>
    /\ main = [current |-> Nothing, armed |-> FALSE, dialogs |-> 0]
    /\ closed = "no" /\ last = Empty /\ seen = {} /\ lost = FALSE
    /\ used = [typed |-> 0, saves |-> 0, loads |-> 0, closes |-> 0, others |-> 0, faults |-> 0]

Count(what, bound) == used[what] < bound /\ used' = [used EXCEPT ![what] = @ + 1]

-----------------------------------------------------------------------------
(* DraftController.  A key is known by its number in the ledger.            *)

NewKey == Len(ledger) + 1
TakeKey == ledger' = Append(ledger, Nothing)

(* The dialogs are modal: nobody types while one is open. *)
SetContent(text) ==
    /\ closed = "no" /\ main.dialogs = 0 /\ text # page.content /\ Count("typed", MaxTyped)
    /\ page' = [page EXCEPT !.content = text, !.dirty = TRUE,
                            !.key = IF page.conflict THEN @ ELSE NewKey]
    /\ IF page.conflict THEN UNCHANGED ledger ELSE TakeKey
    /\ UNCHANGED <<runs, at, sent, channel, store, process, history>>

RequestLoad ==
    /\ closed = "no" /\ Count("loads", MaxLoads)
    /\ toMain' = Append(toMain, [op |-> "load"])
    /\ UNCHANGED <<controller, toPage, store, ledger, process, history>>

(* The page loses focus or is hidden. *)
Save ==
    /\ closed = "no" /\ Count("saves", MaxSaves) /\ runs' = Append(runs, Nothing)
    /\ UNCHANGED <<page, at, sent, channel, store, ledger, process, history>>

ResolveKeepLocal ==
    /\ closed = "no" /\ main.dialogs = 0 /\ page.conflict
    /\ page' = [page EXCEPT !.conflict = FALSE, !.blocked = FALSE, !.dirty = TRUE, !.key = NewKey]
    /\ TakeKey /\ runs' = Append(runs, Nothing)
    /\ UNCHANGED <<at, sent, channel, store, process, history, used>>

ResolveUseRemote ==
    /\ closed = "no" /\ main.dialogs = 0 /\ page.conflict
    /\ page' = [page EXCEPT !.content = IF page.remote = Nothing THEN @ ELSE page.remote,
                            !.dirty = FALSE, !.blocked = FALSE, !.conflict = FALSE,
                            !.key = Nothing]
    /\ last' = page'.content
    /\ UNCHANGED <<runs, at, sent, channel, store, ledger, process, seen, lost, used>>

(* The first call ends; a close request is told whether all is saved (kept is   *)
(* history: whether the row had this text).                                 *)
EndRun(saved) ==
    /\ runs' = Tail(runs) /\ at' = "start" /\ sent' = Nothing
    /\ toMain' = IF Head(runs) = Nothing THEN toMain
                 ELSE Append(toMain, [op |-> "done", id |-> Head(runs), saved |-> saved,
                                      kept |-> page.content = last])

(* The loop's head: it sends what is dirty, with the key of this content. *)
Turn ==
    /\ runs # <<>> /\ at = "start" /\ closed = "no"
    /\ IF page.dirty /\ ~page.blocked
       THEN LET key == IF page.key = Nothing THEN NewKey ELSE page.key
                request == [op |-> "save", content |-> page.content,
                            expected |-> page.revision, key |-> key]
            IN /\ page' = [page EXCEPT !.key = key]
               /\ IF page.key = Nothing THEN TakeKey ELSE UNCHANGED ledger
               /\ at' = "save" /\ sent' = request /\ toMain' = Append(toMain, request)
               /\ UNCHANGED runs
       ELSE EndRun(~page.dirty) /\ UNCHANGED <<page, ledger>>
    /\ UNCHANGED <<toPage, store, process, history, used>>

PageAnswer == Head(toPage)
Arrives(op) == toPage # <<>> /\ PageAnswer.op = op /\ closed = "no" /\ toPage' = Tail(toPage)

(* Mutant: the answer is taken for the text that is in the page now. *)
SavedTextAlways(content) == TRUE

SavedText(content) == page.content = content

(* Mutant: the page keeps its old base. *)
OldBase(answer) == page.revision

NewBase(answer) == answer.revision

(* An answer to the save: the next turn sends what was typed meanwhile. *)
SaveApplied ==
    /\ Arrives("saved") /\ at' = "start" /\ sent' = Nothing
    /\ LET done == SavedText(sent.content) IN
         /\ page' = [page EXCEPT !.revision = NewBase(PageAnswer), !.conflict = FALSE,
                                 !.dirty = ~done, !.key = IF done THEN Nothing ELSE NewKey]
         /\ IF done THEN UNCHANGED ledger ELSE TakeKey
    /\ UNCHANGED <<runs, toMain, store, process, history, used>>

SaveConflicts ==
    /\ Arrives("conflict") /\ at' = "reload" /\ toMain' = Append(toMain, [op |-> "reload"])
    /\ UNCHANGED <<page, runs, sent, store, ledger, process, history, used>>

SaveFails ==
    /\ Arrives("error") /\ EndRun(FALSE)
    /\ UNCHANGED <<page, store, ledger, process, history, used>>

Reloaded ==
    /\ Arrives("reloaded")
    /\ page' = [page EXCEPT !.revision = PageAnswer.revision, !.remote = PageAnswer.content,
                            !.conflict = TRUE, !.blocked = TRUE]
    /\ EndRun(FALSE) /\ seen' = seen \cup {PageAnswer.revision}
    /\ UNCHANGED <<store, ledger, process, last, lost, used>>

(* The second call throws: the close request is never answered. *)
ReloadFails ==
    /\ Arrives("reloaded") /\ Count("faults", MaxFaults)
    /\ runs' = Tail(runs) /\ at' = "start" /\ sent' = Nothing
    /\ UNCHANGED <<page, toMain, store, ledger, process, history>>

(* load(): text that was typed before is kept, and takes the revision of a   *)
(* row that was not shown.                                                  *)
Loaded ==
    /\ Arrives("loaded")
    /\ LET empty == ~page.dirty /\ page.content = Empty IN
         /\ page' = [page EXCEPT !.revision = PageAnswer.revision,
                                 !.content = IF empty THEN PageAnswer.content ELSE @]
         /\ last' = IF empty THEN PageAnswer.content ELSE last
    /\ seen' = seen \cup {PageAnswer.revision}
    /\ UNCHANGED <<runs, at, sent, toMain, store, ledger, process, lost, used>>

(* onBeforeClose. *)
Flush ==
    /\ Arrives("flush") /\ runs' = Append(runs, PageAnswer.id)
    /\ UNCHANGED <<page, at, sent, toMain, store, ledger, process, history, used>>

-----------------------------------------------------------------------------
(* The handlers of the main process.                                        *)

Request == Head(toMain)
Handles(ops) == toMain # <<>> /\ Request.op \in ops /\ toMain' = Tail(toMain)
Say(answer) == toPage' = Append(toPage, answer)

LoadDraft ==
    /\ Handles({"load", "reload"})
    /\ Say([op |-> IF Request.op = "load" THEN "loaded" ELSE "reloaded",
            content |-> store.content, revision |-> store.revision])
    /\ UNCHANGED <<controller, store, ledger, process, history, used>>

Fingerprint(r) == <<r.content, r.expected>>

(* Mutant: the revision is not compared. *)
IsCurrentAlways(r) == TRUE

IsCurrent(r) == store.revision = r.expected

(* commitDraftSave: one transaction. *)
CommitSave(r) ==
    /\ ledger[r.key] = Nothing /\ IsCurrent(r)
    /\ store' = [content |-> r.content, revision |-> store.revision + 1, by |-> "page"]
    /\ ledger' = [ledger EXCEPT ![r.key] =
         [of |-> Fingerprint(r), status |-> "applied", revision |-> store.revision + 1]]
    /\ last' = r.content /\ UNCHANGED seen

(* What the handler answers. *)
Outcome(r) ==
    LET entry == ledger[r.key] IN
    IF entry = Nothing
    THEN IF IsCurrent(r) THEN [op |-> "saved", revision |-> store.revision + 1]
         ELSE [op |-> "conflict"]
    ELSE IF entry.of # Fingerprint(r) THEN [op |-> "error"]
    ELSE IF entry.status = "applied" THEN [op |-> "saved", revision |-> entry.revision]
    ELSE [op |-> "conflict"]

NoCommit(r) ==
    /\ ledger[r.key] # Nothing \/ ~IsCurrent(r)
    /\ ledger' = IF ledger[r.key] # Nothing THEN ledger
                 ELSE [ledger EXCEPT ![r.key] = [of |-> Fingerprint(r), status |-> "conflict"]]
    /\ UNCHANGED <<store, last, seen>>

SaveDraft ==
    /\ Handles({"save"}) /\ (CommitSave(Request) \/ NoCommit(Request))
    /\ \/ Say(Outcome(Request)) /\ UNCHANGED <<lost, used>>
       \/ Say([op |-> "error"]) /\ lost' = (lost \/ store' # store) /\ Count("faults", MaxFaults)
    /\ UNCHANGED <<controller, process>>

SaveRefused ==
    /\ Handles({"save"}) /\ Say([op |-> "error"]) /\ Count("faults", MaxFaults)
    /\ UNCHANGED <<controller, store, ledger, process, history>>

(* Another client of the store, as in draftController.test.ts:96. *)
OtherSaves ==
    /\ closed = "no" /\ Count("others", MaxOthers)
    /\ \E t \in Texts :
         store' = [content |-> t, revision |-> store.revision + 1, by |-> "other"]
    /\ UNCHANGED <<controller, channel, ledger, process, history>>

-----------------------------------------------------------------------------
(* CloseController.                                                         *)

(* Mutant: the page is trusted to answer. *)
Unwatched == main.armed

Watched == TRUE

(* A second request takes the place of the first; the watchdog starts again. *)
OnClose ==
    /\ closed = "no" /\ Count("closes", MaxCloses)
    /\ main' = [main EXCEPT !.current = used.closes + 1, !.armed = Watched]
    /\ Say([op |-> "flush", id |-> used.closes + 1])
    /\ UNCHANGED <<controller, toMain, store, ledger, closed, history>>

Finish(how) == closed' = how /\ main' = [main EXCEPT !.current = Nothing]

OnFlushResult ==
    /\ Handles({"done"}) /\ closed = "no"
    /\ IF Request.id # main.current THEN UNCHANGED process
       ELSE IF Request.saved
       THEN Finish(IF Request.kept THEN "saved" ELSE "dropped")
       ELSE main' = [main EXCEPT !.armed = FALSE, !.dialogs = @ + 1] /\ UNCHANGED closed
    /\ UNCHANGED <<controller, toPage, store, ledger, history, used>>

OnTimeout ==
    /\ closed = "no" /\ main.armed
    /\ main' = [main EXCEPT !.armed = FALSE, !.dialogs = @ + 1]
    /\ UNCHANGED <<controller, channel, store, ledger, closed, history, used>>

(* The user answers a dialog: to leave, or to go on. *)
ConfirmForceQuit ==
    /\ closed = "no" /\ main.dialogs > 0
    /\ \/ Finish("asked")
       \/ main' = [main EXCEPT !.dialogs = @ - 1, !.current = Nothing] /\ UNCHANGED closed
    /\ UNCHANGED <<controller, channel, store, ledger, history, used>>

-----------------------------------------------------------------------------
DraftUser == \/ \E t \in Texts : SetContent(t)
        \/ RequestLoad \/ Save \/ ResolveKeepLocal \/ ResolveUseRemote \/ OnClose
Page == \/ Turn \/ SaveApplied \/ SaveConflicts \/ SaveFails
        \/ Reloaded \/ ReloadFails \/ Loaded \/ Flush
Main == LoadDraft \/ SaveDraft \/ SaveRefused \/ OnFlushResult \/ OnTimeout \/ ConfirmForceQuit
DraftNext == DraftUser \/ Page \/ Main \/ OtherSaves

DraftSpec == DraftInit /\ [][DraftNext]_draftVars

(* The timer fires and the user answers a dialog; nothing is assumed of the   *)
(* page, which may hang.                                                    *)
FairDraftSpec == DraftSpec /\ WF_draftVars(OnTimeout) /\ WF_draftVars(ConfirmForceQuit)

-----------------------------------------------------------------------------
Waits(m) == m.op \in {"save", "reload", "saved", "conflict", "error", "reloaded"}

Underway(channelOf) == {i \in DOMAIN channelOf : Waits(channelOf[i])}

MainMessages ==
    [op : {"load", "reload"}] \cup SaveRequests
        \cup [op : {"done"}, id : Nat, saved : BOOLEAN, kept : BOOLEAN]
PageMessages ==
    [op : {"loaded", "reloaded"}, content : Texts, revision : Nat]
        \cup [op : {"saved"}, revision : Nat] \cup [op : {"conflict", "error"}]
        \cup [op : {"flush"}, id : Nat]

DraftTypeOK ==
    /\ page \in [content : Texts, revision : Nat, dirty : BOOLEAN, conflict : BOOLEAN,
                 blocked : BOOLEAN, remote : Texts \cup {Nothing}, key : Keys \cup {Nothing}]
    /\ runs \in Seq(Nat \cup {Nothing}) /\ at \in {"start", "save", "reload"}
    /\ sent \in SaveRequests \cup {Nothing}
    /\ toMain \in Seq(MainMessages) /\ toPage \in Seq(PageMessages)
    /\ store \in [content : Texts, revision : Nat, by : {"page", "other"}]
    /\ ledger \in Seq(LedgerRecords \cup {Nothing})
    /\ main \in [current : Nat \cup {Nothing}, armed : BOOLEAN, dialogs : Nat]
    /\ closed \in {"no", "asked", "saved", "dropped"}
    /\ last \in Texts /\ seen \subseteq Nat /\ lost \in BOOLEAN
    /\ used \in [{"typed", "saves", "loads", "closes", "others", "faults"} -> Nat]

(* The fields of the controller fit together and with the messages under way: *)
(* one save is in flight at most, its run is the one that waits for it, and    *)
(* the page never conflicts with itself: where it stops and asks, another      *)
(* client has saved or the answer of a committed save was lost.               *)
DraftConsistent ==
    /\ DraftTypeOK
    /\ page.conflict => page.blocked /\ page.dirty /\ page.remote # Nothing
    /\ (at = "start") = (Underway(toMain) = {} /\ Underway(toPage) = {})
    /\ Underway(toMain) = {} \/ Underway(toPage) = {}
    /\ \A q \in {toMain, toPage} : \A i, j \in Underway(q) : i = j
    /\ page.conflict => used.others > 0 \/ lost

(* A window that closes without asking loses nothing: the text that the page   *)
(* had when it answered is the one that it wrote to the row, or took from it,  *)
(* last, whatever was typed, refused or answered late in between.              *)
CloseKeepsText == closed # "dropped"

(* The page replaces the text of another client only after it was given that  *)
(* very revision of the row, also when a third save came while the user was    *)
(* deciding on a conflict (draftController.ts:100).                           *)
NoBlindOverwrite ==
    [][store.by = "other" /\ store'.by = "page" /\ store.revision > 0
         => store.revision \in seen]_draftVars

(* A request to close the window closes it or ends with the user's word, even  *)
(* if the page never answers or fails between two calls.                      *)
EveryCloseIsAnswered == main.current # Nothing ~> main.current = Nothing \/ closed # "no"

=============================================================================
