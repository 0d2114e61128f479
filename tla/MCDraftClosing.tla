---------------------------- MODULE MCDraftClosing ----------------------------
(* An empty draft and another text, two requests to close, one save of        *)
(* another client and one fault.                                             *)
EXTENDS DraftClosing
CONSTANTS a, blank, nothing
MCTexts == {a, blank}
=============================================================================
