----------------------------- MODULE MCReleaseSet -----------------------------
(* Instance of ReleaseSet for TLC: an automated case and one that needs EXT02. *)
EXTENDS ReleaseSet

MCMode == [auto |-> "automation", windows |-> "external"]
MCNeeds == [windows |-> {"EXT02"}]
MCInputs == {"EXT02", "EXT04", "EXT08", "EXT10"}
MCProvided == <<MCInputs, MCInputs>>
MCLock == <<"locked", "locked">>
MCRaws == {[passed |-> {"auto"}, success |-> TRUE]}
MCExternals == {<<>>, [windows |-> "PASS"], [windows |-> "FAIL"]}
MCAudits == {[commit |-> 1, open |-> FALSE]}
=============================================================================
