---------------------------- MODULE MCMaintenance ----------------------------
(* Two requests of the page and the automatic backups of two weeks.           *)
EXTENDS Maintenance
=============================================================================
