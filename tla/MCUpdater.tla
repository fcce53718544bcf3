----------------------------- MODULE MCUpdater ------------------------------
(* Instances of Updater for TLC: the newer version is not the longer one. *)
EXTENDS Updater
OldVersion == <<1, 9, 5>>
NewVersion == <<1, 10>>
=============================================================================
