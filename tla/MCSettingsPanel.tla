---------------------------- MODULE MCSettingsPanel ---------------------------
(* SettingsPanel for TLC: two requests at a server whose settings.yaml was   *)
(* already there, so that only the changes of the users write it.            *)
EXTENDS SettingsPanel

MCInstalled == {Example}
=============================================================================
