--------------------------- MODULE MCSettingsPage ---------------------------
(* Two calls: a test, and the one that replaces it; a start with everything *)
(* on.                                                                      *)
EXTENDS SettingsPage, TLC

EverythingOn ==
  {[selection |-> TRUE, translation |-> TRUE, consent |-> TRUE, credentials |-> "configured"]}

=============================================================================
