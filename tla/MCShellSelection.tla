-------------------------- MODULE MCShellSelection --------------------------
(* ShellSelection for TLC: the bounds are in MCShellSelection.cfg.         *)
EXTENDS ShellSelection
=============================================================================
