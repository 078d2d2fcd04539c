--------------------------- MODULE MCShellCredentials ---------------------------
(* Four calls of the store over one credential and a row that may already   *)
(* hold it; settings as an earlier run may have left them.                   *)
EXTENDS ShellCredentials, TLC

Symmetry == Permutations(Ops)

=================================================================================
