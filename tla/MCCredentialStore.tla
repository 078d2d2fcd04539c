--------------------------- MODULE MCCredentialStore ---------------------------
(* Three calls, each a save, a delete, a load or a status, and a row that   *)
(* may already hold a credential.  What a save writes is told apart by the  *)
(* call that wrote it.                                                      *)
EXTENDS CredentialStore, TLC

=============================================================================
