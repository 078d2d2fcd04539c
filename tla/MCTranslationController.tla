---------------------- MODULE MCTranslationController ----------------------
(* The instance of TranslationController, under the card window and its    *)
(* page, that TLC checks: two selections and two requests.  For any number *)
(* of them the controller's invariants are proved in                       *)
(* TranslationControllerProofs.                                            *)
EXTENDS CardWindow, TLC

=============================================================================
