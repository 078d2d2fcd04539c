------------------------- MODULE MCHostConversation -------------------------
(* Two requests after hello, and three numbered events.                     *)
EXTENDS HostConversation

=============================================================================
