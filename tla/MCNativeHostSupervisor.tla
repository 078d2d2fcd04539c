------------------------- MODULE MCNativeHostSupervisor -------------------------
(* Two children are enough: the one that is current and the one that is     *)
(* being forgotten; each is reused, so runs with any number of restarts are *)
(* among the behaviours.                                                    *)
EXTENDS NativeHostSupervisor
=============================================================================
