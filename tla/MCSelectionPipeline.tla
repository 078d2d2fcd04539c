------------------------- MODULE MCSelectionPipeline -------------------------
(* Two presses and a queue of two events: a gesture in progress, one that   *)
(* overtakes it, and events that find the queue full.                        *)
EXTENDS SelectionPipeline

==============================================================================
