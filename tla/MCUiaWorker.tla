------------------------------ MODULE MCUiaWorker ------------------------------
(* One request, and a stop of the worker.                                   *)
EXTENDS UiaWorker
=============================================================================
