---------------------------- MODULE MCHostThreads ----------------------------
(* What the threads of the host share: the ring, between hook and pipeline, *)
(* and the slot for one request, between pipeline and worker.  The two have *)
(* no variable in common, and a behaviour is of one of them: the other      *)
(* stays as it was initially.                                               *)
(*                                                                          *)
(* Three slots to fill: full, empty and wrapped around are all reached.     *)
(* Three requests: one that hangs or times out, and two that come after it. *)
EXTENDS BoundedSpscQueue, UiaWorker

ThreadsInit == RingInit /\ WorkerInit

ThreadsNext ==
  \/ WorkerInit /\ RingNext /\ UNCHANGED workerVars
  \/ RingInit /\ WorkerNext /\ UNCHANGED ringVars

ThreadsSpec ==
  ThreadsInit /\ [][ThreadsNext]_<<ringVars, workerVars>> /\ WorkerFairness

==============================================================================
