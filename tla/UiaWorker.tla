------------------------------- MODULE UiaWorker -------------------------------
(***************************************************************************)
(* UiaWorker, the thread of the selection host that talks to third-party   *)
(* UI Automation providers, with its two peers: the pipeline thread, which *)
(* asks it for the selected text and gives up after a timeout, and the     *)
(* main thread, which stops it once the pipeline has been joined.          *)
(*                                                                         *)
(* A mutex protects request_ and outstanding_; stop_requested_ is an       *)
(* atomic written outside of it.  The worker holds the mutex from the      *)
(* moment its predicate was false to the moment it sleeps on condition_;   *)
(* every other critical section is one step.                               *)
(***************************************************************************)
EXTENDS Naturals, FiniteSets

CONSTANTS
  Requests,     \* requests the pipeline may make, each of them once
  NoRequest

ASSUME RequestAssumption == NoRequest \notin Requests

VARIABLES
  stopRequested,  \* stop_requested_
  request,        \* request_: accepted, not yet taken by the worker
  outstanding,    \* outstanding_
  worker,         \* where the worker thread is
  current,        \* the request the worker has taken
  promise,        \* for each request, what became of its promise
  pipeline,       \* the request the pipeline thread waits for, or Idle or Joined
  stopper         \* where the main thread is in Stop

workerVars == <<stopRequested, request, outstanding, worker, current, promise, pipeline, stopper>>

Idle == "idle"
Joined == "joined"

(* The worker holds a request exactly while it serves one.                 *)
WorkerTypeOK ==
  /\ stopRequested \in BOOLEAN
  /\ request \in Requests \cup {NoRequest}
  /\ outstanding \in BOOLEAN
  /\ worker \in {"looking", "nodding", "asleep", "serving", "hung", "answered", "exited"}
  /\ current \in IF worker \in {"serving", "hung", "answered"} THEN Requests ELSE {NoRequest}
  /\ promise \in [Requests -> {"none", "pending", "set", "refused", "turned away"}]
  /\ pipeline \in Requests \cup {Idle, Joined}
  /\ stopper \in {"running", "stored", "waiting", "joined", "terminated"}

(* Start returns once the worker has initialised UI Automation.            *)
WorkerInit ==
  /\ stopRequested = FALSE
  /\ request = NoRequest
  /\ outstanding = FALSE
  /\ worker = "looking"
  /\ current = NoRequest
  /\ promise = [r \in Requests |-> "none"]
  /\ pipeline = Idle
  /\ stopper = "running"

MutexFree == worker # "nodding"

(* Mutant: the notification is forgotten.                                  *)
NotWoken == worker

Woken == IF worker = "asleep" THEN "looking" ELSE worker

-----------------------------------------------------------------------------
(* The pipeline thread.                                                    *)

(* Mutant: a request is accepted while another one is outstanding.         *)
TryGetSelectionAlways(r) ==
  /\ pipeline = Idle
  /\ promise[r] = "none"
  /\ MutexFree
  /\ ~stopRequested
  /\ promise' = [promise EXCEPT ![r] = "pending"]
  /\ request' = r
  /\ outstanding' = TRUE
  /\ worker' = Woken
  /\ pipeline' = r
  /\ UNCHANGED <<stopRequested, current, stopper>>

TryGetSelection(r) ==
  /\ pipeline = Idle
  /\ promise[r] = "none"
  /\ MutexFree
  /\ IF stopRequested \/ outstanding
     THEN /\ promise' = [promise EXCEPT ![r] = "turned away"]
          /\ UNCHANGED <<request, outstanding, worker, pipeline>>
     ELSE /\ promise' = [promise EXCEPT ![r] = "pending"]
          /\ request' = r
          /\ outstanding' = TRUE
          /\ worker' = Woken
          /\ pipeline' = r
  /\ UNCHANGED <<stopRequested, current, stopper>>

(* The future is ready, or uia_timeout_ms have passed.                     *)
WaitEnds ==
  /\ pipeline \in Requests
  /\ pipeline' = Idle
  /\ UNCHANGED <<stopRequested, request, outstanding, worker, current, promise, stopper>>

StopListening ==
  /\ pipeline = Idle
  /\ pipeline' = Joined
  /\ UNCHANGED <<stopRequested, request, outstanding, worker, current, promise, stopper>>

-----------------------------------------------------------------------------
(* Stop, on the main thread.                                               *)

StoreStop ==
  /\ pipeline = Joined
  /\ stopper = "running"
  /\ stopRequested' = TRUE
  /\ stopper' = "stored"
  /\ UNCHANGED <<request, outstanding, worker, current, promise, pipeline>>

NotifyAll ==
  /\ stopper = "stored"
  /\ stopper' = "waiting"
  /\ worker' = Woken
  /\ UNCHANGED <<stopRequested, request, outstanding, current, promise, pipeline>>

JoinWorker ==
  /\ stopper = "waiting"
  /\ worker = "exited"
  /\ stopper' = "joined"
  /\ UNCHANGED <<stopRequested, request, outstanding, worker, current, promise, pipeline>>

(* The 3.5 seconds of WaitForSingleObject.  A worker that can take a step  *)
(* takes it well within them: provider calls are bounded by two seconds    *)
(* and the stop flag is read between calls.                                *)
TerminateProcess ==
  /\ stopper = "waiting"
  /\ worker \in {"asleep", "hung"}
  /\ stopper' = "terminated"
  /\ UNCHANGED <<stopRequested, request, outstanding, worker, current, promise, pipeline>>

-----------------------------------------------------------------------------
(* The worker thread.                                                      *)

(* With the mutex held: stop and refuse what was queued, or take the       *)
(* request, or find nothing to do.                                         *)
LookForStop ==
  /\ worker = "looking"
  /\ stopRequested
  /\ promise' = [r \in Requests |-> IF r = request THEN "refused" ELSE promise[r]]
  /\ request' = NoRequest
  /\ outstanding' = FALSE
  /\ worker' = "exited"
  /\ UNCHANGED <<stopRequested, current, pipeline, stopper>>

LookForRequest ==
  /\ worker = "looking"
  /\ ~stopRequested
  /\ request # NoRequest
  /\ current' = request
  /\ request' = NoRequest
  /\ worker' = "serving"
  /\ UNCHANGED <<stopRequested, outstanding, promise, pipeline, stopper>>

FindNothing ==
  /\ worker = "looking"
  /\ ~stopRequested
  /\ request = NoRequest
  /\ worker' = "nodding"
  /\ UNCHANGED <<stopRequested, request, outstanding, current, promise, pipeline, stopper>>

FallAsleep ==
  /\ worker = "nodding"
  /\ worker' = "asleep"
  /\ UNCHANGED <<stopRequested, request, outstanding, current, promise, pipeline, stopper>>

WakeSpuriously ==
  /\ worker = "asleep"
  /\ stopper # "terminated"
  /\ worker' = "looking"
  /\ UNCHANGED <<stopRequested, request, outstanding, current, promise, pipeline, stopper>>

(* A provider call that never returns.                                     *)
ProviderHangs ==
  /\ worker = "serving"
  /\ worker' = "hung"
  /\ UNCHANGED <<stopRequested, request, outstanding, current, promise, pipeline, stopper>>

SetValue ==
  /\ worker = "serving"
  /\ promise' = [promise EXCEPT ![current] = "set"]
  /\ worker' = "answered"
  /\ UNCHANGED <<stopRequested, request, outstanding, current, pipeline, stopper>>

ClearOutstanding ==
  /\ worker = "answered"
  /\ outstanding' = FALSE
  /\ current' = NoRequest
  /\ worker' = "looking"
  /\ UNCHANGED <<stopRequested, request, promise, pipeline, stopper>>

-----------------------------------------------------------------------------

Pipeline == (\E r \in Requests : TryGetSelection(r)) \/ WaitEnds \/ StopListening
Stop == StoreStop \/ NotifyAll \/ JoinWorker \/ TerminateProcess
Works == LookForStop \/ LookForRequest \/ FindNothing \/ FallAsleep \/ SetValue
           \/ ClearOutstanding

WorkerNext == Pipeline \/ Stop \/ Works \/ WakeSpuriously \/ ProviderHangs

(* Threads are scheduled, waits with a timeout end; nothing makes the main *)
(* thread stop, a sleeping worker wake by itself or a provider hang.       *)
WorkerFairness ==
  /\ WF_workerVars(Works)
  /\ WF_workerVars(WaitEnds)
  /\ WF_workerVars(NotifyAll \/ JoinWorker \/ TerminateProcess)

WorkerSpec == WorkerInit /\ [][WorkerNext]_workerVars /\ WorkerFairness

-----------------------------------------------------------------------------
(* Properties.                                                             *)

Pending == {r \in Requests : promise[r] = "pending"}

(* One promise is open at a time, and the worker or the queue holds it: an *)
(* accepted request never overwrites one whose caller gave up waiting, and *)
(* none is dropped with its promise unset.                                 *)
OpenPromiseIsHeld ==
  /\ Cardinality(Pending) <= 1
  /\ Pending = {request, IF worker \in {"serving", "hung"} THEN current ELSE NoRequest}
                 \ {NoRequest}

(* The slot is free exactly when nobody is served: a worker that is done   *)
(* with a request nobody waits for any more can be asked again.            *)
SlotIsFreed ==
  outstanding <=> request # NoRequest \/ worker \in {"serving", "hung", "answered"}

(* An accepted request is answered or refused, unless a provider hangs.    *)
(* No wake-up is lost between the worker going to sleep and a request.     *)
AcceptedIsSettled ==
  \A r \in Requests :
    promise[r] = "pending" ~> promise[r] \in {"set", "refused"} \/ worker = "hung"

(* Stopping ends, with the worker joined or the process terminated, even   *)
(* if a provider hangs.                                                    *)
WorkerStops == stopRequested ~> stopper \in {"joined", "terminated"}

(* Terminating the process is the fail-safe against a defective provider   *)
(* and happens for no other reason.                                        *)
TerminatesOnlyDefectiveProvider == stopper = "terminated" => worker = "hung"

(* Slot, queue and promises agree, whatever callers and worker give up.    *)
PromisesAreKept == WorkerTypeOK /\ OpenPromiseIsHeld /\ SlotIsFreed

(* Whoever waits is let go: the pipeline by an answer, the main thread by  *)
(* the end of the worker or of the process.                                *)
CallsEnd == AcceptedIsSettled /\ WorkerStops

=============================================================================
