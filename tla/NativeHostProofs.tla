--------------------------- MODULE NativeHostProofs ---------------------------
(***************************************************************************)
(* The native host, as the application supervises it and within.           *)
(*                                                                         *)
(* The supervisor and the processes agree in every state, for any number   *)
(* of children and any restart budget.  HostIsAccountedFor is not          *)
(* inductive.  That a restart never overlaps the host it replaces rests on *)
(* restarts being armed only when no process is alive and no launch is     *)
(* under way; that giving up and stopping leave nothing behind, on a live  *)
(* process being the child at hand, and on a launch that failed having     *)
(* killed it.                                                              *)
(*                                                                         *)
(* BoundedSpscQueue, the ring between the mouse hook and the pipeline,     *)
(* implements BoundedFifo, without a data race, for every number of slots. *)
(* The inductive invariant adds to the types what each side knows between  *)
(* its steps: a producer that has begun to push still has a free slot, for *)
(* the consumer can only make room; a consumer that has begun to pop still *)
(* has a full one; and what either has copied is what the slot holds.      *)
(*                                                                         *)
(* The promises of the UI Automation worker are kept for any set of        *)
(* requests, whatever the pipeline's timeouts, a stop that comes at any    *)
(* moment and a provider that hangs do to the order of things.  A request  *)
(* waits or is served, never both: outstanding_, and not the caller's      *)
(* patience, decides whether another one is accepted.                      *)
(***************************************************************************)
EXTENDS NativeHostSupervisor, BoundedSpscQueue, UiaWorker,
        SequenceTheorems, FiniteSetTheorems, TLAPS

-----------------------------------------------------------------------------
(* The supervisor.                                                         *)

(* A process that lives, or a launch() that has not ended.                 *)
Busy(c) == Running(c) \/ launch[c] \in Launching

OneAtATime == \A c, d \in Children : Busy(c) /\ Busy(d) => c = d

ArmedWhenIdle == restartTimer => \A c \in Children : ~Busy(c)

HostIsChild == \A c \in Children : Running(c) => child = c

NotStarted ==
  startCall = "none" => /\ ~active /\ ~stopping /\ ~restartTimer
                        /\ \A c \in Children : ~Busy(c)

(* stop() ends supervision at once, and turns to the child at hand.        *)
Stopping ==
  /\ stopping <=> stop # "none"
  /\ stopping => ~active /\ ~restartTimer
  /\ stop \in {"exiting", "killing", "threw"} =>
       stopChild \in Children /\ child \in {stopChild, NoChild}

(* A launch expects an exit, and kills, only once it fails.                *)
LaunchesHold ==
  \A c \in Children :
    /\ Running(c) => launch[c] # "none"
    /\ launch[c] = "killing" => c \in killed
    /\ Running(c) /\ launch[c] = "failed" => c \in killed /\ ~active
    /\ launch[c] \in {"connecting", "hello", "answered", "ready"} /\ c \in expected => stopping

SupervisorInv ==
  /\ TypeOK
  /\ OneAtATime
  /\ ArmedWhenIdle
  /\ HostIsChild
  /\ NotStarted
  /\ Stopping
  /\ LaunchesHold
  /\ Supervised
  /\ GivenUpMeansKilled
  /\ NoHostAfterStop

-----------------------------------------------------------------------------
USE SupervisorAssumption DEF SupervisorAssumption, Running, Ready, Busy, Launching

LEMMA SupervisorInit == Init => SupervisorInv
<1> SUFFICES ASSUME Init PROVE SupervisorInv
  OBVIOUS
<1>1. TypeOK
  <2>1. launch \in [Children -> {"none"}] /\ proc \in [Children -> {"none"}]
        /\ pipe \in [Children -> {"none"}]
    BY DEF Init
  <2>2. /\ launch \in [Children -> Launching \cup {"none", "ready", "failed"}]
        /\ proc \in [Children -> {"none", "alive", "dead"}]
        /\ pipe \in [Children -> {"none", "open", "closed"}]
    BY <2>1
  <2>3. restartCount \in 0..MaxRestarts
    BY DEF Init
  <2>4. QED
    BY <2>2, <2>3 DEF Init, TypeOK
<1>2. \A c \in Children : ~Running(c) /\ launch[c] = "none" /\ ~Busy(c)
  BY DEF Init
<1>3. OneAtATime /\ ArmedWhenIdle /\ HostIsChild /\ NotStarted /\ Stopping
  BY <1>2 DEF Init, OneAtATime, ArmedWhenIdle, HostIsChild, NotStarted, Stopping
<1>4. LaunchesHold /\ Supervised /\ GivenUpMeansKilled /\ NoHostAfterStop
  BY <1>2 DEF Init, LaunchesHold, Supervised, GivenUpMeansKilled, NoHostAfterStop
<1>5. QED
  BY <1>1, <1>3, <1>4 DEF SupervisorInv

(* A process is spawned when none lives and no launch is under way.        *)
LEMMA SpawnInv ==
  ASSUME SupervisorInv, NEW c \in Children, Spawn(c), \A d \in Children : ~Busy(d),
         restartTimer' = FALSE, active' = TRUE, stopping' = FALSE, startCall' # "none",
         restartCount' \in 0..MaxRestarts, startCall' \in {"pending", "resolved", "rejected"},
         stop = "none", UNCHANGED <<stableTimer, stop, stopChild>>
  PROVE  SupervisorInv'
<1>1. PICK p \in {"alive", "dead"} : proc' = [proc EXCEPT ![c] = p]
  BY DEF Spawn
<1>2. /\ child' = c /\ launch' = [launch EXCEPT ![c] = "connecting"]
      /\ expected' = expected \ {c}
      /\ proc \in [Children -> {"none", "alive", "dead"}]
      /\ launch \in [Children -> Launching \cup {"none", "ready", "failed"}]
  BY DEF Spawn, SupervisorInv, TypeOK
<1>3. /\ launch'[c] = "connecting" /\ Busy(c)'
      /\ \A d \in Children \ {c} : proc'[d] = proc[d] /\ launch'[d] = launch[d] /\ ~Busy(d)'
  BY <1>1, <1>2
<1>4. TypeOK'
  <2>1. /\ launch' \in [Children -> Launching \cup {"none", "ready", "failed"}]
        /\ proc' \in [Children -> {"none", "alive", "dead"}]
    BY <1>1, <1>2
  <2>2. /\ pipe' \in [Children -> {"none", "open", "closed"}]
        /\ expected' \subseteq Children /\ polled' \subseteq Children
        /\ hung' \subseteq Children /\ killed' \subseteq Children
    BY DEF Spawn, SupervisorInv, TypeOK
  <2>3. /\ {stableTimer', child', stopChild'} \subseteq Children \cup {NoChild}
        /\ startCall' \in {"none", "pending", "resolved", "rejected"}
    BY <1>2 DEF SupervisorInv, TypeOK
  <2>4. QED
    BY <2>1, <2>2, <2>3 DEF SupervisorInv, TypeOK
<1>5. OneAtATime' /\ ArmedWhenIdle' /\ HostIsChild' /\ NotStarted' /\ Stopping'
  BY <1>2, <1>3 DEF OneAtATime, ArmedWhenIdle, HostIsChild, NotStarted, Stopping
<1>6. LaunchesHold'
  <2>1. ~stopping
    BY DEF SupervisorInv, NotStarted, Stopping
  <2>2. QED
    BY <1>2, <1>3 DEF SupervisorInv, LaunchesHold, Stopping
<1>7. Supervised' /\ GivenUpMeansKilled' /\ NoHostAfterStop'
  BY <1>3 DEF Supervised, GivenUpMeansKilled, NoHostAfterStop
<1>8. QED
  BY <1>4, <1>5, <1>6, <1>7 DEF SupervisorInv

LEMMA SpawnsInv ==
  ASSUME SupervisorInv, Start \/ RestartTimerFires
  PROVE  SupervisorInv'
<1>1. CASE Start
  <2>1. /\ \A d \in Children : ~Busy(d)
        /\ stop = "none"
    BY <1>1 DEF Start, SupervisorInv, NotStarted, Stopping
  <2>2. restartTimer' = FALSE
    BY <1>1 DEF Start, SupervisorInv, TypeOK, NotStarted
  <2>3. 0 \in 0..MaxRestarts
    OBVIOUS
  <2>4. QED
    BY <1>1, <2>1, <2>2, <2>3, SpawnInv DEF Start
<1>2. CASE RestartTimerFires /\ active /\ ~stopping
  <2>1. /\ \A d \in Children : ~Busy(d)
        /\ stop = "none" /\ startCall # "none"
    BY <1>2 DEF RestartTimerFires, SupervisorInv, ArmedWhenIdle, NotStarted, Stopping
  <2>2. restartCount \in 0..MaxRestarts /\ startCall \in {"pending", "resolved", "rejected"}
    BY <2>1 DEF SupervisorInv, TypeOK
  <2>3. PICK c \in Children : Spawn(c)
    BY <1>2 DEF RestartTimerFires
  <2>4. /\ restartTimer' = FALSE /\ active' = TRUE /\ stopping' = FALSE
        /\ UNCHANGED <<restartCount, stableTimer, startCall, stop, stopChild>>
    BY <1>2 DEF RestartTimerFires, SupervisorInv, TypeOK
  <2>5. QED
    BY <1>2, <2>1, <2>2, <2>3, <2>4, SpawnInv
<1>3. CASE RestartTimerFires /\ ~(active /\ ~stopping)
  BY <1>3 DEF RestartTimerFires, SupervisorInv, TypeOK, OneAtATime, ArmedWhenIdle, HostIsChild,
     NotStarted, Stopping, LaunchesHold, Supervised, GivenUpMeansKilled, NoHostAfterStop
<1>4. QED
  BY <1>1, <1>2, <1>3

(* launch(): it may fail at each await, and then it kills what it started.  *)
LEMMA LaunchesInv ==
  ASSUME SupervisorInv, NEW c \in Children, Launches(c)
  PROVE  SupervisorInv'
<1>1. CASE Connect(c)
  <2>1. TypeOK'
    BY <1>1 DEF SupervisorInv, TypeOK, Stopping, Connect, supervisorVars
  <2>2. OneAtATime' /\ ArmedWhenIdle' /\ HostIsChild' /\ NotStarted'
    BY <1>1 DEF SupervisorInv, TypeOK, OneAtATime, ArmedWhenIdle, HostIsChild, NotStarted,
       Stopping, Connect, supervisorVars
  <2>3. Stopping' /\ LaunchesHold'
    BY <1>1 DEF SupervisorInv, TypeOK, OneAtATime, HostIsChild, NotStarted, Stopping,
       LaunchesHold, Connect, supervisorVars
  <2>4. Supervised' /\ GivenUpMeansKilled' /\ NoHostAfterStop'
    BY <1>1 DEF SupervisorInv, TypeOK, OneAtATime, ArmedWhenIdle, HostIsChild, NotStarted,
       Stopping, LaunchesHold, Supervised, GivenUpMeansKilled, NoHostAfterStop, Connect,
       supervisorVars
  <2>5. QED
    BY <2>1, <2>2, <2>3, <2>4 DEF SupervisorInv
<1>2. CASE HelloAnswered(c)
  <2>1. TypeOK'
    BY <1>2 DEF SupervisorInv, TypeOK, Stopping, HelloAnswered, supervisorVars, hostVars
  <2>2. OneAtATime' /\ ArmedWhenIdle' /\ HostIsChild' /\ NotStarted'
    BY <1>2 DEF SupervisorInv, TypeOK, OneAtATime, ArmedWhenIdle, HostIsChild, NotStarted,
       Stopping, HelloAnswered, supervisorVars, hostVars
  <2>3. Stopping' /\ LaunchesHold'
    BY <1>2 DEF SupervisorInv, TypeOK, OneAtATime, HostIsChild, NotStarted, Stopping,
       LaunchesHold, HelloAnswered, supervisorVars, hostVars
  <2>4. Supervised' /\ GivenUpMeansKilled' /\ NoHostAfterStop'
    BY <1>2 DEF SupervisorInv, TypeOK, OneAtATime, ArmedWhenIdle, HostIsChild, NotStarted,
       Stopping, LaunchesHold, Supervised, GivenUpMeansKilled, NoHostAfterStop, HelloAnswered,
       supervisorVars, hostVars
  <2>5. QED
    BY <2>1, <2>2, <2>3, <2>4 DEF SupervisorInv
<1>3. CASE ConnectFails(c) \/ HelloFails(c)
  <2>1. TypeOK'
    BY <1>3 DEF SupervisorInv, TypeOK, Stopping, ConnectFails, HelloFails, LaunchThrows, Closed
  <2>2. OneAtATime' /\ ArmedWhenIdle' /\ HostIsChild' /\ NotStarted'
    BY <1>3 DEF SupervisorInv, TypeOK, OneAtATime, ArmedWhenIdle, HostIsChild, NotStarted,
       Stopping, ConnectFails, HelloFails, LaunchThrows, Closed
  <2>3. Stopping' /\ LaunchesHold'
    BY <1>3 DEF SupervisorInv, TypeOK, OneAtATime, HostIsChild, NotStarted, Stopping,
       LaunchesHold, ConnectFails, HelloFails, LaunchThrows, Closed
  <2>4. Supervised' /\ GivenUpMeansKilled' /\ NoHostAfterStop'
    BY <1>3 DEF SupervisorInv, TypeOK, OneAtATime, ArmedWhenIdle, HostIsChild, NotStarted,
       Stopping, LaunchesHold, Supervised, GivenUpMeansKilled, NoHostAfterStop, ConnectFails,
       HelloFails, LaunchThrows, Closed
  <2>5. QED
    BY <2>1, <2>2, <2>3, <2>4 DEF SupervisorInv
<1>4. CASE HelloContinues(c)
  <2>1. TypeOK'
    BY <1>4 DEF SupervisorInv, TypeOK, Stopping, HelloContinues, BecomesReady, LaunchThrows,
       Closed, hostVars
  <2>2. OneAtATime' /\ ArmedWhenIdle' /\ HostIsChild' /\ NotStarted'
    BY <1>4 DEF SupervisorInv, TypeOK, OneAtATime, ArmedWhenIdle, HostIsChild, NotStarted,
       Stopping, HelloContinues, BecomesReady, LaunchThrows, Closed, hostVars
  <2>3. Stopping' /\ LaunchesHold'
    BY <1>4 DEF SupervisorInv, TypeOK, OneAtATime, HostIsChild, NotStarted, Stopping,
       LaunchesHold, HelloContinues, BecomesReady, LaunchThrows, Closed, hostVars
  <2>4. Supervised' /\ GivenUpMeansKilled' /\ NoHostAfterStop'
    BY <1>4 DEF SupervisorInv, TypeOK, OneAtATime, ArmedWhenIdle, HostIsChild, NotStarted,
       Stopping, LaunchesHold, Supervised, GivenUpMeansKilled, NoHostAfterStop, HelloContinues,
       BecomesReady, LaunchThrows, Closed, hostVars
  <2>5. QED
    BY <2>1, <2>2, <2>3, <2>4 DEF SupervisorInv
<1>5. CASE ClientClosed(c) /\ Running(c)
  <2>1. TypeOK'
    BY <1>5 DEF SupervisorInv, TypeOK, Stopping, ClientClosed, supervisorVars
  <2>2. OneAtATime' /\ ArmedWhenIdle' /\ HostIsChild' /\ NotStarted'
    BY <1>5 DEF SupervisorInv, TypeOK, OneAtATime, ArmedWhenIdle, HostIsChild, NotStarted,
       Stopping, ClientClosed, supervisorVars
  <2>3. Stopping' /\ LaunchesHold'
    BY <1>5 DEF SupervisorInv, TypeOK, OneAtATime, HostIsChild, NotStarted, Stopping,
       LaunchesHold, ClientClosed, supervisorVars
  <2>4. Supervised' /\ GivenUpMeansKilled' /\ NoHostAfterStop'
    BY <1>5 DEF SupervisorInv, TypeOK, OneAtATime, ArmedWhenIdle, HostIsChild, NotStarted,
       Stopping, LaunchesHold, Supervised, GivenUpMeansKilled, NoHostAfterStop, ClientClosed,
       supervisorVars
  <2>5. QED
    BY <2>1, <2>2, <2>3, <2>4 DEF SupervisorInv
<1>6. CASE LaunchEnds(c) /\ ~Running(c) /\ Busy(c)
  <2>1. TypeOK'
    BY <1>6 DEF SupervisorInv, TypeOK, Stopping, LaunchEnds, Rejects, hostVars
  <2>2. OneAtATime' /\ ArmedWhenIdle' /\ HostIsChild' /\ NotStarted'
    BY <1>6 DEF SupervisorInv, TypeOK, OneAtATime, ArmedWhenIdle, HostIsChild, NotStarted,
       Stopping, LaunchEnds, Rejects, hostVars
  <2>3. Stopping' /\ LaunchesHold'
    BY <1>6 DEF SupervisorInv, TypeOK, OneAtATime, HostIsChild, NotStarted, Stopping,
       LaunchesHold, LaunchEnds, Rejects, hostVars
  <2>4. Supervised' /\ GivenUpMeansKilled' /\ NoHostAfterStop'
    BY <1>6 DEF SupervisorInv, TypeOK, OneAtATime, ArmedWhenIdle, HostIsChild, NotStarted,
       Stopping, LaunchesHold, Supervised, GivenUpMeansKilled, NoHostAfterStop, LaunchEnds,
       Rejects, hostVars
  <2>5. QED
    BY <2>1, <2>2, <2>3, <2>4 DEF SupervisorInv
<1>7. CASE LaunchKillFails(c)
  <2>1. TypeOK'
    BY <1>7 DEF SupervisorInv, TypeOK, Stopping, LaunchKillFails, Rejects, hostVars
  <2>2. OneAtATime' /\ ArmedWhenIdle' /\ HostIsChild' /\ NotStarted'
    BY <1>7 DEF SupervisorInv, TypeOK, OneAtATime, ArmedWhenIdle, HostIsChild, NotStarted,
       Stopping, LaunchKillFails, Rejects, hostVars
  <2>3. Stopping' /\ LaunchesHold'
    BY <1>7 DEF SupervisorInv, TypeOK, OneAtATime, HostIsChild, NotStarted, Stopping,
       LaunchesHold, LaunchKillFails, Rejects, hostVars
  <2>4. Supervised' /\ GivenUpMeansKilled' /\ NoHostAfterStop'
    BY <1>7 DEF SupervisorInv, TypeOK, OneAtATime, ArmedWhenIdle, HostIsChild, NotStarted,
       Stopping, LaunchesHold, Supervised, GivenUpMeansKilled, NoHostAfterStop,
       LaunchKillFails, Rejects, hostVars
  <2>5. QED
    BY <2>1, <2>2, <2>3, <2>4 DEF SupervisorInv
<1>8. QED
  BY <1>1, <1>2, <1>3, <1>4, <1>5, <1>6, <1>7 DEF Launches, ClientClosed, LaunchKillSucceeds

(* The host exits, hangs or loses its pipe; what it no longer answers.      *)
LEMMA HostInv ==
  ASSUME SupervisorInv, NEW c \in Children, Host(c) \/ HealthCheckFails(c)
  PROVE  SupervisorInv'
<1>1. CASE ProcessExits(c)
  <2>1. TypeOK'
    <3>1. restartCount' \in 0..MaxRestarts
      BY <1>1 DEF SupervisorInv, TypeOK, ProcessExits, RestartOrGiveUp
    <3>2. active' \in BOOLEAN /\ restartTimer' \in BOOLEAN
      BY <1>1 DEF SupervisorInv, TypeOK, ProcessExits, RestartOrGiveUp
    <3>3. QED
      BY <1>1, <3>1, <3>2 DEF SupervisorInv, TypeOK, ProcessExits
  <2>2. OneAtATime' /\ ArmedWhenIdle' /\ HostIsChild' /\ NotStarted'
    BY <1>1 DEF SupervisorInv, TypeOK, OneAtATime, ArmedWhenIdle, HostIsChild, NotStarted,
       Stopping, ProcessExits, ExitIsUnexpected, RestartOrGiveUp
  <2>3. Stopping' /\ LaunchesHold'
    BY <1>1 DEF SupervisorInv, TypeOK, OneAtATime, HostIsChild, NotStarted, Stopping,
       LaunchesHold, ProcessExits, ExitIsUnexpected, RestartOrGiveUp
  <2>4. Supervised' /\ GivenUpMeansKilled' /\ NoHostAfterStop'
    BY <1>1 DEF SupervisorInv, TypeOK, OneAtATime, ArmedWhenIdle, HostIsChild, NotStarted,
       Stopping, LaunchesHold, Supervised, GivenUpMeansKilled, NoHostAfterStop, ProcessExits,
       ExitIsUnexpected, RestartOrGiveUp
  <2>5. QED
    BY <2>1, <2>2, <2>3, <2>4 DEF SupervisorInv
<1>2. CASE PipeBreaks(c)
  <2>1. TypeOK'
    BY <1>2 DEF SupervisorInv, TypeOK, Stopping, PipeBreaks, Closed, HandleDisconnect,
       supervisorVars
  <2>2. OneAtATime' /\ ArmedWhenIdle' /\ HostIsChild' /\ NotStarted'
    BY <1>2 DEF SupervisorInv, TypeOK, OneAtATime, ArmedWhenIdle, HostIsChild, NotStarted,
       Stopping, PipeBreaks, Closed, HandleDisconnect, supervisorVars
  <2>3. Stopping' /\ LaunchesHold'
    BY <1>2 DEF SupervisorInv, TypeOK, OneAtATime, HostIsChild, NotStarted, Stopping,
       LaunchesHold, PipeBreaks, Closed, HandleDisconnect, supervisorVars
  <2>4. Supervised' /\ GivenUpMeansKilled' /\ NoHostAfterStop'
    BY <1>2 DEF SupervisorInv, TypeOK, OneAtATime, ArmedWhenIdle, HostIsChild, NotStarted,
       Stopping, LaunchesHold, Supervised, GivenUpMeansKilled, NoHostAfterStop, PipeBreaks,
       Closed, HandleDisconnect, supervisorVars
  <2>5. QED
    BY <2>1, <2>2, <2>3, <2>4 DEF SupervisorInv
<1>3. CASE HostHangs(c)
  <2>1. TypeOK'
    BY <1>3 DEF SupervisorInv, TypeOK, Stopping, HostHangs, supervisorVars
  <2>2. OneAtATime' /\ ArmedWhenIdle' /\ HostIsChild' /\ NotStarted'
    BY <1>3 DEF SupervisorInv, TypeOK, OneAtATime, ArmedWhenIdle, HostIsChild, NotStarted,
       Stopping, HostHangs, supervisorVars
  <2>3. Stopping' /\ LaunchesHold'
    BY <1>3 DEF SupervisorInv, TypeOK, OneAtATime, HostIsChild, NotStarted, Stopping,
       LaunchesHold, HostHangs, supervisorVars
  <2>4. Supervised' /\ GivenUpMeansKilled' /\ NoHostAfterStop'
    BY <1>3 DEF SupervisorInv, TypeOK, OneAtATime, ArmedWhenIdle, HostIsChild, NotStarted,
       Stopping, LaunchesHold, Supervised, GivenUpMeansKilled, NoHostAfterStop, HostHangs,
       supervisorVars
  <2>5. QED
    BY <2>1, <2>2, <2>3, <2>4 DEF SupervisorInv
<1>4. CASE HealthCheckFails(c)
  <2>1. TypeOK'
    BY <1>4 DEF SupervisorInv, TypeOK, Stopping, HealthCheckFails, HandleDisconnect
  <2>2. OneAtATime' /\ ArmedWhenIdle' /\ HostIsChild' /\ NotStarted'
    BY <1>4 DEF SupervisorInv, TypeOK, OneAtATime, ArmedWhenIdle, HostIsChild, NotStarted,
       Stopping, HealthCheckFails, HandleDisconnect
  <2>3. Stopping' /\ LaunchesHold'
    BY <1>4 DEF SupervisorInv, TypeOK, OneAtATime, HostIsChild, NotStarted, Stopping,
       LaunchesHold, HealthCheckFails, HandleDisconnect
  <2>4. Supervised' /\ GivenUpMeansKilled' /\ NoHostAfterStop'
    BY <1>4 DEF SupervisorInv, TypeOK, OneAtATime, ArmedWhenIdle, HostIsChild, NotStarted,
       Stopping, LaunchesHold, Supervised, GivenUpMeansKilled, NoHostAfterStop,
       HealthCheckFails, HandleDisconnect
  <2>5. QED
    BY <2>1, <2>2, <2>3, <2>4 DEF SupervisorInv
<1>5. QED
  BY <1>1, <1>2, <1>3, <1>4 DEF Host

(* stop(), and the timer of a run that has proved stable.                   *)
LEMMA StopsInv ==
  ASSUME SupervisorInv, StopCalled \/ Stops \/ StableRun
  PROVE  SupervisorInv'
<1>1. CASE StopCalled
  <2>1. TypeOK'
    BY <1>1 DEF SupervisorInv, TypeOK, Stopping, StopCalled, hostVars
  <2>2. OneAtATime' /\ ArmedWhenIdle' /\ HostIsChild' /\ NotStarted'
    BY <1>1 DEF SupervisorInv, TypeOK, OneAtATime, ArmedWhenIdle, HostIsChild, NotStarted,
       Stopping, StopCalled, hostVars
  <2>3. Stopping' /\ LaunchesHold'
    BY <1>1 DEF SupervisorInv, TypeOK, OneAtATime, HostIsChild, NotStarted, Stopping,
       LaunchesHold, StopCalled, hostVars
  <2>4. Supervised' /\ GivenUpMeansKilled' /\ NoHostAfterStop'
    BY <1>1 DEF SupervisorInv, TypeOK, OneAtATime, ArmedWhenIdle, HostIsChild, NotStarted,
       Stopping, LaunchesHold, Supervised, GivenUpMeansKilled, NoHostAfterStop, StopCalled,
       hostVars
  <2>5. QED
    BY <2>1, <2>2, <2>3, <2>4 DEF SupervisorInv
<1>2. CASE ShutdownEnds
  <2>1. TypeOK'
    BY <1>2 DEF SupervisorInv, TypeOK, Stopping, ShutdownEnds, Closed
  <2>2. OneAtATime' /\ ArmedWhenIdle' /\ HostIsChild' /\ NotStarted'
    BY <1>2 DEF SupervisorInv, TypeOK, OneAtATime, ArmedWhenIdle, HostIsChild, NotStarted,
       Stopping, ShutdownEnds, Closed
  <2>3. Stopping' /\ LaunchesHold'
    BY <1>2 DEF SupervisorInv, TypeOK, OneAtATime, HostIsChild, NotStarted, Stopping,
       LaunchesHold, ShutdownEnds, Closed
  <2>4. Supervised' /\ GivenUpMeansKilled' /\ NoHostAfterStop'
    BY <1>2 DEF SupervisorInv, TypeOK, OneAtATime, ArmedWhenIdle, HostIsChild, NotStarted,
       Stopping, LaunchesHold, Supervised, GivenUpMeansKilled, NoHostAfterStop, ShutdownEnds,
       Closed
  <2>5. QED
    BY <2>1, <2>2, <2>3, <2>4 DEF SupervisorInv
<1>3. CASE StopTurnsToChild
  <2>1. TypeOK'
    BY <1>3 DEF SupervisorInv, TypeOK, Stopping, StopTurnsToChild, hostVars
  <2>2. OneAtATime' /\ ArmedWhenIdle' /\ HostIsChild' /\ NotStarted'
    BY <1>3 DEF SupervisorInv, TypeOK, OneAtATime, ArmedWhenIdle, HostIsChild, NotStarted,
       Stopping, StopTurnsToChild, hostVars
  <2>3. Stopping' /\ LaunchesHold'
    BY <1>3 DEF SupervisorInv, TypeOK, OneAtATime, HostIsChild, NotStarted, Stopping,
       LaunchesHold, StopTurnsToChild, hostVars
  <2>4. Supervised' /\ GivenUpMeansKilled' /\ NoHostAfterStop'
    BY <1>3 DEF SupervisorInv, TypeOK, OneAtATime, ArmedWhenIdle, HostIsChild, NotStarted,
       Stopping, LaunchesHold, Supervised, GivenUpMeansKilled, NoHostAfterStop,
       StopTurnsToChild, hostVars
  <2>5. QED
    BY <2>1, <2>2, <2>3, <2>4 DEF SupervisorInv
<1>4. CASE StopKills \/ StopThrows
  <2>1. TypeOK'
    BY <1>4 DEF SupervisorInv, TypeOK, Stopping, StopKills, StopThrows, hostVars
  <2>2. OneAtATime' /\ ArmedWhenIdle' /\ HostIsChild' /\ NotStarted'
    BY <1>4 DEF SupervisorInv, TypeOK, OneAtATime, ArmedWhenIdle, HostIsChild, NotStarted,
       Stopping, StopKills, StopThrows, hostVars
  <2>3. Stopping' /\ LaunchesHold'
    BY <1>4 DEF SupervisorInv, TypeOK, OneAtATime, HostIsChild, NotStarted, Stopping,
       LaunchesHold, StopKills, StopThrows, hostVars
  <2>4. Supervised' /\ GivenUpMeansKilled' /\ NoHostAfterStop'
    BY <1>4 DEF SupervisorInv, TypeOK, OneAtATime, ArmedWhenIdle, HostIsChild, NotStarted,
       Stopping, LaunchesHold, Supervised, GivenUpMeansKilled, NoHostAfterStop, StopKills,
       StopThrows, hostVars
  <2>5. QED
    BY <2>1, <2>2, <2>3, <2>4 DEF SupervisorInv
<1>5. CASE ChildIsGone
  <2>1. TypeOK'
    BY <1>5 DEF SupervisorInv, TypeOK, Stopping, ChildIsGone, hostVars
  <2>2. OneAtATime' /\ ArmedWhenIdle' /\ HostIsChild' /\ NotStarted'
    BY <1>5 DEF SupervisorInv, TypeOK, OneAtATime, ArmedWhenIdle, HostIsChild, NotStarted,
       Stopping, ChildIsGone, hostVars
  <2>3. Stopping' /\ LaunchesHold'
    BY <1>5 DEF SupervisorInv, TypeOK, OneAtATime, HostIsChild, NotStarted, Stopping,
       LaunchesHold, ChildIsGone, hostVars
  <2>4. Supervised' /\ GivenUpMeansKilled' /\ NoHostAfterStop'
    BY <1>5 DEF SupervisorInv, TypeOK, OneAtATime, ArmedWhenIdle, HostIsChild, NotStarted,
       Stopping, LaunchesHold, Supervised, GivenUpMeansKilled, NoHostAfterStop, ChildIsGone,
       hostVars
  <2>5. QED
    BY <2>1, <2>2, <2>3, <2>4 DEF SupervisorInv
<1>6. CASE StableRun
  <2>1. TypeOK'
    BY <1>6 DEF SupervisorInv, TypeOK, Stopping, StableRun, hostVars
  <2>2. OneAtATime' /\ ArmedWhenIdle' /\ HostIsChild' /\ NotStarted'
    BY <1>6 DEF SupervisorInv, TypeOK, OneAtATime, ArmedWhenIdle, HostIsChild, NotStarted,
       Stopping, StableRun, hostVars
  <2>3. Stopping' /\ LaunchesHold'
    BY <1>6 DEF SupervisorInv, TypeOK, OneAtATime, HostIsChild, NotStarted, Stopping,
       LaunchesHold, StableRun, hostVars
  <2>4. Supervised' /\ GivenUpMeansKilled' /\ NoHostAfterStop'
    BY <1>6 DEF SupervisorInv, TypeOK, OneAtATime, ArmedWhenIdle, HostIsChild, NotStarted,
       Stopping, LaunchesHold, Supervised, GivenUpMeansKilled, NoHostAfterStop, StableRun,
       hostVars
  <2>5. QED
    BY <2>1, <2>2, <2>3, <2>4 DEF SupervisorInv
<1>7. QED
  BY <1>1, <1>2, <1>3, <1>4, <1>5, <1>6 DEF Stops

LEMMA SupervisorStep == SupervisorInv /\ [Next]_vars => SupervisorInv'
<1> SUFFICES ASSUME SupervisorInv, [Next]_vars PROVE SupervisorInv'
  OBVIOUS
<1>1. CASE UNCHANGED vars
  BY <1>1 DEF vars, supervisorVars, hostVars, SupervisorInv, TypeOK, OneAtATime, ArmedWhenIdle,
     HostIsChild, NotStarted, Stopping, LaunchesHold, Supervised, GivenUpMeansKilled,
     NoHostAfterStop
<1>2. CASE Next
  BY <1>2, SpawnsInv, LaunchesInv, HostInv, StopsInv DEF Next
<1>3. QED
  BY <1>1, <1>2

(* In every state at most one host lives, an active supervisor has a host, *)
(* a launch or a restart, one that gave up has killed what it leaves, and  *)
(* once stop() has returned there is no host and none is started.          *)
THEOREM HostsAreAccountedFor == Spec => []HostIsAccountedFor
<1>1. SupervisorInv => HostIsAccountedFor
  BY DEF SupervisorInv, HostIsAccountedFor, OneAtATime, AtMostOneHost
<1>2. QED
  BY <1>1, SupervisorInit, SupervisorStep, PTL DEF Spec

(* A host is only ever spawned where none lives and no launch is under     *)
(* way, and never once stop() has been called.                             *)
THEOREM SpawnsAreAlone ==
  Spec => [][\A c \in Children : Spawn(c) =>
               ~stopping /\ \A d \in Children : ~Running(d) /\ launch[d] \notin Launching]_vars
<1>1. ASSUME SupervisorInv, Next, NEW c \in Children, Spawn(c)
      PROVE  ~stopping /\ \A d \in Children : ~Running(d) /\ launch[d] \notin Launching
  <2>1. launch'[c] = "connecting" /\ launch[c] # "connecting"
    BY <1>1 DEF Spawn, Reusable, SupervisorInv, TypeOK
  <2>2. ASSUME NEW d \in Children, Launches(d) PROVE FALSE
    BY <1>1, <2>1, <2>2 DEF Launches, Connect, HelloAnswered, ConnectFails, HelloFails,
       HelloContinues, LaunchThrows, BecomesReady, ClientClosed, LaunchEnds, LaunchKillSucceeds,
       LaunchKillFails, SupervisorInv, TypeOK
  <2>3. Start \/ (RestartTimerFires /\ active /\ ~stopping)
    BY <1>1, <2>1, <2>2 DEF Next, RestartTimerFires, StopCalled, Stops, ShutdownEnds,
       StopTurnsToChild, StopKills, StopThrows, ChildIsGone, StableRun, Host, ProcessExits,
       PipeBreaks, HostHangs, HealthCheckFails, hostVars
  <2>4. QED
    BY <1>1, <2>3 DEF Start, RestartTimerFires, SupervisorInv, ArmedWhenIdle, NotStarted
<1>2. QED
  <2>1. SupervisorInv /\ [Next]_vars =>
          [\A c \in Children : Spawn(c) =>
             ~stopping /\ \A d \in Children : ~Running(d) /\ launch[d] \notin Launching]_vars
    BY <1>1
  <2>2. QED
    BY <2>1, SupervisorInit, SupervisorStep, PTL DEF Spec

HIDE SupervisorAssumption DEF SupervisorAssumption, Running, Ready, Busy, Launching

-----------------------------------------------------------------------------
(* The ring.                                                               *)

RingInv ==
  /\ RingTypeOK
  /\ producer # "idle" => Increment(head) # tail /\ value \in Values
  /\ producer = "storing" => slots[head] = value
  /\ consumer # "idle" => tail # head
  /\ consumer = "storing" => taken = slots[tail]

(* Incrementing wraps around and stays an index.                           *)
LEMMA IncrementWraps ==
  ASSUME NEW i \in Index
  PROVE  Increment(i) = IF i = N - 1 THEN 0 ELSE i + 1
  BY QueueAssumption DEF Index, Increment

LEMMA IncrementInIndex ==
  ASSUME NEW i \in Index
  PROVE  Increment(i) \in Index
  BY IncrementWraps, QueueAssumption DEF Index

LEMMA RingStarts == RingInit => RingInv
  BY QueueAssumption DEF RingInit, RingInv, RingTypeOK, Index

(* Every step of either side preserves the invariant.                      *)
LEMMA RingStep == RingInv /\ [RingNext]_ringVars => RingInv'
<1> SUFFICES ASSUME RingInv, [RingNext]_ringVars PROVE RingInv'
  OBVIOUS
<1> USE QueueAssumption DEF RingInv, RingTypeOK
<1>h. Increment(head) \in Index /\ Increment(tail) \in Index
  BY IncrementInIndex
<1>1. ASSUME NEW v \in Values, TryPush(v) PROVE RingInv'
  BY <1>1, <1>h DEF TryPush, producerVars, consumerVars, Increment
<1>2. CASE WriteSlot
  BY <1>2, IncrementWraps DEF WriteSlot, consumerVars, returns, Index, Increment
<1>3. CASE StoreHead
  BY <1>3, <1>h DEF StoreHead, consumerVars
<1>4. CASE TryPop
  BY <1>4 DEF TryPop, producerVars, Increment
<1>5. CASE ReadSlot
  BY <1>5 DEF ReadSlot, producerVars, returns, Increment
<1>6. CASE StoreTail
  <2>1. producer # "idle" => Increment(head) # Increment(tail)
    BY <1>6, IncrementWraps DEF StoreTail, Index
  <2>2. QED
    BY <1>6, <1>h, <2>1 DEF StoreTail, producerVars, Increment
<1>7. CASE UNCHANGED ringVars
  BY <1>7 DEF ringVars, producerVars, consumerVars, returns, Increment
<1>8. QED
  BY <1>1, <1>2, <1>3, <1>4, <1>5, <1>6, <1>7 DEF RingNext

LEMMA RingInvHolds == RingSpec => []RingInv
  BY RingStarts, RingStep, PTL DEF RingSpec

(* No slot is written while it is being copied, so that the accesses to    *)
(* slots_, which are not atomic, need no lock.                             *)
THEOREM QueueHasNoDataRace == RingSpec => []NoDataRace
<1>1. RingInv => NoDataRace
  BY DEF RingInv, NoDataRace
<1>2. QED
  BY <1>1, RingInvHolds, PTL

(* Head and tail stay indices of the ring and the slots hold values.       *)
THEOREM QueueTypeCorrect == RingSpec => []RingTypeOK
<1>1. RingInv => RingTypeOK
  BY DEF RingInv
<1>2. QED
  BY <1>1, RingInvHolds, PTL

-----------------------------------------------------------------------------
(* The refinement.                                                         *)

Elements == Values \cup {None}

(* The contents are a sequence of at most N - 1 values; it is empty and    *)
(* full exactly when the two calls say so; it begins at tail.              *)
LEMMA ContentsShape ==
  ASSUME RingInv
  PROVE  /\ Count \in 0..(N - 1)
         /\ Count = 0 <=> head = tail
         /\ Count = N - 1 <=> Increment(head) = tail
         /\ \A i \in 1..N : Slot(i) \in Index
         /\ Contents \in Seq(Elements)
         /\ Len(Contents) = Count
         /\ \A i \in 1..Count : Contents[i] = slots[Slot(i)]
<1>1. /\ head \in Index /\ tail \in Index
      /\ slots \in [Index -> Elements]
      /\ N \in Nat /\ N >= 2
  BY QueueAssumption DEF RingInv, RingTypeOK, Elements
<1>2. /\ Count \in 0..(N - 1)
      /\ Count = 0 <=> head = tail
  BY <1>1 DEF Count, Index
<1>3. Count = N - 1 <=> Increment(head) = tail
  BY <1>1, IncrementWraps DEF Count, Index
<1>4. \A i \in 1..N : Slot(i) \in Index
  BY <1>1 DEF Slot, Index
<1>5. \A i \in 1..Count : slots[Slot(i)] \in Elements
  BY <1>1, <1>2, <1>4 DEF Index
<1>6. Contents \in [1..Count -> Elements]
  BY <1>5 DEF Contents
<1>7. Contents \in Seq(Elements)
  BY <1>2, <1>6 DEF Index
<1>8. Len(Contents) = Count
  BY <1>2, <1>6, <1>7, LenProperties
<1>9. \A i \in 1..Count : Contents[i] = slots[Slot(i)]
  BY DEF Contents
<1>10. QED
  BY <1>2, <1>3, <1>4, <1>7, <1>8, <1>9

(* Append and Tail as the functions they are.                              *)
LEMMA AppendIsFunction ==
  ASSUME NEW S, NEW s \in Seq(S), NEW e \in S
  PROVE  Append(s, e) = [i \in 1..(Len(s) + 1) |-> IF i = Len(s) + 1 THEN e ELSE s[i]]
<1> DEFINE a == Append(s, e)
<1>1. a \in [1..(Len(s) + 1) -> S]
  BY AppendProperties, LenProperties
<1>2. \A i \in 1..(Len(s) + 1) : a[i] = IF i = Len(s) + 1 THEN e ELSE s[i]
  BY AppendProperties, LenProperties
<1> HIDE DEF a
<1>3. a = [i \in 1..(Len(s) + 1) |-> IF i = Len(s) + 1 THEN e ELSE s[i]]
  BY <1>1, <1>2
<1>4. QED
  BY <1>3 DEF a

LEMMA TailIsFunction ==
  ASSUME NEW S, NEW s \in Seq(S), Len(s) > 0
  PROVE  Tail(s) = [i \in 1..(Len(s) - 1) |-> s[i + 1]]
<1> DEFINE t == Tail(s)
<1>1. s # <<>>
  BY EmptySeq
<1>2. t \in Seq(S) /\ Len(t) = Len(s) - 1
  BY <1>1, HeadTailProperties
<1>3. t \in [1..(Len(s) - 1) -> S]
  BY <1>2, LenProperties
<1>4. \A i \in 1..(Len(s) - 1) : t[i] = s[i + 1]
  BY <1>1, <1>2, HeadTailProperties
<1> HIDE DEF t
<1>5. t = [i \in 1..(Len(s) - 1) |-> s[i + 1]]
  BY <1>3, <1>4
<1>6. QED
  BY <1>5 DEF t

(* Every step of the ring is a step of the FIFO or leaves it unchanged.    *)
LEMMA StepRefines == RingInv /\ RingInv' /\ [RingNext]_ringVars => [Fifo!Next]_(Fifo!vars)
<1> SUFFICES ASSUME RingInv, RingInv', [RingNext]_ringVars PROVE [Fifo!Next]_(Fifo!vars)
  OBVIOUS
<1>t. /\ head \in Index /\ tail \in Index
      /\ slots \in [Index -> Elements]
      /\ N \in Nat /\ N >= 2
  BY QueueAssumption DEF RingInv, RingTypeOK, Elements
<1>1. ASSUME NEW v \in Values, TryPush(v) PROVE [Fifo!Next]_(Fifo!vars)
  <2>1. Contents' = Contents /\ popped' = popped
    BY <1>1 DEF TryPush, consumerVars, Contents, Count, Slot
  <2>2. CASE Increment(head) = tail
    <3>1. answer' = FALSE
      BY <1>1, <2>2 DEF TryPush
    <3>2. QED
      BY <2>1, <2>2, <3>1, ContentsShape DEF Fifo!Next, Fifo!Refuse
  <2>3. CASE Increment(head) # tail
    <3>1. answer' = answer
      BY <1>1, <2>3 DEF TryPush
    <3>2. QED
      BY <2>1, <3>1 DEF Fifo!vars
  <2>4. QED
    BY <2>2, <2>3
<1>2. CASE WriteSlot
  <2>1. \A i \in 1..Count : slots'[Slot(i)] = slots[Slot(i)]
    <3>1. \A i \in 1..Count : Slot(i) # head /\ Slot(i) \in Index
      BY <1>t DEF Slot, Count, Index
    <3>2. QED
      BY <1>2, <1>t, <3>1 DEF WriteSlot
  <2>2. Contents' = [i \in 1..Count |-> slots'[Slot(i)]]
    BY <1>2 DEF WriteSlot, consumerVars, Contents, Count, Slot
  <2>3. Contents' = Contents
    BY <2>1, <2>2 DEF Contents
  <2>4. QED
    BY <1>2, <2>3 DEF WriteSlot, returns, Fifo!vars
<1>3. CASE StoreHead
  <2>1. head' = Increment(head) /\ tail' = tail /\ slots' = slots /\ answer' = TRUE
        /\ popped' = popped /\ producer = "storing"
    BY <1>3 DEF StoreHead, consumerVars
  <2>2. Increment(head) # tail /\ value \in Values /\ slots[head] = value
    BY <2>1 DEF RingInv
  <2>3. Count' = Count + 1 /\ Slot(Count + 1) = head
    BY <1>t, <2>1, <2>2, IncrementWraps DEF Count, Slot, Index
  <2>4. Contents' = [i \in 1..(Count + 1) |-> slots[Slot(i)]]
    BY <2>1, <2>3 DEF Contents, Slot
  <2>5. Contents' = Append(Contents, value)
    <3>1. Append(Contents, value) = [i \in 1..(Count + 1) |-> IF i = Count + 1 THEN value ELSE Contents[i]]
      BY <2>2, ContentsShape, AppendIsFunction DEF Elements
    <3>2. \A i \in 1..(Count + 1) : slots[Slot(i)] = IF i = Count + 1 THEN value ELSE Contents[i]
      BY <2>2, <2>3, ContentsShape
    <3>3. QED
      BY <2>4, <3>1, <3>2
  <2>6. Len(Contents) < N - 1
    BY <1>t, <2>2, ContentsShape
  <2>7. Fifo!Push(value)
    BY <2>1, <2>5, <2>6 DEF Fifo!Push
  <2>8. QED
    BY <2>2, <2>7 DEF Fifo!Next
<1>4. CASE TryPop
  <2>1. Contents' = Contents /\ answer' = answer
    BY <1>4 DEF TryPop, producerVars, Contents, Count, Slot
  <2>2. CASE tail = head
    <3>1. popped' = None
      BY <1>4, <2>2 DEF TryPop
    <3>2. Contents = <<>>
      BY <2>2, ContentsShape, EmptySeq
    <3>3. QED
      BY <2>1, <3>1, <3>2 DEF Fifo!Next, Fifo!FindEmpty
  <2>3. CASE tail # head
    <3>1. popped' = popped
      BY <1>4, <2>3 DEF TryPop
    <3>2. QED
      BY <2>1, <3>1 DEF Fifo!vars
  <2>4. QED
    BY <2>2, <2>3
<1>5. CASE ReadSlot
  <2>1. Contents' = Contents
    BY <1>5 DEF ReadSlot, Contents, Count, Slot
  <2>2. QED
    BY <1>5, <2>1 DEF ReadSlot, returns, Fifo!vars
<1>6. CASE StoreTail
  <2>1. tail' = Increment(tail) /\ head' = head /\ slots' = slots /\ answer' = answer
        /\ popped' = taken /\ consumer = "storing"
    BY <1>6 DEF StoreTail, producerVars
  <2>2. tail # head /\ taken = slots[tail]
    BY <2>1 DEF RingInv
  <2>3. Count > 0 /\ Count' = Count - 1 /\ Slot(1) = tail
    BY <1>t, <2>1, <2>2, IncrementWraps DEF Count, Slot, Index
  <2>4. \A i \in 1..(Count - 1) : Slot(i)' = Slot(i + 1)
    <3> TAKE i \in 1..(Count - 1)
    <3>1. i \in Nat /\ i >= 1 /\ i < N
      BY <1>t, ContentsShape
    <3>2. tail' = IF tail = N - 1 THEN 0 ELSE tail + 1
      BY <1>t, <2>1, IncrementWraps
    <3>3. QED
      BY <1>t, <3>1, <3>2 DEF Slot, Index
  <2>5. Contents' = [i \in 1..(Count - 1) |-> slots[Slot(i + 1)]]
    BY <2>1, <2>3, <2>4 DEF Contents
  <2>6. Contents # <<>> /\ Head(Contents) = taken
    BY <2>2, <2>3, ContentsShape, EmptySeq
  <2>7. Tail(Contents) = [i \in 1..(Count - 1) |-> Contents[i + 1]]
    BY <2>3, ContentsShape, TailIsFunction
  <2>8. \A i \in 1..(Count - 1) : Contents[i + 1] = slots[Slot(i + 1)]
    BY <2>3, ContentsShape
  <2>9. Contents' = Tail(Contents)
    BY <2>5, <2>7, <2>8
  <2>10. QED
    BY <2>1, <2>6, <2>9 DEF Fifo!Next, Fifo!Pop
<1>7. CASE UNCHANGED ringVars
  <2>1. Contents' = Contents
    BY <1>7 DEF ringVars, Contents, Count, Slot
  <2>2. QED
    BY <1>7, <2>1 DEF ringVars, returns, Fifo!vars
<1>8. QED
  BY <1>1, <1>2, <1>3, <1>4, <1>5, <1>6, <1>7 DEF RingNext

LEMMA InitRefines == RingInit => Fifo!Init
<1> SUFFICES ASSUME RingInit PROVE Fifo!Init
  OBVIOUS
<1>1. Count = 0
  BY QueueAssumption DEF RingInit, Count
<1>2. Contents = <<>>
  BY <1>1, RingStarts, ContentsShape, EmptySeq
<1>3. QED
  BY <1>2 DEF RingInit, Fifo!Init

(* The ring is a FIFO: values come out once and in order, a push is        *)
(* refused only when N - 1 values are waiting, a pop only when none is.    *)
THEOREM QueueImplementsFifo == RingSpec => ImplementsFifo
  BY InitRefines, StepRefines, RingInvHolds, PTL DEF RingSpec, ImplementsFifo, Fifo!Spec

-----------------------------------------------------------------------------
(* The worker.                                                             *)

(* The request that the worker serves and has not answered.                *)
Unanswered == IF worker \in {"serving", "hung"} THEN current ELSE NoRequest

(* While the worker has a request, none waits.                             *)
OneOrTheOther == worker \in {"serving", "hung", "answered"} => request = NoRequest

(* Exactly the request that waits or is served has an open promise.        *)
Held == Pending = {request, Unanswered} \ {NoRequest}

WorkerInv ==
  /\ WorkerTypeOK
  /\ OneOrTheOther
  /\ Held
  /\ SlotIsFreed

-----------------------------------------------------------------------------

LEMMA WorkerTypeStep ==
  ASSUME WorkerTypeOK, [WorkerNext]_workerVars
  PROVE  WorkerTypeOK'
<1> USE RequestAssumption DEF WorkerTypeOK
<1>1. ASSUME NEW r \in Requests, TryGetSelection(r)
      PROVE  WorkerTypeOK'
  BY <1>1 DEF TryGetSelection, Woken, Idle, Joined
<1>2. CASE WaitEnds \/ StopListening
  BY <1>2 DEF WaitEnds, StopListening, Idle, Joined
<1>3. CASE StoreStop \/ NotifyAll
  BY <1>3 DEF StoreStop, NotifyAll, Woken
<1>4. CASE JoinWorker \/ TerminateProcess
  BY <1>4 DEF JoinWorker, TerminateProcess
<1>5. CASE LookForStop
  BY <1>5 DEF LookForStop
<1>6. CASE LookForRequest
  BY <1>6 DEF LookForRequest
<1>7. CASE FindNothing \/ FallAsleep \/ WakeSpuriously \/ ProviderHangs
  BY <1>7 DEF FindNothing, FallAsleep, WakeSpuriously, ProviderHangs
<1>8. CASE SetValue
  BY <1>8 DEF SetValue
<1>9. CASE ClearOutstanding
  BY <1>9 DEF ClearOutstanding
<1>10. CASE UNCHANGED workerVars
  BY <1>10 DEF workerVars
<1>11. QED
  BY <1>1, <1>2, <1>3, <1>4, <1>5, <1>6, <1>7, <1>8, <1>9, <1>10
     DEF WorkerNext, Pipeline, Stop, Works

-----------------------------------------------------------------------------
(* A step that neither opens nor settles a promise.                        *)
Quiet ==
  /\ UNCHANGED <<promise, request, outstanding, current>>
  /\ \/ worker' = worker
     \/ {worker, worker'} \subseteq {"looking", "nodding", "asleep"}
     \/ worker = "serving" /\ worker' = "hung"

LEMMA QuietSteps ==
  ASSUME WorkerTypeOK,
         \/ WaitEnds \/ StopListening \/ Stop
         \/ FindNothing \/ FallAsleep \/ WakeSpuriously
         \/ ProviderHangs \/ UNCHANGED workerVars
  PROVE  Quiet
BY DEF Quiet, WorkerTypeOK, WaitEnds, StopListening, Stop, StoreStop,
   NotifyAll, Woken, JoinWorker, TerminateProcess, FindNothing,
   FallAsleep, WakeSpuriously, ProviderHangs, workerVars

LEMMA WorkerStarts ==
  WorkerInit => WorkerInv
BY RequestAssumption DEF WorkerInit, WorkerInv, WorkerTypeOK, Idle, OneOrTheOther, Held,
   Pending, Unanswered, SlotIsFreed

LEMMA WorkerStep ==
  ASSUME WorkerInv, [WorkerNext]_workerVars
  PROVE  WorkerInv'
<1>1. WorkerTypeOK /\ WorkerTypeOK' /\ OneOrTheOther /\ Held /\ SlotIsFreed
  BY WorkerTypeStep DEF WorkerInv
<1>2. ASSUME NEW r \in Requests, TryGetSelection(r)
      PROVE  OneOrTheOther' /\ Held' /\ SlotIsFreed'
  <2>1. CASE stopRequested \/ outstanding
    <3>1. /\ UNCHANGED <<request, outstanding, worker, current>>
          /\ promise' = [promise EXCEPT ![r] = "turned away"] /\ promise[r] = "none"
      BY <1>2, <2>1 DEF TryGetSelection
    <3>2. Pending' = Pending
      BY <1>1, <3>1 DEF Pending, WorkerTypeOK
    <3>3. QED
      BY <1>1, <3>1, <3>2 DEF OneOrTheOther, Held, Unanswered, SlotIsFreed
  <2>2. CASE ~stopRequested /\ ~outstanding
    <3>1. request = NoRequest /\ worker \notin {"serving", "hung", "answered"} /\ Pending = {}
      BY <1>1, <2>2 DEF SlotIsFreed, Held, Unanswered
    <3>2. /\ promise' = [promise EXCEPT ![r] = "pending"]
          /\ request' = r /\ outstanding' /\ worker' \notin {"serving", "hung", "answered"}
      BY <1>1, <1>2, <2>2, <3>1 DEF TryGetSelection, Woken
    <3>3. Pending' = {r}
      BY <1>1, <3>1, <3>2 DEF Pending, WorkerTypeOK
    <3>4. QED
      BY <1>2, <3>2, <3>3, RequestAssumption
         DEF OneOrTheOther, Held, Unanswered, SlotIsFreed
  <2>3. QED
    BY <2>1, <2>2
<1>3. CASE Quiet
  <2>1. Pending' = Pending /\ Unanswered' = Unanswered
    BY <1>1, <1>3 DEF Quiet, Pending, Unanswered, WorkerTypeOK
  <2>2. QED
    BY <1>1, <1>3, <2>1 DEF Quiet, OneOrTheOther, Held, SlotIsFreed, WorkerInv
<1>4. CASE LookForStop
  <2>1. /\ worker = "looking" /\ worker' = "exited" /\ request' = NoRequest /\ ~outstanding'
        /\ \A r \in Requests : promise'[r] = IF r = request THEN "refused" ELSE promise[r]
    BY <1>4 DEF LookForStop
  <2>2. Pending' = {}
    BY <1>1, <2>1 DEF Pending, Held, Unanswered
  <2>3. QED
    BY <1>1, <2>1, <2>2 DEF OneOrTheOther, Held, Unanswered, SlotIsFreed, WorkerInv
<1>5. CASE LookForRequest
  <2>1. /\ worker = "looking" /\ worker' = "serving" /\ request # NoRequest
        /\ current' = request /\ request' = NoRequest
        /\ UNCHANGED <<promise, outstanding>>
    BY <1>5 DEF LookForRequest
  <2>2. QED
    BY <1>1, <2>1 DEF OneOrTheOther, Held, Unanswered, Pending, SlotIsFreed, WorkerInv
<1>6. CASE SetValue
  <2>1. /\ worker = "serving" /\ worker' = "answered" /\ request = NoRequest
        /\ promise' = [promise EXCEPT ![current] = "set"]
        /\ UNCHANGED <<request, outstanding, current>>
    BY <1>1, <1>6 DEF SetValue, OneOrTheOther
  <2>2. Pending = {current} /\ Pending' = {}
    BY <1>1, <2>1, RequestAssumption DEF Pending, Held, Unanswered, WorkerTypeOK
  <2>3. QED
    BY <1>1, <2>1, <2>2 DEF OneOrTheOther, Held, Unanswered, SlotIsFreed, WorkerInv
<1>7. CASE ClearOutstanding
  <2>1. /\ worker = "answered" /\ worker' = "looking" /\ request = NoRequest /\ ~outstanding'
        /\ UNCHANGED <<promise, request>>
    BY <1>1, <1>7 DEF ClearOutstanding, OneOrTheOther
  <2>2. QED
    BY <1>1, <2>1 DEF OneOrTheOther, Held, Unanswered, Pending, SlotIsFreed, WorkerInv
<1>8. QED
  BY <1>1, <1>2, <1>3, <1>4, <1>5, <1>6, <1>7, QuietSteps DEF WorkerInv, WorkerNext, Pipeline, Works

(* At most one promise is open, the one of the request that waits or is    *)
(* served; and the slot is taken exactly as long as there is such a one.   *)
THEOREM PromisesStayKept ==
  WorkerSpec => []PromisesAreKept
<1>1. WorkerInv => PromisesAreKept
  <2> SUFFICES ASSUME WorkerInv PROVE PromisesAreKept
    OBVIOUS
  <2>1. PICK r : Pending \subseteq {r}
    BY DEF WorkerInv, OneOrTheOther, Held, Unanswered
  <2>2. Cardinality(Pending) <= 1
    <3>1. IsFiniteSet({r}) /\ Cardinality({r}) = 1
      BY FS_Singleton
    <3>2. QED
      BY <2>1, <3>1, FS_Subset
  <2>3. QED
    BY <2>2 DEF WorkerInv, Held, Unanswered, OpenPromiseIsHeld, PromisesAreKept
<1>2. QED
  BY <1>1, WorkerStarts, WorkerStep, PTL DEF WorkerSpec

(* Nobody sets a promise twice, which would throw: one that was set,       *)
(* refused or turned away keeps what it got.                               *)
THEOREM PromisesAreSetOnce ==
  WorkerSpec => [][\A r \in Requests :
                    promise[r] \in {"set", "refused", "turned away"} => promise'[r] = promise[r]]_workerVars
<1>1. ASSUME WorkerInv, WorkerNext, NEW r \in Requests,
             promise[r] \in {"set", "refused", "turned away"}
      PROVE  promise'[r] = promise[r]
  <2>1. r # request /\ (worker = "serving" => r # current)
    BY <1>1, RequestAssumption DEF WorkerInv, Held, Unanswered, Pending, WorkerTypeOK
  <2>2. CASE \E s \in Requests : TryGetSelection(s)
    BY <1>1, <2>2 DEF TryGetSelection, WorkerInv, WorkerTypeOK
  <2>3. CASE SetValue
    BY <1>1, <2>1, <2>3 DEF SetValue, WorkerInv, WorkerTypeOK
  <2>4. CASE LookForStop
    BY <1>1, <2>1, <2>4 DEF LookForStop
  <2>5. CASE LookForRequest \/ ClearOutstanding
    BY <2>5 DEF LookForRequest, ClearOutstanding
  <2>6. QED
    BY <1>1, <2>2, <2>3, <2>4, <2>5, QuietSteps DEF WorkerInv, WorkerNext, Pipeline, Works, Quiet
<1>2. WorkerInv /\ [WorkerNext]_workerVars =>
        [\A r \in Requests :
           promise[r] \in {"set", "refused", "turned away"} => promise'[r] = promise[r]]_workerVars
  BY <1>1
<1>3. QED
  BY <1>2, WorkerStarts, WorkerStep, PTL DEF WorkerSpec

=============================================================================
