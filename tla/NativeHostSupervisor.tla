-------------------------- MODULE NativeHostSupervisor --------------------------
(***************************************************************************)
(* NativeHostSupervisor: Electron Main's keeper of selection-host.exe.  It *)
(* spawns the host, connects to its pipe, performs the hello handshake,    *)
(* checks its health, kills it when it stops answering, restarts it with   *)
(* an exponential backoff until a budget is spent, and stops it once.      *)
(*                                                                         *)
(* launch() and stop() are coroutines: each await is a step boundary, and  *)
(* exits, disconnects, timers and the other coroutine run in between.      *)
(* Processes and pipes are the environment: a host may exit, hang or break *)
(* its pipe at any time.                                                   *)
(*                                                                         *)
(* this.child and this.client are one variable: they are set and cleared   *)
(* together, except that stop() clears the client first, when the stopping *)
(* flag already hides the difference.  A health timer or a health request  *)
(* of a host that is gone has no effect and is dropped with the host.      *)
(***************************************************************************)
EXTENDS Naturals, FiniteSets

CONSTANTS
  Children,      \* child processes; one that nothing refers to is reused
  NoChild,
  MaxRestarts    \* options.maxRestarts

ASSUME SupervisorAssumption ==
  /\ NoChild \notin Children
  /\ MaxRestarts \in Nat

VARIABLES
  active, stopping, restartCount,
  restartTimer,  \* a restart is armed
  stableTimer,   \* the child whose stable-run timer is armed
  child,         \* this.child and this.client
  expected,      \* expectedExits
  polled,        \* children with a health check armed or in flight
  launch,        \* for each child, where its launch() is
  startCall,     \* the promise of start()
  stop,          \* where performStop() is
  stopChild,     \* its local variable child (and client)
  proc, pipe,    \* for each child, its process and the client's connection to it
  hung, killed   \* children that no longer answer, that were killed

supervisorVars == <<active, stopping, restartCount, restartTimer, stableTimer, child, expected,
                    polled, startCall, stop, stopChild>>
hostVars == <<proc, pipe, hung, killed>>
vars == <<supervisorVars, launch, hostVars>>

Launching == {"connecting", "hello", "answered", "closing", "killing"}

(* The values of each variable; the restart budget is never exceeded.      *)
TypeOK ==
  /\ active \in BOOLEAN
  /\ stopping \in BOOLEAN
  /\ restartCount \in 0..MaxRestarts
  /\ restartTimer \in BOOLEAN
  /\ {stableTimer, child, stopChild} \subseteq Children \cup {NoChild}
  /\ expected \subseteq Children
  /\ polled \subseteq Children
  /\ launch \in [Children -> Launching \cup {"none", "ready", "failed"}]
  /\ startCall \in {"none", "pending", "resolved", "rejected"}
  /\ stop \in {"none", "shutdown", "closing", "exiting", "killing", "done", "threw"}
  /\ proc \in [Children -> {"none", "alive", "dead"}]
  /\ pipe \in [Children -> {"none", "open", "closed"}]
  /\ hung \subseteq Children
  /\ killed \subseteq Children

Init ==
  /\ active = FALSE
  /\ stopping = FALSE
  /\ restartCount = 0
  /\ restartTimer = FALSE
  /\ stableTimer = NoChild
  /\ child = NoChild
  /\ expected = {}
  /\ polled = {}
  /\ launch = [c \in Children |-> "none"]
  /\ startCall = "none"
  /\ stop = "none"
  /\ stopChild = NoChild
  /\ proc = [c \in Children |-> "none"]
  /\ pipe = [c \in Children |-> "none"]
  /\ hung = {}
  /\ killed = {}

Running(c) == proc[c] = "alive"
Ready(c) == launch[c] = "ready"     \* c is in readyChildren

Closed(p) == [c \in Children |-> IF c = p /\ pipe[c] = "open" THEN "closed" ELSE pipe[c]]

-----------------------------------------------------------------------------
(* launch().                                                               *)

Reusable(c) ==
  /\ ~Running(c)
  /\ launch[c] \notin Launching
  /\ pipe[c] # "open"
  /\ c \notin {child, stableTimer, stopChild}

(* The synchronous part of launch(), up to the first await.  The spawn may *)
(* fail, and then no exit is ever reported.                                *)
Spawn(c) ==
  /\ Reusable(c)
  /\ child' = c
  /\ launch' = [launch EXCEPT ![c] = "connecting"]
  /\ \E p \in {"alive", "dead"} : proc' = [proc EXCEPT ![c] = p]
  /\ pipe' = [pipe EXCEPT ![c] = "none"]
  /\ expected' = expected \ {c}
  /\ polled' = polled \ {c}
  /\ hung' = hung \ {c}
  /\ killed' = killed \ {c}

Start ==
  /\ startCall = "none"
  /\ active' = TRUE
  /\ stopping' = FALSE
  /\ restartCount' = 0
  /\ startCall' = "pending"
  /\ \E c \in Children : Spawn(c)
  /\ UNCHANGED <<restartTimer, stableTimer, stop, stopChild>>

(* The pipe is open and hello is sent; the host accepts one connection.    *)
Connect(c) ==
  /\ launch[c] = "connecting"
  /\ Running(c)
  /\ pipe[c] = "none"
  /\ pipe' = [pipe EXCEPT ![c] = "open"]
  /\ launch' = [launch EXCEPT ![c] = "hello"]
  /\ UNCHANGED <<supervisorVars, proc, hung, killed>>

(* The ready response is received; launch() goes on in a later callback.   *)
HelloAnswered(c) ==
  /\ launch[c] = "hello"
  /\ pipe[c] = "open"
  /\ c \notin hung
  /\ launch' = [launch EXCEPT ![c] = "answered"]
  /\ UNCHANGED <<supervisorVars, hostVars>>

(* Entering the catch block: an exit from now on is expected.              *)
LaunchThrows(c) ==
  /\ launch' = [launch EXCEPT ![c] = "closing"]
  /\ expected' = expected \cup {c}
  /\ pipe' = Closed(c)
  /\ UNCHANGED <<active, stopping, restartCount, restartTimer, stableTimer, child, polled,
                 startCall, stop, stopChild, proc, hung, killed>>

(* The five seconds of connectWithRetry, a spawn error.                    *)
ConnectFails(c) == launch[c] = "connecting" /\ LaunchThrows(c)

(* A time-out, a lost pipe, an invalid handshake.                          *)
HelloFails(c) == launch[c] = "hello" /\ LaunchThrows(c)

BecomesReady(c) ==
  /\ launch' = [launch EXCEPT ![c] = "ready"]
  /\ polled' = polled \cup {c}
  /\ stableTimer' = c
  /\ startCall' = IF startCall = "pending" THEN "resolved" ELSE startCall
  /\ UNCHANGED <<active, stopping, restartCount, restartTimer, child, expected, stop, stopChild,
                 hostVars>>

(* launch() goes on after hello: the host may have exited in between.      *)
HelloContinues(c) ==
  /\ launch[c] = "answered"
  /\ IF child = c /\ Running(c) THEN BecomesReady(c) ELSE LaunchThrows(c)

(* launch() rejects: start() rejects, a restart is fatal.                  *)
Rejects ==
  /\ active' = FALSE
  /\ startCall' = IF startCall = "pending" THEN "rejected" ELSE startCall

LaunchEnds(c) ==
  /\ launch' = [launch EXCEPT ![c] = "failed"]
  /\ child' = IF child = c THEN NoChild ELSE child
  /\ Rejects
  /\ UNCHANGED <<stopping, restartCount, restartTimer, stableTimer, expected, polled, stop,
                 stopChild, hostVars>>

(* Mutant: a failed launch leaves its process alone.                       *)
ClientClosedOnly(c) == launch[c] = "closing" /\ LaunchEnds(c)

ClientClosed(c) ==
  /\ launch[c] = "closing"
  /\ IF Running(c)
     THEN /\ killed' = killed \cup {c}
          /\ launch' = [launch EXCEPT ![c] = "killing"]
          /\ UNCHANGED <<supervisorVars, proc, pipe, hung>>
     ELSE LaunchEnds(c)

LaunchKillSucceeds(c) == launch[c] = "killing" /\ ~Running(c) /\ LaunchEnds(c)

(* One second later the process is still there: child and client are kept. *)
LaunchKillFails(c) ==
  /\ launch[c] = "killing"
  /\ Running(c)
  /\ launch' = [launch EXCEPT ![c] = "failed"]
  /\ Rejects
  /\ UNCHANGED <<stopping, restartCount, restartTimer, stableTimer, child, expected, polled, stop,
                 stopChild, hostVars>>

-----------------------------------------------------------------------------
(* The life of a host that is ready.                                       *)

HandleDisconnect(c) ==
  killed' = IF ~stopping /\ child = c /\ Running(c) THEN killed \cup {c} ELSE killed

(* The pipe closes or carries a malformed or unsolicited frame.  launch()  *)
(* listens for that only once it is ready.                                 *)
PipeBreaks(c) ==
  /\ pipe[c] = "open"
  /\ pipe' = Closed(c)
  /\ IF Ready(c) THEN HandleDisconnect(c) ELSE UNCHANGED killed
  /\ UNCHANGED <<supervisorVars, launch, proc, hung>>

(* Mutant: a failed health check is only reported.                         *)
HealthCheckIsReported(c) ==
  /\ c \in polled
  /\ polled' = polled \ {c}
  /\ UNCHANGED <<active, stopping, restartCount, restartTimer, stableTimer, child, expected,
                 startCall, stop, stopChild, launch, hostVars>>

(* A health request cannot be sent, is rejected or times out.              *)
HealthCheckFails(c) ==
  /\ c \in polled
  /\ polled' = polled \ {c}
  /\ HandleDisconnect(c)
  /\ UNCHANGED <<active, stopping, restartCount, restartTimer, stableTimer, child, expected,
                 startCall, stop, stopChild, launch, proc, pipe, hung>>

StableRun ==
  /\ stableTimer # NoChild
  /\ stableTimer' = NoChild
  /\ restartCount' = IF child = stableTimer /\ ~stopping THEN 0 ELSE restartCount
  /\ UNCHANGED <<active, stopping, restartTimer, child, expected, polled, startCall, stop,
                 stopChild, launch, hostVars>>

(* handleExit, once the liveness timers and the child are cleared.         *)
ExitIsUnexpected(c) == Ready(c) /\ active /\ ~stopping /\ c \notin expected

(* Mutant: restarts are not counted.                                       *)
RestartUncounted ==
  IF restartCount >= MaxRestarts
  THEN active' = FALSE /\ UNCHANGED <<restartCount, restartTimer>>
  ELSE restartTimer' = TRUE /\ UNCHANGED <<restartCount, active>>

RestartOrGiveUp ==
  IF restartCount >= MaxRestarts
  THEN active' = FALSE /\ UNCHANGED <<restartCount, restartTimer>>
  ELSE restartCount' = restartCount + 1 /\ restartTimer' = TRUE /\ UNCHANGED active

ProcessExits(c) ==
  /\ Running(c)
  /\ proc' = [proc EXCEPT ![c] = "dead"]
  /\ polled' = polled \ {c}
  /\ IF child = c THEN stableTimer' = NoChild /\ child' = NoChild
                  ELSE UNCHANGED <<stableTimer, child>>
  /\ IF ExitIsUnexpected(c) THEN RestartOrGiveUp
                            ELSE UNCHANGED <<active, restartCount, restartTimer>>
  /\ UNCHANGED <<stopping, expected, startCall, stop, stopChild, launch, pipe, hung, killed>>

RestartTimerFires ==
  /\ restartTimer
  /\ restartTimer' = FALSE
  /\ IF active /\ ~stopping
     THEN \E c \in Children : Spawn(c)
     ELSE UNCHANGED <<child, launch, proc, pipe, expected, polled, hung, killed>>
  /\ UNCHANGED <<active, stopping, restartCount, stableTimer, startCall, stop, stopChild>>

HostHangs(c) ==
  /\ Running(c)
  /\ hung' = hung \cup {c}
  /\ UNCHANGED <<supervisorVars, launch, proc, pipe, killed>>

-----------------------------------------------------------------------------
(* stop(), called once, when the application quits.                        *)

StopCalled ==
  /\ startCall # "none"
  /\ stop = "none"
  /\ active' = FALSE
  /\ stopping' = TRUE
  /\ restartTimer' = FALSE
  /\ stableTimer' = NoChild
  /\ polled' = {}
  /\ stop' = IF child = NoChild THEN "done" ELSE "shutdown"
  /\ stopChild' = child
  /\ UNCHANGED <<restartCount, child, expected, startCall, launch, hostVars>>

(* Mutant: stop() waits for the answer, however long that takes.           *)
ShutdownIsAnswered ==
  /\ stop = "shutdown"
  /\ stopChild \notin hung
  /\ stop' = "closing"
  /\ pipe' = Closed(stopChild)
  /\ UNCHANGED <<active, stopping, restartCount, restartTimer, stableTimer, child, expected,
                 polled, startCall, stopChild, launch, proc, hung, killed>>

(* The shutdown request was answered, refused or timed out, or could not   *)
(* be sent: the client is closed.                                          *)
ShutdownEnds ==
  /\ stop = "shutdown"
  /\ stop' = "closing"
  /\ pipe' = Closed(stopChild)
  /\ UNCHANGED <<active, stopping, restartCount, restartTimer, stableTimer, child, expected,
                 polled, startCall, stopChild, launch, proc, hung, killed>>

StopTurnsToChild ==
  /\ stop = "closing"
  /\ IF child # NoChild /\ Running(child)
     THEN /\ stop' = "exiting"
          /\ stopChild' = child
          /\ expected' = expected \cup {child}
          /\ UNCHANGED child
     ELSE /\ stop' = "done"
          /\ stopChild' = NoChild
          /\ child' = NoChild
          /\ UNCHANGED expected
  /\ UNCHANGED <<active, stopping, restartCount, restartTimer, stableTimer, polled, startCall,
                 launch, hostVars>>

StopKills ==
  /\ stop = "exiting"
  /\ Running(stopChild)
  /\ stop' = "killing"
  /\ killed' = killed \cup {stopChild}
  /\ UNCHANGED <<active, stopping, restartCount, restartTimer, stableTimer, child, expected,
                 polled, startCall, stopChild, launch, proc, pipe, hung>>

StopThrows ==
  /\ stop = "killing"
  /\ Running(stopChild)
  /\ stop' = "threw"
  /\ UNCHANGED <<active, stopping, restartCount, restartTimer, stableTimer, child, expected,
                 polled, startCall, stopChild, launch, hostVars>>

ChildIsGone ==
  /\ stop \in {"exiting", "killing"}
  /\ ~Running(stopChild)
  /\ stop' = "done"
  /\ child' = IF child = stopChild THEN NoChild ELSE child
  /\ stopChild' = NoChild
  /\ UNCHANGED <<active, stopping, restartCount, restartTimer, stableTimer, expected, polled,
                 startCall, launch, hostVars>>

-----------------------------------------------------------------------------

Launches(c) == Connect(c) \/ HelloAnswered(c) \/ ConnectFails(c) \/ HelloFails(c)
                 \/ HelloContinues(c) \/ ClientClosed(c) \/ LaunchKillSucceeds(c)
                 \/ LaunchKillFails(c)

Host(c) == ProcessExits(c) \/ PipeBreaks(c) \/ HostHangs(c)

Stops == ShutdownEnds \/ StopTurnsToChild \/ StopKills \/ StopThrows \/ ChildIsGone

Next == \/ Start \/ StopCalled \/ Stops \/ RestartTimerFires \/ StableRun
        \/ \E c \in Children : Launches(c) \/ Host(c) \/ HealthCheckFails(c)

(* Timers fire and promises with a time-out settle; a process that was     *)
(* killed exits, and the pipe of one that exited closes.  Nothing obliges  *)
(* a host to exit, to hang or to answer.                                   *)
Fairness ==
  /\ WF_vars(Stops)
  /\ WF_vars(RestartTimerFires)
  /\ \A c \in Children :
       /\ WF_vars(Launches(c))
       /\ WF_vars(c \in killed /\ ProcessExits(c))
       /\ WF_vars(~Running(c) /\ PipeBreaks(c))
       /\ WF_vars((c \in hung \/ pipe[c] = "closed") /\ HealthCheckFails(c))

Spec == Init /\ [][Next]_vars /\ Fairness

-----------------------------------------------------------------------------
(* Properties.                                                             *)

(* One host lives at a time: no restart overlaps the host it replaces, so  *)
(* there are never two mouse hooks.                                        *)
AtMostOneHost == \A c, d \in Children : Running(c) /\ Running(d) => c = d

(* An active supervisor is never in limbo: it has a live host, a launch    *)
(* under way or a restart armed, whenever the host exits in the handshake. *)
Supervised ==
  active => \/ restartTimer
            \/ child # NoChild /\ Running(child)
            \/ \E c \in Children : launch[c] \in Launching

(* A supervisor that gave up leaves no host behind, except one it killed   *)
(* that has yet to exit.                                                   *)
GivenUpMeansKilled ==
  startCall # "none" /\ ~active /\ ~stopping =>
    /\ ~restartTimer
    /\ \A c \in Children : Running(c) => c \in killed

(* Once stop() has returned, no host is left and none is started.          *)
NoHostAfterStop == stop = "done" => ~restartTimer /\ \A c \in Children : ~Running(c)

(* Every launch ends, ready or failed, whatever the host does.             *)
LaunchSettles ==
  \A c \in Children : launch[c] = "connecting" ~> launch[c] \in {"ready", "failed"}

(* A ready host that hangs or loses its pipe is removed, also when the     *)
(* pipe broke before launch() listened for it.                             *)
LostHostIsRemoved ==
  \A c \in Children :
    child = c /\ Ready(c) /\ (c \in hung \/ pipe[c] = "closed") ~> child # c

(* stop() ends.                                                            *)
StopEnds == stopping ~> stop \in {"done", "threw"}

(* Restarts stop for good unless runs prove stable again and again.        *)
RestartStormEnds ==
  <>[][restartCount' >= restartCount]_vars => <>[](~restartTimer)

(* The processes and the supervisor agree, in every state: one host at a   *)
(* time, no limbo, nothing left behind after giving up or stopping.        *)
HostIsAccountedFor ==
  /\ TypeOK
  /\ AtMostOneHost
  /\ Supervised
  /\ GivenUpMeansKilled
  /\ NoHostAfterStop

(* Neither a launch nor stop() waits for ever for a host that hangs.       *)
CallsSettle == LaunchSettles /\ StopEnds

=============================================================================
