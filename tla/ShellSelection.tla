--------------------------- MODULE ShellSelection ---------------------------
(***************************************************************************)
(* ShellController and the selection host: how the switch "selection       *)
(* enabled" (the settings page and the tray may turn it at any time),      *)
(* changes of the displays, the launches of the host, its health reports   *)
(* and the reset of the local data drive the host's listening and the      *)
(* lifecycle that the user is shown.                                       *)
(*                                                                         *)
(* Commands to the host are chained on the promise selectionCommand: one   *)
(* runs at a time, and the next one begins in the microtasks that follow   *)
(* the end of the last.  Settings are written synchronously; a write that  *)
(* fails changes nothing else, so only the writes that succeed are steps.  *)
(*                                                                         *)
(* One client at a time has requests on its way: the end of the pipe of a  *)
(* lost host is seen before its successor, launched 250 ms later at the    *)
(* earliest, is ready.  A host answers in the order it was asked.          *)
(* The errors of a host that said hello are all recoverable (SendError),   *)
(* and handleHostError changes nothing for one that is.                    *)
(***************************************************************************)
EXTENDS Integers, Sequences, FiniteSetsExt

CONSTANTS
  MaxCommands,    \* bound on what users and displays do
  MaxLaunches     \* bound on the hosts launched

ASSUME BoundsAssumption == MaxCommands \in Nat /\ MaxLaunches \in Nat \ {0}

VARIABLES
  enabled, ocr, lifecycle,  \* UiShellState: snapshot.selection
  client,      \* nativeClient: the number of its launch, 0 for undefined
  chain,       \* selectionCommand: the commands not yet ended, the first runs
  host,        \* the host process: "launching", "up", "killed", "exited", "given up", "stopped"
  launches,    \* launches so far
  listening,   \* the host's mouse hook and pipeline run
  hostOcr,     \* the configuration it listens with
  requests,    \* requests on their way to the host
  replies,     \* answers and events on their way back
  card,        \* the translation card is on screen
  failed,      \* a command has failed since this host became ready
  reset,       \* the reset: "no", "chained", "stopping", "done"
  commands     \* counter of the bound

uiVars == <<enabled, ocr, lifecycle>>
pipeVars == <<requests, replies>>
hostVars == <<host, launches, listening, hostOcr>>
vars == <<uiVars, client, chain, pipeVars, hostVars, card, failed, reset, commands>>

OcrActivations == {"fallback", "alt-drag"}
Lifecycles == {"disabled", "starting", "listening", "faulted"}

(* A command: what it does, for which launch, and whether a failure makes  *)
(* the lifecycle 'faulted' (its catch) or only rejects the caller's call.  *)
Commands == [kind : {"ready", "start", "stop", "restart", "reset"},
             client : 0..MaxLaunches, faults : BOOLEAN]

(* Whose request it is: the running command's, the stop applyHealth sends  *)
(* past the chain, the supervisor's poll, or nobody's any more.            *)
Askers == {"chain", "direct", "poll", "nobody"}
Requests == [method : {"start", "stop", "health"}, by : Askers, ocr : OcrActivations]
Replies == [method : {"start", "stop", "health", "refused", "selection"},
            by : Askers \cup {"host"}, listening : BOOLEAN]

TypeOK ==
  /\ enabled \in BOOLEAN /\ ocr \in OcrActivations
  /\ lifecycle \in Lifecycles
  /\ client \in 0..MaxLaunches
  /\ chain \in Seq(Commands)
  /\ host \in {"launching", "up", "killed", "exited", "given up", "stopped"}
  /\ launches \in 0..MaxLaunches
  /\ listening \in BOOLEAN /\ hostOcr \in OcrActivations
  /\ requests \in Seq(Requests) /\ replies \in Seq(Replies)
  /\ {card, failed} \subseteq BOOLEAN
  /\ reset \in {"no", "chained", "stopping", "done"}
  /\ commands \in 0..MaxCommands

Shown(on) == IF on THEN "starting" ELSE "disabled"

(* No executable of the host is found; the lifecycle says so.              *)
NoExecutable ==
  /\ host = "stopped" /\ launches = 0
  /\ lifecycle = IF enabled THEN "faulted" ELSE "disabled"

(* start() up to startNativeHost(): the stored switch and a first launch.  *)
Init ==
  /\ enabled \in BOOLEAN /\ ocr = "fallback"
  /\ \/ host = "launching" /\ launches = 1
        /\ lifecycle = Shown(enabled)
     \/ NoExecutable
  /\ client = 0 /\ chain = <<>> /\ requests = <<>> /\ replies = <<>>
  /\ listening = FALSE /\ hostOcr = "fallback"
  /\ card = FALSE /\ failed = FALSE /\ reset = "no"
  /\ commands = 0

-----------------------------------------------------------------------------
(* The chain.  What a command finds when its turn comes decides whether it *)
(* asks the host for something or ends at once.                            *)

Asked(method, by) ==
  [method |-> method, by |-> by, ocr |-> IF method = "start" THEN ocr' ELSE "fallback"]

(* The early returns of startNativeListening, stopNativeListening,         *)
(* restartNativeListening and of the reset's command.                      *)
Asks(command) ==
  /\ client' # 0
  /\ command.kind # "restart" => client' = command.client
  /\ command.kind \notin {"stop", "reset"} => enabled'

Starts(command) == command.kind \in {"ready", "start"}

(* The chain goes on with the queue: commands that have nothing to ask end *)
(* (a ready client with the switch off shows 'disabled', a reset goes on   *)
(* to stop the host) and the first that asks does so after "sent".         *)
GoOn(queue, sent, shown) ==
  LET asking == {i \in DOMAIN queue : Asks(queue[i])}
      next == IF asking = {} THEN Len(queue) + 1 ELSE Min(asking)
      ended == {queue[i].kind : i \in 1..(next - 1)}
      first == queue[next]
  IN /\ chain' = SubSeq(queue, next, Len(queue))
     /\ requests' = IF asking = {} THEN sent
                    ELSE Append(sent, Asked(IF Starts(first) THEN "start" ELSE "stop", "chain"))
     /\ lifecycle' = IF asking # {} /\ Starts(first) THEN "starting"
                     ELSE IF "ready" \in ended /\ ~enabled' THEN "disabled"
                     ELSE shown
     /\ reset' = CASE "reset" \in ended -> "stopping"
                   [] \E i \in next..Len(queue) : queue[i].kind = "reset" -> "chained"
                   [] OTHER -> reset

(* The chain is not concerned.                                             *)
Stay(sent, shown) ==
  /\ requests' = sent
  /\ lifecycle' = shown
  /\ UNCHANGED <<chain, reset>>

Enqueue(command, shown) ==
  IF chain = <<>>
  THEN GoOn(<<command>>, requests, shown)
  ELSE /\ chain' = Append(chain, command)
       /\ lifecycle' = shown
       /\ reset' = IF command.kind = "reset" THEN "chained" ELSE reset
       /\ UNCHANGED requests

(* The running command ends with an error; its catch, if it has one, makes *)
(* the lifecycle 'faulted'.  The reset ignores the error of its stop.      *)
Fail(sent, shown) ==
  LET command == Head(chain)
  IN /\ failed' = (host' = "up")
     /\ GoOn(IF command.kind = "reset" THEN chain ELSE Tail(chain), sent,
             IF command.faults /\ (command.kind = "ready" => client' = command.client)
             THEN "faulted" ELSE shown)

-----------------------------------------------------------------------------
(* Users, tray and displays.  Each may do so at any time.                  *)

CommandTo(kind, faults) == [kind |-> kind, client |-> client, faults |-> faults]

Commanded ==
  /\ commands < MaxCommands
  /\ commands' = commands + 1
  /\ UNCHANGED <<client, replies, hostVars, failed>>

SetSelectionEnabled(value) ==
  /\ Commanded
  /\ enabled' = value
  /\ card' = (card /\ value)
  /\ UNCHANGED ocr
  /\ IF client = 0
     THEN Stay(requests, Shown(value))
     ELSE Enqueue(CommandTo(IF value THEN "start" ELSE "stop", FALSE), Shown(value))

(* Mutant: the new activation waits for the next start.                    *)
SetOcrWithoutRestart(value) ==
  /\ Commanded
  /\ ocr' = value /\ card' = FALSE
  /\ Stay(requests, lifecycle)
  /\ UNCHANGED enabled

Restart(faults) ==
  IF enabled /\ client # 0
  THEN Enqueue(CommandTo("restart", faults), lifecycle)
  ELSE Stay(requests, lifecycle)

SetOcrActivation(value) ==
  /\ Commanded
  /\ ocr' = value /\ card' = FALSE
  /\ UNCHANGED enabled
  /\ Restart(FALSE)

DisplayChanged ==
  /\ Commanded
  /\ card' = FALSE
  /\ UNCHANGED <<enabled, ocr>>
  /\ Restart(TRUE)

-----------------------------------------------------------------------------
(* What comes back from the host.                                          *)

Reply == Head(replies)
Received(method) ==
  /\ replies # <<>>
  /\ Reply.method = method /\ Reply.by # "nobody"
  /\ replies' = Tail(replies)
  /\ UNCHANGED <<enabled, ocr, hostVars, commands>>

(* Mutant: a report is believed whatever the switch says.                  *)
BelieveHealth ==
  /\ Received("health")
  /\ UNCHANGED <<client, card, failed>>
  /\ LET shown == IF Reply.listening THEN "listening" ELSE "starting"
     IN IF Reply.by = "chain" THEN GoOn(Tail(chain), requests, shown)
                              ELSE Stay(requests, shown)

(* applyHealth, of a start's own report or of the supervisor's poll: with  *)
(* the switch off, a host that listens is told to stop, past the chain.    *)
ApplyHealth ==
  /\ Received("health")
  /\ UNCHANGED <<client, card, failed>>
  /\ LET shown == CASE ~enabled -> "disabled"
                    [] enabled /\ Reply.listening -> "listening"
                    [] OTHER -> "starting"
         sent == IF ~enabled /\ Reply.listening /\ client # 0
                 THEN Append(requests, Asked("stop", "direct")) ELSE requests
     IN IF Reply.by = "chain" THEN GoOn(Tail(chain), sent, shown) ELSE Stay(sent, shown)

(* startNativeListening: the answer to start, then the host's own report.  *)
StartAnswered ==
  /\ Received("start")
  /\ UNCHANGED <<client, card, failed>>
  /\ Stay(Append(requests, Asked("health", "chain")), lifecycle)

StartRefused ==
  /\ Received("refused")
  /\ UNCHANGED <<client, card>>
  /\ Fail(requests, lifecycle)

(* The stop of the switch shows 'disabled', whatever the switch is by now. *)
StopAnswered ==
  /\ Received("stop")
  /\ Reply.by = "chain" => Head(chain).kind = "stop"
  /\ card' = FALSE
  /\ UNCHANGED <<client, failed>>
  /\ IF Reply.by = "chain" THEN GoOn(Tail(chain), requests, "disabled")
                           ELSE Stay(requests, "disabled")

(* restartNativeListening: the second half is a start of its own.          *)
RestartStopped ==
  /\ Received("stop")
  /\ Reply.by = "chain" /\ Head(chain).kind = "restart"
  /\ UNCHANGED <<client, card, failed>>
  /\ GoOn(<<CommandTo("start", Head(chain).faults)>> \o Tail(chain), requests, lifecycle)

(* Mutant: only the switch is looked at, not the reset.                    *)
SelectionDuringReset ==
  /\ Received("selection")
  /\ card' = (card \/ enabled)
  /\ UNCHANGED <<client, failed>>
  /\ Stay(requests, lifecycle)

(* handleSelection.                                                        *)
HandleSelection ==
  /\ Received("selection")
  /\ card' = (card \/ (enabled /\ reset = "no"))
  /\ UNCHANGED <<client, failed>>
  /\ Stay(requests, lifecycle)

(* handlePointerDown: a click beside the card.                             *)
HandlePointerDown ==
  /\ card
  /\ card' = FALSE
  /\ UNCHANGED <<uiVars, client, chain, pipeVars, hostVars, failed, reset,
                 commands>>

(* performClearAllLocalData: the chain has come to the reset's stop, and   *)
(* the shell gives its client up.                                          *)
ResetStopped ==
  /\ Received("stop")
  /\ Reply.by = "chain" /\ Head(chain).kind = "reset"
  /\ client' = 0
  /\ UNCHANGED <<card, failed>>
  /\ GoOn(chain, requests, lifecycle)

-----------------------------------------------------------------------------
(* The host process and the supervisor's events.                           *)

(* Health, start and stop are answered in order; a start may be refused,   *)
(* and changes nothing when the host listens already.                      *)
HostAnswers ==
  /\ host = "up" /\ requests # <<>>
  /\ requests' = Tail(requests)
  /\ LET asked == Head(requests)
         begins == asked.method = "start" /\ ~listening
     IN \E refused \in {FALSE, begins} :
          /\ listening' = CASE asked.method = "stop" -> FALSE
                            [] begins -> ~refused
                            [] OTHER -> listening
          /\ hostOcr' = IF begins /\ ~refused THEN asked.ocr
                        ELSE IF listening' THEN hostOcr ELSE "fallback"
          /\ replies' = Append(replies,
               [method |-> IF refused THEN "refused" ELSE asked.method,
                by |-> asked.by, listening |-> listening'])
  /\ UNCHANGED <<uiVars, client, chain, host, launches, card, failed, reset, commands>>

Outstanding(by) == \/ \E i \in DOMAIN requests : requests[i].by = by
                   \/ \E i \in DOMAIN replies : replies[i].by = by

(* The pipeline reports a selection; one at a time is on its way, and one  *)
(* more under a card on screen would change nothing here.                  *)
HostSelects ==
  /\ host = "up" /\ listening /\ ~card /\ ~Outstanding("host")
  /\ replies' = Append(replies, [method |-> "selection", by |-> "host", listening |-> TRUE])
  /\ UNCHANGED <<uiVars, client, chain, requests, hostVars, card, failed, reset, commands>>

(* scheduleHealthCheck: one poll at a time.                                *)
Poll ==
  /\ host = "up" /\ ~Outstanding("poll") /\ reset # "stopping"
  /\ requests' = Append(requests, [method |-> "health", by |-> "poll", ocr |-> "fallback"])
  /\ UNCHANGED <<uiVars, client, chain, replies, hostVars, card, failed, reset, commands>>

(* The running command's request times out; its answer, if it comes, is    *)
(* one nobody asked for.                                                   *)
Disown(queue) == [i \in DOMAIN queue |->
  IF queue[i].by = "chain" THEN [queue[i] EXCEPT !.by = "nobody"] ELSE queue[i]]

RequestTimesOut ==
  /\ host = "up" /\ chain # <<>>
  /\ client' = IF Head(chain).kind = "reset" THEN 0 ELSE client
  /\ replies' = Disown(replies)
  /\ UNCHANGED <<enabled, ocr, hostVars, card, commands>>
  /\ Fail(Disown(requests), lifecycle)

(* 'unhealthy' and 'restarting': the client is gone and so is the card.    *)
Lost ==
  /\ client' = 0 /\ card' = FALSE
  /\ UNCHANGED <<enabled, ocr, launches, commands>>

Closed(shown) ==
  /\ replies' = <<>>
  /\ IF chain # <<>> THEN Fail(<<>>, shown) ELSE Stay(<<>>, shown) /\ failed' = FALSE

(* The pipe breaks, or an answer nobody asked for ends the conversation:   *)
(* everything on its way is lost and the supervisor kills the host.        *)
PipeBreaks ==
  /\ host = "up" /\ reset # "stopping"
  /\ host' = "killed"
  /\ Lost
  /\ Closed(Shown(enabled))
  /\ UNCHANGED <<listening, hostOcr>>

LateAnswer == replies # <<>> /\ Reply.by = "nobody" /\ PipeBreaks

(* The poll fails or times out: the host is killed, its pipe still open.   *)
PollFails ==
  /\ host = "up" /\ Outstanding("poll") /\ reset # "stopping"
  /\ host' = "killed"
  /\ Lost
  /\ failed' = FALSE
  /\ Stay(<<>>, Shown(enabled))
  /\ UNCHANGED <<replies, listening, hostOcr>>

(* 'restarting' or, at the limit, 'fatal'.                                 *)
ProcessExits ==
  /\ host \in {"up", "killed"} /\ reset # "stopping"
  /\ client' = 0 /\ card' = FALSE
  /\ listening' = FALSE /\ hostOcr' = "fallback"
  /\ IF launches < MaxLaunches
     THEN host' = "exited" /\ Stay(<<>>, Shown(enabled))
     ELSE host' = "given up" /\ Stay(<<>>, "faulted")
  /\ failed' = FALSE
  /\ UNCHANGED <<enabled, ocr, replies, launches, commands>>

PipeCloses ==
  /\ host \in {"exited", "given up"}
  /\ replies # <<>> \/ chain # <<>>
  /\ UNCHANGED <<enabled, ocr, client, hostVars, card, commands>>
  /\ Closed(lifecycle)

Relaunch ==
  /\ host = "exited" /\ replies = <<>> /\ chain = <<>>
  /\ host' = "launching" /\ launches' = launches + 1
  /\ UNCHANGED <<uiVars, client, chain, pipeVars, listening, hostOcr, card, failed, reset,
                 commands>>

(* 'clientReady', unless the shell resets.                                 *)
ClientReady ==
  /\ host = "launching" /\ reset = "no"
  /\ host' = "up" /\ failed' = FALSE
  /\ client' = launches
  /\ UNCHANGED <<enabled, ocr, replies, launches, listening, hostOcr, card, commands>>
  /\ Enqueue([kind |-> "ready", client |-> launches, faults |-> TRUE], lifecycle)

LaunchFails ==
  /\ host = "launching" /\ reset # "stopping"
  /\ host' = "given up" /\ client' = 0 /\ card' = FALSE
  /\ Stay(requests, "faulted")
  /\ UNCHANGED <<enabled, ocr, replies, launches, listening, hostOcr, failed, commands>>

-----------------------------------------------------------------------------
(* The reset of the local data.                                            *)

(* Mutant: the reset stops the host past the chain.                        *)
ClearWithoutChain ==
  /\ reset = "no"
  /\ enabled' = FALSE /\ card' = FALSE
  /\ lifecycle' = "disabled" /\ reset' = "stopping"
  /\ UNCHANGED <<ocr, client, chain, pipeVars, hostVars, failed, commands>>

ClearAllLocalData ==
  /\ reset = "no"
  /\ enabled' = FALSE /\ card' = FALSE
  /\ UNCHANGED <<ocr, client, replies, hostVars, failed, commands>>
  /\ Enqueue(CommandTo("reset", FALSE), "disabled")

(* nativeHost.stop() has come to its end.                                  *)
HostStops ==
  /\ reset = "stopping" /\ host # "stopped"
  /\ host' = "stopped" /\ listening' = FALSE /\ hostOcr' = "fallback"
  /\ UNCHANGED <<enabled, ocr, client, launches, card, commands>>
  /\ Closed(lifecycle)

(* requestLocalDataReset: the marker, the helper and the shutdown, or an   *)
(* error after which the application goes on without a host.               *)
Schedule ==
  /\ reset = "stopping" /\ host = "stopped"
  /\ reset' \in {"done", "no"}
  /\ UNCHANGED <<uiVars, client, chain, pipeVars, hostVars, card, failed, commands>>

-----------------------------------------------------------------------------
Receive == \/ ApplyHealth \/ StartAnswered \/ StartRefused \/ StopAnswered
           \/ RestartStopped \/ ResetStopped \/ HandleSelection \/ LateAnswer

Next ==
  \/ \E value \in BOOLEAN : SetSelectionEnabled(value)
  \/ \E value \in OcrActivations : SetOcrActivation(value)
  \/ DisplayChanged \/ HandlePointerDown
  \/ ClearAllLocalData \/ Schedule
  \/ Receive
  \/ HostAnswers \/ HostSelects \/ Poll
  \/ RequestTimesOut \/ PollFails \/ PipeBreaks
  \/ ProcessExits \/ PipeCloses \/ Relaunch
  \/ ClientReady \/ LaunchFails \/ HostStops

(* The main process handles what has arrived and its timers fire.  Nothing *)
(* is assumed of the host but that it exits when killed: one that does not *)
(* answer runs into the request's timer or the poll's.                     *)
Fairness ==
  /\ WF_vars(Receive) /\ WF_vars(RequestTimesOut)
  /\ WF_vars(Poll) /\ WF_vars(PollFails)
  /\ WF_vars(host = "killed" /\ ProcessExits) /\ WF_vars(PipeCloses)
  /\ WF_vars(Relaunch) /\ WF_vars(ClientReady \/ LaunchFails)
  /\ WF_vars(HostStops) /\ WF_vars(Schedule)

Spec == Init /\ [][Next]_vars /\ Fairness

-----------------------------------------------------------------------------
(* When no command runs and nothing is on its way, the host does what the  *)
(* switch says, with the activation the settings show; unless a command to *)
(* this host failed, it also listens whenever the switch is on.            *)
QuietHostAgrees ==
  (client # 0 /\ chain = <<>> /\ requests \o replies = <<>>) =>
    /\ listening => enabled /\ hostOcr = ocr
    /\ enabled /\ ~failed => listening

(* A paused or cleared selection shows no card, whatever was on its way    *)
(* when it was paused (handleSelection, setSelectionEnabled).              *)
NoCardWhenPaused == card => enabled /\ reset = "no"

(* Once a reset gives up its client, nothing makes the host listen again,  *)
(* neither a start queued before nor a click on the tray meanwhile: only a *)
(* start that ran into its timer may still be carried out.                 *)
SilentAfterReset ==
  [][(reset \in {"stopping", "done"} /\ ~failed /\ listening') => listening]_vars

(* However commands, health reports and losses of the host overlap, the    *)
(* promises of the settings page and of the tray end, and the lifecycle    *)
(* that the page, the ball and the tray show ends up with what the host    *)
(* does (startNativeListening, applyHealth).                               *)
LifecycleSettles ==
  <>[](/\ chain = <<>>
       /\ client # 0 => lifecycle = IF ~enabled THEN "disabled"
                                    ELSE IF listening THEN "listening" ELSE "starting")

(* What a run checks in every state, besides the card.                     *)
HostAgrees == TypeOK /\ QuietHostAgrees

=============================================================================
