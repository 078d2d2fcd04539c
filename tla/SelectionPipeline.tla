-------------------------- MODULE SelectionPipeline --------------------------
(***************************************************************************)
(* The listening part of the selection host: the hook thread, which turns  *)
(* mouse buttons into numbered events; the queue (a FIFO: see              *)
(* BoundedSpscQueue); the pipeline's thread, which resolves a gesture to a *)
(* selection in several waits and gives up when a newer gesture has begun; *)
(* and the main thread, which starts and stops both on request.            *)
(*                                                                         *)
(* Each atomic access to what another thread writes is a step of its own:  *)
(* a generation checked before an event is sent may be old when it is.     *)
(***************************************************************************)
EXTENDS Integers, Sequences

CONSTANTS
  Capacity,       \* of the queue
  MaxGeneration   \* bound: presses of the mouse button

ASSUME PipelineAssumption == Capacity \in Nat \ {0} /\ MaxGeneration \in Nat

VARIABLES
  main, purpose,       \* the main thread's request, and why it stops listening
  hostState,
  hook, hookEvent,     \* the hook thread, and the event of its callback
  pressed,             \* the mouse button, as the user holds it
  latestGeneration,
  queue, dropped,      \* the queue and its dropped_event_count_
  running,             \* running_ of the pipeline
  pc, generation, outcome, buttonDown, observed,   \* the pipeline's thread
  sent,                \* events sent to the client
  tooLate, began       \* history, see below

mainVars == <<main, purpose, hostState>>
hookVars == <<hook, hookEvent, pressed, latestGeneration, dropped>>
localVars == <<generation, outcome, buttonDown, observed>>
history == <<tooLate, began>>
vars == <<mainVars, hookVars, queue, running, pc, localVars, sent, history>>

Generations == 0..MaxGeneration
MouseEvents == [kind : {"down", "up"}, gen : Generations]
Waits == {"settling", "uia", "capturing", "recognizing"}

TypeOK ==
  /\ main \in {"idle", "starting", "installed", "undoing", "unhooking", "joining", "exited"}
  /\ purpose \in {"stop", "shutdown", "disconnect"}
  /\ hostState \in {"stopped", "running", "shutting-down"}
  /\ hook \in {"off", "idle", "pushing"}
  /\ hookEvent \in MouseEvents
  /\ pressed \in BOOLEAN
  /\ latestGeneration \in Generations
  /\ queue \in Seq(MouseEvents) /\ Len(queue) <= Capacity
  /\ dropped \in Nat /\ observed \in 0..dropped
  /\ running \in BOOLEAN
  /\ pc \in Waits \cup {"off", "born", "top", "popping", "begin", "policy", "answering", "sending"}
  /\ generation \in Generations
  /\ outcome \in {"result", "error"}
  /\ buttonDown \in BOOLEAN
  /\ sent \in Seq([kind : {"down", "result", "error", "overflow"}, gen : Nat])
  /\ tooLate \subseteq Generations
  /\ began \in [gen : Generations, dropped : Nat, down : Generations]

Init ==
  /\ main = "idle" /\ purpose = "stop" /\ hostState = "stopped"
  /\ hook = "off" /\ hookEvent = [kind |-> "up", gen |-> 0] /\ pressed = FALSE
  /\ latestGeneration = 0
  /\ queue = <<>> /\ dropped = 0
  /\ running = FALSE
  /\ pc = "off" /\ generation = 0 /\ outcome = "error" /\ buttonDown = FALSE /\ observed = 0
  /\ sent = <<>>
  /\ tooLate = {}   \* gestures overtaken, or stopped, while the thread waited on their behalf
  /\ began = [gen |-> 0, dropped |-> 0, down |-> 0]   \* the newest start, and the press seen last

Send(kind, gen) == sent' = Append(sent, [kind |-> kind, gen |-> gen])

(* The gesture being resolved is overtaken, or stopped, while it waits.    *)
Overtake == tooLate' = IF pc \in Waits THEN tooLate \cup {generation} ELSE tooLate

-----------------------------------------------------------------------------
(* The hook thread.                                                        *)

(* Mutant: the press carries the generation before it.                     *)
HookDownStale ==
  /\ hook = "idle" /\ ~pressed
  /\ latestGeneration < MaxGeneration
  /\ latestGeneration' = latestGeneration + 1
  /\ hookEvent' = [kind |-> "down", gen |-> latestGeneration]
  /\ hook' = "pushing" /\ pressed' = TRUE
  /\ Overtake
  /\ UNCHANGED <<mainVars, dropped, queue, running, pc, localVars, sent, began>>

HookDown ==
  /\ hook = "idle" /\ ~pressed
  /\ latestGeneration < MaxGeneration
  /\ latestGeneration' = latestGeneration + 1
  /\ hookEvent' = [kind |-> "down", gen |-> latestGeneration + 1]
  /\ hook' = "pushing" /\ pressed' = TRUE
  /\ Overtake
  /\ UNCHANGED <<mainVars, dropped, queue, running, pc, localVars, sent, began>>

HookUp ==
  /\ hook = "idle" /\ pressed
  /\ hookEvent' = [kind |-> "up", gen |-> latestGeneration]
  /\ hook' = "pushing" /\ pressed' = FALSE
  /\ UNCHANGED <<mainVars, latestGeneration, dropped, queue, running, pc, localVars, sent, history>>

HookPush ==
  /\ hook = "pushing"
  /\ IF Len(queue) < Capacity
     THEN queue' = Append(queue, hookEvent) /\ UNCHANGED dropped
     ELSE dropped' = dropped + 1 /\ UNCHANGED queue
  /\ hook' = "idle"
  /\ UNCHANGED <<mainVars, hookEvent, pressed, latestGeneration, running, pc, localVars, sent, history>>

(* WM_QUIT, which waits for a callback in progress.                        *)
HookQuits ==
  /\ main = "unhooking"
  /\ hook = "idle"
  /\ hook' = "off"
  /\ UNCHANGED <<mainVars, hookEvent, pressed, latestGeneration, dropped, queue, running, pc,
                 localVars, sent, history>>

-----------------------------------------------------------------------------
(* The pipeline's thread.                                                  *)

threadLeaves == <<mainVars, hookVars, running, tooLate>>

ThreadBegins ==
  /\ pc = "born"
  /\ pc' = "top"
  /\ buttonDown' = FALSE
  /\ observed' = dropped
  /\ UNCHANGED <<threadLeaves, queue, generation, outcome, sent, began>>

ThreadEnds ==
  /\ pc = "top" /\ ~running
  /\ pc' = "off"
  /\ UNCHANGED <<threadLeaves, queue, localVars, sent, began>>

ReportOverflow ==
  /\ pc = "top" /\ running
  /\ pc' = "popping"
  /\ observed' = dropped
  /\ IF dropped > observed THEN Send("overflow", dropped) ELSE UNCHANGED sent
  /\ UNCHANGED <<threadLeaves, queue, generation, outcome, buttonDown, began>>

(* A wait of 100 ms, or a wake-up, without an event.                       *)
NothingToPop ==
  /\ pc = "popping" /\ queue = <<>>
  /\ pc' = "top"
  /\ UNCHANGED <<threadLeaves, queue, localVars, sent, began>>

Pop(kind) ==
  /\ pc = "popping" /\ queue # <<>>
  /\ Head(queue).kind = kind
  /\ queue' = Tail(queue)

(* Mutant: a press is not announced.                                       *)
LeftDownUnsent ==
  /\ Pop("down")
  /\ buttonDown' = TRUE
  /\ began' = [began EXCEPT !.down = Head(queue).gen]
  /\ pc' = "top"
  /\ UNCHANGED <<threadLeaves, generation, outcome, observed, sent>>

LeftDown ==
  /\ Pop("down")
  /\ Send("down", Head(queue).gen)
  /\ buttonDown' = TRUE
  /\ began' = [began EXCEPT !.down = Head(queue).gen]
  /\ pc' = "top"
  /\ UNCHANGED <<threadLeaves, generation, outcome, observed>>

(* A drag or a double click is a gesture; anything else is not.            *)
LeftUp ==
  /\ Pop("up")
  /\ buttonDown' = FALSE
  /\ pc' \in IF buttonDown THEN {"top", "begin"} ELSE {"top"}
  /\ generation' = Head(queue).gen
  /\ UNCHANGED <<threadLeaves, outcome, observed, sent, began>>

Cancelled == ~running \/ generation # latestGeneration

GoesTo(from, to) ==
  /\ pc = from
  /\ pc' = to
  /\ UNCHANGED <<threadLeaves, queue, generation, buttonDown, observed, sent, began>>

GoesOnUnlessCancelled(from, to) == GoesTo(from, IF Cancelled THEN "top" ELSE to)

Begin == GoesOnUnlessCancelled("begin", "policy") /\ UNCHANGED outcome

(* Secure desktop, elevated target or excluded process: refused.           *)
Policy ==
  \/ GoesTo("policy", "sending") /\ outcome' = "error"
  \/ GoesTo("policy", "settling") /\ UNCHANGED outcome

Settle == GoesOnUnlessCancelled("settling", "uia") /\ UNCHANGED outcome

(* A selection; an error that ends the search (a password field, OCR not   *)
(* allowed or not available, two monitors); or pixels are captured.        *)
Uia ==
  \/ GoesTo("uia", "answering") /\ outcome' \in {"result", "error"}
  \/ GoesTo("uia", "capturing") /\ UNCHANGED outcome

Capture ==
  \/ GoesTo("capturing", "answering") /\ outcome' = "error"
  \/ GoesOnUnlessCancelled("capturing", "sending") /\ outcome' = "error"
  \/ GoesOnUnlessCancelled("capturing", "recognizing") /\ UNCHANGED outcome

Recognize == GoesTo("recognizing", "answering") /\ outcome' \in {"result", "error"}

(* Mutant: what was found is sent although a newer gesture has begun.      *)
AnswerUnchecked == GoesTo("answering", "sending") /\ UNCHANGED outcome

Answer == GoesOnUnlessCancelled("answering", "sending") /\ UNCHANGED outcome

SendOutcome ==
  /\ pc = "sending"
  /\ Send(outcome, generation)
  /\ pc' = "top"
  /\ UNCHANGED <<threadLeaves, queue, localVars, began>>

Resolve == Begin \/ Policy \/ Settle \/ Uia \/ Capture \/ Recognize \/ Answer \/ SendOutcome

Thread == ThreadBegins \/ ThreadEnds \/ ReportOverflow \/ NothingToPop \/ LeftDown \/ LeftUp
            \/ Resolve

-----------------------------------------------------------------------------
(* The main thread.                                                        *)

mainLeaves == <<hookEvent, latestGeneration, dropped, localVars, sent>>

(* The pipeline is started before the hook.  A start that is refused, or   *)
(* that finds the host running, is answered and changes nothing.           *)
Start ==
  /\ main = "idle" /\ hostState = "stopped"
  /\ main' = "starting"
  /\ running' = TRUE
  /\ queue' = <<>>
  /\ pc' = "born"
  /\ began' = [began EXCEPT !.gen = latestGeneration, !.dropped = dropped]
  /\ UNCHANGED <<purpose, hostState, hook, pressed, tooLate, mainLeaves>>

(* The user may be holding the button.                                     *)
HookInstalled ==
  /\ main = "starting"
  /\ main' = "installed"
  /\ hook' = "idle"
  /\ pressed' \in BOOLEAN
  /\ UNCHANGED <<purpose, hostState, queue, running, pc, history, mainLeaves>>

Started ==
  /\ main = "installed"
  /\ main' = "idle"
  /\ hostState' = "running"
  /\ UNCHANGED <<purpose, hook, pressed, queue, running, pc, history, mainLeaves>>

(* Mutant: the pipeline goes on without a hook.                            *)
HookFailsOnly ==
  /\ main = "starting"
  /\ main' = "idle"
  /\ UNCHANGED <<purpose, hostState, hook, pressed, queue, running, pc, history, mainLeaves>>

HookFails ==
  /\ main = "starting"
  /\ main' = "undoing"
  /\ running' = FALSE
  /\ Overtake
  /\ UNCHANGED <<purpose, hostState, hook, pressed, queue, pc, began, mainLeaves>>

StartUndone ==
  /\ main = "undoing" /\ pc = "off"
  /\ main' = "idle"
  /\ UNCHANGED <<purpose, hostState, hook, pressed, queue, running, pc, history, mainLeaves>>

(* A request to stop or to shut down, or the client has gone.              *)
StopListening(why) ==
  /\ main = "idle"
  /\ main' = "unhooking"
  /\ purpose' = why
  /\ hostState' = IF why = "shutdown" THEN "shutting-down" ELSE hostState
  /\ UNCHANGED <<hook, pressed, queue, running, pc, history, mainLeaves>>

(* The hook thread is joined before the pipeline is told to stop.          *)
StopPipeline ==
  /\ main = "unhooking" /\ hook = "off"
  /\ main' = "joining"
  /\ running' = FALSE
  /\ Overtake
  /\ UNCHANGED <<purpose, hostState, hook, pressed, queue, pc, began, mainLeaves>>

(* Mutant: the response does not wait for the thread.                      *)
StoppedEarly ==
  /\ main = "joining"
  /\ main' = IF purpose = "stop" THEN "idle" ELSE "exited"
  /\ hostState' = IF purpose = "stop" THEN "stopped" ELSE "shutting-down"
  /\ UNCHANGED <<purpose, hook, pressed, queue, running, pc, history, mainLeaves>>

Stopped ==
  /\ main = "joining" /\ pc = "off"
  /\ main' = IF purpose = "stop" THEN "idle" ELSE "exited"
  /\ hostState' = IF purpose = "stop" THEN "stopped" ELSE "shutting-down"
  /\ UNCHANGED <<purpose, hook, pressed, queue, running, pc, history, mainLeaves>>

Requests == Start \/ \E why \in {"stop", "shutdown", "disconnect"} : StopListening(why)

MainGoesOn == HookInstalled \/ Started \/ HookFails \/ StartUndone \/ StopPipeline \/ Stopped

-----------------------------------------------------------------------------

Next == HookDown \/ HookUp \/ HookPush \/ HookQuits \/ Thread \/ Requests \/ MainGoesOn

(* Threads are scheduled, and the waits of the pipeline have time-outs.    *)
(* Nothing makes the user press a button or the client send a request.     *)
Fairness == WF_vars(HookPush) /\ WF_vars(HookQuits) /\ WF_vars(Thread) /\ WF_vars(MainGoesOn)

Spec == Init /\ [][Next]_vars /\ Fairness

-----------------------------------------------------------------------------
(* Properties.                                                             *)

(* Between requests hook and pipeline are both on, or both off: "health"   *)
(* reports listening exactly when gestures are resolved.                   *)
ListeningIsWhole ==
  main = "idle" => /\ hook # "off" <=> hostState = "running"
                   /\ pc # "off" <=> hostState = "running"

(* A gesture ends the press it began with, in this run of the listener,    *)
(* unless events were lost.                                                *)
GestureIsPaired ==
  pc = "begin" /\ dropped = began.dropped => generation = began.down /\ generation > began.gen

(* A gesture that is overtaken by a newer one, or stopped, while its text  *)
(* is being looked for has no late result.                                 *)
NoLateResult ==
  \A i \in DOMAIN sent : sent[i].kind \in {"result", "error"} => sent[i].gen \notin tooLate

(* The client sees each gesture answered at most once, in order, and no    *)
(* answer to a gesture after the press that begins a newer one.            *)
EventsAreInOrder ==
  \A i, j \in DOMAIN sent :
    i < j /\ sent[i].kind # "overflow" /\ sent[j].kind # "overflow"
      => \/ sent[i].gen < sent[j].gen
         \/ sent[i].kind = "down" /\ sent[j].kind # "down" /\ sent[i].gen = sent[j].gen

(* After the response to stop or to shutdown nothing is sent until the     *)
(* next start, and then nothing of what the user did before it.            *)
SilentAfterStop ==
  [][sent' # sent =>
       /\ main # "exited" /\ (main = "idle" => hostState = "running")
       /\ LET event == sent'[Len(sent')] IN event.kind # "overflow" => event.gen > began.gen]_vars

(* A request ends: stopping waits for threads that always come back.       *)
RequestsEnd == main \notin {"idle", "exited"} ~> main \in {"idle", "exited"}

(* An answer that was overtaken on its way is followed by the press that   *)
(* overtook it, so that the card it opens is closed again; unless          *)
(* listening stops or events are lost.                                     *)
Outdated(g) ==
  /\ began.gen < g /\ g < latestGeneration
  /\ \E i \in DOMAIN sent : sent[i] = [kind |-> "result", gen |-> g]

OutdatedResultIsFollowed ==
  \A g \in Generations :
    Outdated(g) ~> \/ \E i \in DOMAIN sent : sent[i].kind = "down" /\ sent[i].gen > g
                   \/ main # "idle" \/ hostState # "running"
                   \/ dropped > began.dropped

(* What the pipeline reads and what the client sees keep the order of what *)
(* the user did.                                                           *)
GesturesKeepOrder == TypeOK /\ GestureIsPaired /\ EventsAreInOrder

(* Neither a request to the host nor a card that an outdated answer opened *)
(* waits for ever.                                                         *)
ListenerMakesProgress == RequestsEnd /\ OutdatedResultIsFollowed

=============================================================================
