------------------------ MODULE TranslationController ------------------------
(***************************************************************************)
(* The TranslationController of Electron Main together with the card       *)
(* window it drives.  The reducer's effects are executed here: a request   *)
(* starts a race between the provider, an AbortSignal and a deadline, and  *)
(* its continuations (then/catch, finally) run as later callbacks, between *)
(* which the user, the native host and the settings may act.               *)
(*                                                                         *)
(* The event loop runs the continuations of a decided race before any      *)
(* other event.  The model does not rely on that: it lets every other      *)
(* action come between two callbacks, so what holds here holds for a       *)
(* provider that settles its promise in any number of further turns.       *)
(***************************************************************************)
EXTENDS TranslationSession

VARIABLES
  session,       \* TranslationController.session
  bounds,        \* currentBounds is defined
  active,        \* activeRequest.requestId, or NoRequest
  calls,         \* the requestTranslation call made for each request
  canTranslate,  \* what canTranslate(getSettings()) would answer
  cardWindow,    \* WindowManager.cardWindow with cardReady
  currentCard    \* WindowManager.currentCard

controllerVars == <<session, bounds, active, calls>>
windowVars == <<cardWindow, currentCard>>
vars == <<session, bounds, active, calls, canTranslate, cardWindow, currentCard>>

(* A call is running until its race is decided, settling until then/catch  *)
(* has run, finishing until finally has.                                   *)
Phases == {"fresh", "running", "settling", "finishing", "done"}
Outcomes == {"none", "ok", "failed", "cancelled", "timeout"}
Calls == [phase : Phases, sel : Selections \cup {NoSelection},
          timedOut : BOOLEAN, outcome : Outcomes]

FreshCall == [phase |-> "fresh", sel |-> NoSelection, timedOut |-> FALSE, outcome |-> "none"]

(* The phases and outcomes a call goes through, and what the card may show. *)
TypeOK ==
  /\ session \in Sessions
  /\ bounds \in BOOLEAN
  /\ active \in Requests \cup {NoRequest}
  /\ calls \in [Requests -> Calls]
  /\ canTranslate \in BOOLEAN
  /\ cardWindow \in {"absent", "loading", "ready"}
  /\ currentCard \in Cards

Init ==
  /\ session = NoSession
  /\ bounds = FALSE
  /\ active = NoRequest
  /\ calls = [r \in Requests |-> FreshCall]
  /\ canTranslate \in BOOLEAN
  /\ cardWindow = "absent"
  /\ currentCard = NoCard

-----------------------------------------------------------------------------
(* Executing the effects of a transition.                                  *)

(* Mutant: the abort reason is recorded as an outcome of its own.          *)
AbortWithReason(call, outcome) ==
  IF call.phase = "running" THEN [call EXCEPT !.phase = "settling", !.outcome = "aborted"]
                            ELSE call

(* Aborting the signal decides a race still open; a race already decided   *)
(* keeps its outcome.                                                      *)
Abort(call, outcome) ==
  IF call.phase = "running"
  THEN [call EXCEPT !.phase = "settling", !.outcome = outcome]
  ELSE call

StartedCall(s) == [FreshCall EXCEPT !.phase = "running", !.sel = s]

(* Mutant: a request replaces the active one without aborting it.          *)
ExecuteRequestsWithoutAbort(e, s) ==
  /\ calls' = [r \in Requests |-> IF r = e.request THEN StartedCall(s) ELSE calls[r]]
  /\ active' = IF e.request # NoRequest THEN e.request ELSE active

(* 'translation.cancel' acts only on the active request, then              *)
(* 'translation.request' replaces it.                                      *)
ExecuteRequests(e, s) ==
  LET cancels(r) == r = e.cancel /\ r = active
  IN /\ calls' = [r \in Requests |->
                    IF r = e.request THEN StartedCall(s)
                    ELSE IF cancels(r) THEN Abort(calls[r], "cancelled") ELSE calls[r]]
     /\ active' = IF e.request # NoRequest THEN e.request
                  ELSE IF cancels(active) THEN NoRequest ELSE active

(* Mutant: the card is presented before the previous one is dismissed.     *)
ExecuteCardInWrongOrder(e, hasBounds) ==
  LET presents == e.card # NoCard /\ hasBounds
  IN /\ currentCard' = IF e.hide THEN NoCard ELSE IF presents THEN e.card ELSE currentCard
     /\ cardWindow' = IF presents /\ cardWindow = "absent" THEN "loading" ELSE cardWindow

(* 'card.dismiss', then 'card.present', which is dropped without bounds.   *)
(* The first card presented creates the window.                            *)
ExecuteCard(e, hasBounds) ==
  LET presents == e.card # NoCard /\ hasBounds
  IN /\ currentCard' = IF presents THEN e.card ELSE IF e.hide THEN NoCard ELSE currentCard
     /\ cardWindow' = IF presents /\ cardWindow = "absent" THEN "loading" ELSE cardWindow

-----------------------------------------------------------------------------
(* What the user, the native host and the settings do.                     *)

FreshRequests == {r \in Requests : calls[r].phase = "fresh"}

(* A selection from the native host, with a fresh request id when online   *)
(* translation is allowed.                                                 *)
HandleSelection(s) ==
  \E r \in IF canTranslate THEN FreshRequests ELSE {NoRequest} :
    LET t == SelectionReceived(session, s, canTranslate, r)
    IN /\ session' = t.state
       /\ bounds' = TRUE
       /\ ExecuteRequests(t.effects, s)
       /\ ExecuteCard(t.effects, TRUE)
       /\ UNCHANGED canTranslate

(* The retry button of the card.                                           *)
Retry ==
  /\ session.stage = "failed"
  /\ canTranslate
  /\ \E r \in FreshRequests :
       LET t == RetryRequested(session, r)
       IN /\ session' = t.state
          /\ ExecuteRequests(t.effects, session.sel)
          /\ ExecuteCard(t.effects, bounds)
  /\ UNCHANGED <<bounds, canTranslate>>

DismissSession ==
  LET t == SessionDismissed(session)
  IN /\ session' = t.state
     /\ bounds' = FALSE
     /\ ExecuteRequests(t.effects, session.sel)
     /\ ExecuteCard(t.effects, bounds)

(* The user closes the card: the window hides it first, then notifies the  *)
(* controller.                                                             *)
UserDismiss ==
  /\ cardWindow # "absent"
  /\ LET t == SessionDismissed(session)
     IN /\ session' = t.state
        /\ bounds' = FALSE
        /\ ExecuteRequests(t.effects, session.sel)
        /\ currentCard' = NoCard
  /\ UNCHANGED <<cardWindow, canTranslate>>

(* A pointer-down outside the card, a display or language change, a native *)
(* host that goes away.                                                    *)
CancelAndHide == DismissSession /\ UNCHANGED canTranslate

EnableTranslation ==
  /\ ~canTranslate
  /\ canTranslate' = TRUE
  /\ UNCHANGED <<controllerVars, windowVars>>

(* Switching translation off, deleting the credentials, resetting the data.*)
DisableTranslation == DismissSession /\ canTranslate' = FALSE

(* The credentials turned out to be missing or unreadable: the settings    *)
(* change, the card is left alone.                                         *)
FailClosedRuntimeCredentials ==
  /\ canTranslate
  /\ canTranslate' = FALSE
  /\ UNCHANGED <<controllerVars, windowVars>>

ReadyToShow ==
  /\ cardWindow = "loading"
  /\ cardWindow' = "ready"
  /\ UNCHANGED <<controllerVars, canTranslate, currentCard>>

-----------------------------------------------------------------------------
(* The life of one requestTranslation call.                                *)

ProviderSettles(r) ==
  /\ calls[r].phase = "running"
  /\ \E outcome \in {"ok", "failed"} :
       calls' = [calls EXCEPT ![r].phase = "settling", ![r].outcome = outcome]
  /\ UNCHANGED <<session, bounds, active, canTranslate, windowVars>>

(* Mutant: the deadline is noted, but does not reject the race.            *)
DeadlineWithoutRejection(r) ==
  /\ calls[r].phase \in {"running", "settling", "finishing"}
  /\ ~calls[r].timedOut
  /\ calls' = [calls EXCEPT ![r].timedOut = TRUE]
  /\ UNCHANGED <<session, bounds, active, canTranslate, windowVars>>

(* The deadline, armed until finally clears it.                            *)
Deadline(r) ==
  /\ calls[r].phase \in {"running", "settling", "finishing"}
  /\ ~calls[r].timedOut
  /\ calls' = [calls EXCEPT ![r] = [Abort(calls[r], "timeout") EXCEPT !.timedOut = TRUE]]
  /\ UNCHANGED <<session, bounds, active, canTranslate, windowVars>>

(* catch reports a timeout whenever the deadline has fired by the time it  *)
(* runs, whatever decided the race.                                        *)
FailureCode(call) ==
  IF call.outcome = "cancelled" /\ ~call.timedOut THEN "cancelled" ELSE "failed"

(* then/catch of the race.                                                 *)
Continuation(r) ==
  /\ calls[r].phase = "settling"
  /\ LET answer == [req |-> r, sel |-> calls[r].sel, code |-> FailureCode(calls[r])]
         t == IF calls[r].outcome = "ok" THEN TranslationSucceeded(session, answer)
                                         ELSE TranslationFailed(session, answer)
     IN /\ session' = t.state
        /\ ExecuteCard(t.effects, bounds)
  /\ calls' = [calls EXCEPT ![r].phase = "finishing"]
  /\ UNCHANGED <<bounds, active, canTranslate>>

(* Mutant: finally frees the slot, whoever owns it.                        *)
FinallyFreesAnySlot(r) ==
  /\ calls[r].phase = "finishing"
  /\ calls' = [calls EXCEPT ![r].phase = "done"]
  /\ active' = NoRequest
  /\ UNCHANGED <<session, bounds, canTranslate, windowVars>>

(* finally: the slot is freed only by the call that still owns it.         *)
Finally(r) ==
  /\ calls[r].phase = "finishing"
  /\ calls' = [calls EXCEPT ![r].phase = "done"]
  /\ active' = IF active = r THEN NoRequest ELSE active
  /\ UNCHANGED <<session, bounds, canTranslate, windowVars>>

-----------------------------------------------------------------------------

User == (\E s \in Selections : HandleSelection(s)) \/ Retry \/ UserDismiss

Shell == CancelAndHide \/ EnableTranslation \/ DisableTranslation
           \/ FailClosedRuntimeCredentials

Call(r) == ProviderSettles(r) \/ Deadline(r) \/ Continuation(r) \/ Finally(r)

Next == User \/ Shell \/ ReadyToShow \/ \E r \in Requests : Call(r)

(* Timers fire and promise callbacks run; the provider may never answer,   *)
(* and the user owes nothing.                                              *)
Fairness == \A r \in Requests : WF_vars(Deadline(r) \/ Continuation(r) \/ Finally(r))

Spec == Init /\ [][Next]_vars /\ Fairness

-----------------------------------------------------------------------------
(* Properties.                                                             *)

Live(r) == calls[r].phase = "running"

(* A spinner is never orphaned: while the session translates, its request  *)
(* owns the active slot and has an outcome to come that will be accepted,  *)
(* however selections, dismissals, deadlines and answers interleave.       *)
WaitingIsServed ==
  session.stage = "translating" =>
    /\ active = session.req
    /\ calls[session.req].phase \in {"running", "settling"}
    /\ calls[session.req].outcome # "cancelled"
    /\ calls[session.req].sel = session.sel

(* A call that nobody waits for has been aborted: text is at the provider  *)
(* only for the selection on the card, so for one request at a time.       *)
NoOrphanRequest ==
  \A r \in Requests : Live(r) => session = Session("translating", calls[r].sel, r)

(* The card window holds exactly the session's view: no card survives its  *)
(* session and no stale answer replaces a newer card.                      *)
CardShowsSession == currentCard = Card(session.stage, session.sel, session.req)

(* An answer on the card is the one given to a call made for the quoted    *)
(* selection, and a translated card needs a call the provider answered.    *)
AnswerIsOfThisSelection ==
  currentCard.kind \in {"translated", "failed"} =>
    /\ calls[currentCard.req].sel = currentCard.sel
    /\ calls[currentCard.req].phase \in {"finishing", "done"}
    /\ currentCard.kind = "translated" <=> calls[currentCard.req].outcome = "ok"

(* The inductive invariant: a card always has bounds to be shown at, a      *)
(* session's fields agree with its stage, and a request once drawn is      *)
(* never drawn again.                                                      *)
SessionIsConsistent ==
  /\ session # NoSession => bounds
  /\ session.stage = "none" <=> session.sel = NoSelection
  /\ session.stage \in {"none", "source-only"} <=> session.req = NoRequest
  /\ session.req \in Requests => calls[session.req].phase # "fresh"

CallsAreConsistent ==
  \A r \in Requests :
    /\ calls[r].phase # "fresh" => calls[r].sel \in Selections
    /\ Live(r) => calls[r].outcome = "none"

Inv ==
  /\ TypeOK
  /\ SessionIsConsistent
  /\ CallsAreConsistent
  /\ WaitingIsServed
  /\ NoOrphanRequest
  /\ CardShowsSession
  /\ AnswerIsOfThisSelection

(* Every call ends and lets go of the active slot, even if the provider    *)
(* never settles its promise: a request is made once, so that in the end   *)
(* none is under way.                                                      *)
EveryCallEnds ==
  <>[](active = NoRequest /\ \A r \in Requests : calls[r].phase \in {"fresh", "done"})

(* The card behaves as the latest-wins card of the abstract specification, *)
(* its liveness included.                                                  *)
Abstract == INSTANCE LatestWinsCard WITH
  card <- currentCard,
  spent <- {r \in Requests : calls[r].phase # "fresh"}

ImplementsLatestWins == Abstract!Spec

(* Its safety part alone: every step is a step of that card or leaves it   *)
(* as it is.                                                               *)
StepsLikeLatestWins == Abstract!Init /\ [][Abstract!Next]_(Abstract!vars)

=============================================================================
