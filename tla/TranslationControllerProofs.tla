--------------------- MODULE TranslationControllerProofs ---------------------
(***************************************************************************)
(* For any sets of selections and requests: the controller keeps its       *)
(* inductive invariant, hence every safety invariant of the runs, every    *)
(* step of it is a step of the latest-wins card, and the card window and   *)
(* its page, whatever overtakes what, end up showing the current card.     *)
(***************************************************************************)
EXTENDS CardWindow, TLAPS

USE IdentityAssumption
    DEF IdentityAssumption, Stages, Phases, Outcomes, Session, Card, NoSession, NoCard, Live

-----------------------------------------------------------------------------
(* What executing effects does to the calls and to the card.               *)

(* Aborting a call decides an open race and changes nothing else.          *)
LEMMA AbortedCall ==
  ASSUME NEW call \in Calls, NEW outcome \in Outcomes
  PROVE  /\ Abort(call, outcome) \in Calls
         /\ Abort(call, outcome).sel = call.sel
         /\ Abort(call, outcome).phase # "running"
         /\ Abort(call, outcome).phase = "fresh" <=> call.phase = "fresh"
         /\ call.phase = "running" => /\ Abort(call, outcome).phase = "settling"
                                      /\ Abort(call, outcome).outcome = outcome
         /\ call.phase # "running" => Abort(call, outcome) = call
  BY DEF Abort, Calls

(* A call starts with its race open.                                       *)
LEMMA NewCall ==
  ASSUME NEW s \in Selections \cup {NoSelection}
  PROVE  /\ StartedCall(s) \in Calls
         /\ StartedCall(s).phase = "running"
         /\ StartedCall(s).sel = s
         /\ StartedCall(s).outcome = "none"
  BY DEF StartedCall, FreshCall, Calls

(* Executing effects that request nothing or a fresh request: the call of  *)
(* that request starts, the cancelled active call is aborted, no other     *)
(* call changes.                                                           *)
LEMMA RequestsExecuted ==
  ASSUME TypeOK, CallsAreConsistent,
         NEW e, e.request \in FreshRequests \cup {NoRequest},
         NEW s \in Selections \cup {NoSelection},
         e.request # NoRequest => s \in Selections,
         ExecuteRequests(e, s)
  PROVE  /\ active' \in Requests \cup {NoRequest}
         /\ calls' \in [Requests -> Calls]
         /\ \A r \in Requests :
              calls'[r] = IF r = e.request THEN StartedCall(s)
                          ELSE IF r = e.cancel /\ r = active THEN Abort(calls[r], "cancelled")
                          ELSE calls[r]
         /\ CallsAreConsistent'
<1>1. active' \in Requests \cup {NoRequest}
  BY DEF TypeOK, FreshRequests, ExecuteRequests
<1>2. calls' \in [Requests -> Calls]
  BY AbortedCall, NewCall DEF TypeOK, ExecuteRequests
<1>3. \A r \in Requests :
        calls'[r] = IF r = e.request THEN StartedCall(s)
                    ELSE IF r = e.cancel /\ r = active THEN Abort(calls[r], "cancelled")
                    ELSE calls[r]
  BY DEF ExecuteRequests
<1>4. CallsAreConsistent'
  BY <1>3, AbortedCall, NewCall DEF TypeOK, FreshRequests, CallsAreConsistent
<1>5. QED
  BY <1>1, <1>2, <1>3, <1>4

(* Executing card effects with bounds, or without a card to present.       *)
LEMMA CardExecuted ==
  ASSUME TypeOK, NEW e, NEW b \in BOOLEAN,
         e.card \in Cards, e.hide \in BOOLEAN, ExecuteCard(e, b)
  PROVE  /\ currentCard' \in Cards
         /\ cardWindow' \in {"absent", "loading", "ready"}
         /\ e.card # NoCard /\ b => currentCard' = e.card
         /\ e.card = NoCard => currentCard' = IF e.hide THEN NoCard ELSE currentCard
<1>1. cardWindow' \in {"absent", "loading", "ready"}
  BY DEF TypeOK, ExecuteCard
<1>2. NoCard \in Cards
  BY DEF Cards
<1>3. CASE e.card # NoCard /\ b
  BY <1>1, <1>3 DEF ExecuteCard
<1>4. CASE ~(e.card # NoCard /\ b)
  BY <1>1, <1>2, <1>4 DEF TypeOK, ExecuteCard
<1>5. QED
  BY <1>3, <1>4

-----------------------------------------------------------------------------
(* The inductive invariant.                                                *)

(* Before any selection there is no session, no card and no call.          *)
LEMMA InitInv == Init => Inv
<1> SUFFICES ASSUME Init PROVE Inv
  OBVIOUS
<1>1. session \in Sessions /\ currentCard \in Cards
  BY DEF Init, Sessions, Cards
<1>2. bounds \in BOOLEAN /\ canTranslate \in BOOLEAN
  BY DEF Init
<1>3. calls \in [Requests -> Calls]
  BY DEF Init, FreshCall, Calls
<1>4. TypeOK
  BY <1>1, <1>2, <1>3 DEF Init, TypeOK
<1>5. QED
  BY <1>4 DEF Init, Inv, SessionIsConsistent, CallsAreConsistent, WaitingIsServed,
              NoOrphanRequest, CardShowsSession, AnswerIsOfThisSelection, FreshCall

(* A new selection cancels the call of the old one before its own starts.  *)
LEMMA HandleSelectionInv ==
  ASSUME Inv, NEW s \in Selections, HandleSelection(s)
  PROVE  Inv'
<1> DEFINE t(r) == SelectionReceived(session, s, canTranslate, r)
<1>1. PICK r \in IF canTranslate THEN FreshRequests ELSE {NoRequest} :
        /\ session' = t(r).state
        /\ bounds' = TRUE
        /\ ExecuteRequests(t(r).effects, s)
        /\ ExecuteCard(t(r).effects, TRUE)
        /\ UNCHANGED canTranslate
  BY DEF HandleSelection
<1>2. /\ r \in FreshRequests \cup {NoRequest}
      /\ t(r).state = IF r # NoRequest THEN Session("translating", s, r)
                                       ELSE Session("source-only", s, NoRequest)
      /\ t(r).effects.request = r
      /\ t(r).effects.cancel = Cancelled(session)
      /\ t(r).effects.hide \in BOOLEAN
      /\ t(r).effects.card = Card(t(r).state.stage, s, r)
  BY DEF SelectionReceived, Goto, Effects, FreshRequests
<1> HIDE DEF t
<1>3. /\ active' \in Requests \cup {NoRequest}
      /\ calls' \in [Requests -> Calls]
      /\ \A q \in Requests :
           calls'[q] = IF q = r THEN StartedCall(s)
                       ELSE IF q = Cancelled(session) /\ q = active
                       THEN Abort(calls[q], "cancelled")
                       ELSE calls[q]
      /\ CallsAreConsistent'
  BY <1>1, <1>2, RequestsExecuted DEF Inv
<1>4. /\ session' \in Sessions
      /\ t(r).effects.card \in Cards /\ t(r).effects.card # NoCard
  BY <1>1, <1>2 DEF Sessions, Cards, FreshRequests
<1>5. /\ currentCard' = Card(session'.stage, s, r)
      /\ currentCard' \in Cards
      /\ cardWindow' \in {"absent", "loading", "ready"}
  BY <1>1, <1>2, <1>4, CardExecuted DEF Inv
<1>6. TypeOK'
  <2>1. bounds' \in BOOLEAN /\ canTranslate' \in BOOLEAN
    BY <1>1 DEF Inv, TypeOK
  <2>2. QED
    BY <2>1, <1>3, <1>4, <1>5 DEF TypeOK
<1>7. SessionIsConsistent'
  BY <1>1, <1>2, <1>3, NewCall DEF SessionIsConsistent, FreshRequests
<1>8. WaitingIsServed'
  BY <1>1, <1>2, <1>3, NewCall DEF WaitingIsServed, ExecuteRequests, FreshRequests
<1>9. NoOrphanRequest'
  <2> SUFFICES ASSUME NEW q \in Requests, Live(q)'
               PROVE  session' = Session("translating", calls'[q].sel, q)
    BY DEF NoOrphanRequest
  <2>1. CASE q = r
    BY <2>1, <1>1, <1>2, <1>3, NewCall
  <2>2. CASE q # r
    <3>1. Live(q)
      BY <2>2, <1>3, AbortedCall DEF Inv, TypeOK
    <3>2. q = active /\ q = Cancelled(session)
      BY <3>1 DEF Inv, TypeOK, NoOrphanRequest, WaitingIsServed, Cancelled
    <3>3. QED
      BY <3>2, <2>2, <1>3, AbortedCall DEF Inv, TypeOK
  <2>3. QED
    BY <2>1, <2>2
<1>10. CardShowsSession'
  BY <1>1, <1>2, <1>5 DEF CardShowsSession
<1>11. AnswerIsOfThisSelection'
  BY <1>1, <1>2, <1>5 DEF AnswerIsOfThisSelection
<1>12. QED
  BY <1>3, <1>6, <1>7, <1>8, <1>9, <1>10, <1>11 DEF Inv

(* A retry starts one call for the selection that failed.                  *)
LEMMA RetryInv ==
  ASSUME Inv, Retry
  PROVE  Inv'
<1> DEFINE t(r) == RetryRequested(session, r)
<1>1. PICK r \in FreshRequests :
        /\ session' = t(r).state
        /\ ExecuteRequests(t(r).effects, session.sel)
        /\ ExecuteCard(t(r).effects, bounds)
  BY DEF Retry
<1>2. session.sel \in Selections /\ session.req \in Requests /\ bounds /\ session.req # r
  BY DEF Retry, Inv, TypeOK, Sessions, SessionIsConsistent, FreshRequests
<1>3. /\ t(r).state = Session("translating", session.sel, r)
      /\ t(r).effects.request = r
      /\ t(r).effects.cancel = NoRequest
      /\ t(r).effects.hide = FALSE
      /\ t(r).effects.card = Card("translating", session.sel, r)
  BY <1>2 DEF Retry, RetryRequested, Goto, Effects
<1> HIDE DEF t
<1>4. /\ active' \in Requests \cup {NoRequest}
      /\ calls' \in [Requests -> Calls]
      /\ \A q \in Requests : calls'[q] = IF q = r THEN StartedCall(session.sel) ELSE calls[q]
      /\ CallsAreConsistent'
  BY <1>1, <1>2, <1>3, RequestsExecuted DEF Inv
<1>5. /\ session' \in Sessions
      /\ t(r).effects.card \in Cards /\ t(r).effects.card # NoCard
  BY <1>1, <1>2, <1>3 DEF Sessions, Cards, FreshRequests
<1>6. /\ currentCard' = Card("translating", session.sel, r)
      /\ currentCard' \in Cards
      /\ cardWindow' \in {"absent", "loading", "ready"}
  BY <1>1, <1>2, <1>3, <1>5, CardExecuted DEF Inv
<1>7. TypeOK'
  <2>1. bounds' \in BOOLEAN /\ canTranslate' \in BOOLEAN
    BY DEF Retry, Inv, TypeOK
  <2>2. QED
    BY <2>1, <1>4, <1>5, <1>6 DEF TypeOK
<1>8. SessionIsConsistent'
  BY <1>1, <1>2, <1>3, <1>4, NewCall DEF Retry, SessionIsConsistent, FreshRequests
<1>9. WaitingIsServed'
  BY <1>1, <1>2, <1>3, <1>4, NewCall DEF WaitingIsServed, ExecuteRequests, FreshRequests
<1>10. NoOrphanRequest'
  BY <1>1, <1>2, <1>3, <1>4, NewCall DEF Retry, Inv, NoOrphanRequest
<1>11. CardShowsSession'
  BY <1>1, <1>3, <1>6 DEF CardShowsSession
<1>12. AnswerIsOfThisSelection'
  BY <1>6 DEF AnswerIsOfThisSelection
<1>13. QED
  BY <1>4, <1>7, <1>8, <1>9, <1>10, <1>11, <1>12 DEF Inv

(* Both ways of dismissing: by the user, and by the shell.                 *)
LEMMA DismissInv ==
  ASSUME Inv,
         session' = NoSession, bounds' = FALSE,
         ExecuteRequests(SessionDismissed(session).effects, session.sel),
         currentCard' = NoCard,
         cardWindow' \in {"absent", "loading", "ready"},
         canTranslate' \in BOOLEAN
  PROVE  Inv'
<1>1. /\ SessionDismissed(session).effects.request = NoRequest
      /\ SessionDismissed(session).effects.cancel = Cancelled(session)
  BY DEF SessionDismissed, Goto, Effects
<1>2. session.sel \in Selections \cup {NoSelection}
  BY DEF Inv, TypeOK, Sessions
<1>3. /\ active' \in Requests \cup {NoRequest}
      /\ calls' \in [Requests -> Calls]
      /\ \A q \in Requests :
           calls'[q] = IF q = Cancelled(session) /\ q = active
                       THEN Abort(calls[q], "cancelled")
                       ELSE calls[q]
      /\ CallsAreConsistent'
  BY <1>1, <1>2, RequestsExecuted DEF Inv
<1>4. TypeOK'
  BY <1>3 DEF TypeOK, Sessions, Cards
<1>5. NoOrphanRequest'
  <2> SUFFICES ASSUME NEW q \in Requests, Live(q)'
               PROVE  FALSE
    BY DEF NoOrphanRequest
  <2>1. Live(q)
    BY <1>3, AbortedCall DEF Inv, TypeOK
  <2>2. q = active /\ q = Cancelled(session)
    BY <2>1 DEF Inv, TypeOK, NoOrphanRequest, WaitingIsServed, Cancelled
  <2>3. QED
    BY <2>2, <1>3, AbortedCall DEF Inv, TypeOK
<1>6. SessionIsConsistent' /\ WaitingIsServed' /\ CardShowsSession' /\ AnswerIsOfThisSelection'
  BY DEF SessionIsConsistent, WaitingIsServed, CardShowsSession, AnswerIsOfThisSelection
<1>7. QED
  BY <1>3, <1>4, <1>5, <1>6 DEF Inv

(* Closing the card window ends the session like any other dismissal.      *)
LEMMA UserDismissInv ==
  ASSUME Inv, UserDismiss
  PROVE  Inv'
<1>1. session' = NoSession
  BY DEF UserDismiss, SessionDismissed, Goto
<1>2. QED
  BY <1>1, DismissInv DEF UserDismiss, Inv, TypeOK

(* The session holds a card exactly when the window does, so dismissing    *)
(* the session always empties the window.                                  *)
LEMMA DismissSessionInv ==
  ASSUME Inv, DismissSession, canTranslate' \in BOOLEAN
  PROVE  Inv' /\ currentCard' = NoCard
<1>1. /\ session' = NoSession
      /\ bounds' = FALSE
      /\ ExecuteRequests(SessionDismissed(session).effects, session.sel)
      /\ ExecuteCard(SessionDismissed(session).effects, bounds)
  BY DEF DismissSession, SessionDismissed, Goto
<1>2. /\ SessionDismissed(session).effects.card = NoCard
      /\ SessionDismissed(session).effects.hide = (session # NoSession)
  BY DEF SessionDismissed, Goto, Effects
<1>3. NoCard \in Cards
  BY DEF Cards
<1>4. /\ cardWindow' \in {"absent", "loading", "ready"}
      /\ currentCard' = IF session # NoSession THEN NoCard ELSE currentCard
  BY <1>1, <1>2, <1>3, CardExecuted DEF Inv, TypeOK
<1>5. currentCard' = NoCard
  BY <1>4 DEF Inv, CardShowsSession
<1>6. QED
  BY <1>1, <1>4, <1>5, DismissInv

(* Settings and the window getting ready touch no session and no call.     *)
LEMMA SettingsInv ==
  ASSUME Inv, EnableTranslation \/ FailClosedRuntimeCredentials \/ ReadyToShow
  PROVE  Inv'
<1>1. UNCHANGED <<controllerVars, currentCard>>
  BY DEF EnableTranslation, FailClosedRuntimeCredentials, ReadyToShow, windowVars
<1>2. canTranslate' \in BOOLEAN /\ cardWindow' \in {"absent", "loading", "ready"}
  BY DEF EnableTranslation, FailClosedRuntimeCredentials, ReadyToShow, windowVars, Inv, TypeOK
<1>3. QED
  BY <1>1, <1>2 DEF controllerVars, Inv, TypeOK, SessionIsConsistent, CallsAreConsistent,
       WaitingIsServed, NoOrphanRequest, CardShowsSession, AnswerIsOfThisSelection

(* A race decided by the provider or by the deadline leaves everything but *)
(* that call alone.                                                        *)
LEMMA DecisionInv ==
  ASSUME Inv, NEW r \in Requests, ProviderSettles(r) \/ Deadline(r)
  PROVE  Inv'
<1>1. UNCHANGED <<session, bounds, active, canTranslate, cardWindow, currentCard>>
  BY DEF ProviderSettles, Deadline, windowVars
<1>2. PICK call \in Calls :
        /\ calls' = [calls EXCEPT ![r] = call]
        /\ call.sel = calls[r].sel
        /\ call.phase # "running" /\ call.phase # "fresh" /\ calls[r].phase # "fresh"
        /\ calls[r].phase = "running" => call.phase = "settling" /\ call.outcome # "cancelled"
        /\ calls[r].phase # "running" =>
             call.phase = calls[r].phase /\ call.outcome = calls[r].outcome
  <2>1. CASE ProviderSettles(r)
    <3>1. PICK outcome \in {"ok", "failed"} :
            calls' = [calls EXCEPT ![r].phase = "settling", ![r].outcome = outcome]
      BY <2>1 DEF ProviderSettles
    <3>2. [calls[r] EXCEPT !.phase = "settling", !.outcome = outcome] \in Calls
      BY DEF Inv, TypeOK, Calls
    <3>3. QED
      BY <2>1, <3>1, <3>2 DEF ProviderSettles, Inv, TypeOK, Calls
  <2>2. CASE Deadline(r)
    <3> DEFINE aborted == Abort(calls[r], "timeout")
    <3>1. /\ aborted \in Calls
          /\ aborted.sel = calls[r].sel
          /\ calls[r].phase = "running" => aborted.phase = "settling" /\ aborted.outcome = "timeout"
          /\ calls[r].phase # "running" => aborted = calls[r]
      BY AbortedCall DEF Inv, TypeOK
    <3> HIDE DEF aborted
    <3>2. [aborted EXCEPT !.timedOut = TRUE] \in Calls
      BY <3>1 DEF Calls
    <3>3. calls' = [calls EXCEPT ![r] = [aborted EXCEPT !.timedOut = TRUE]]
      BY <2>2 DEF Deadline, aborted
    <3>4. QED
      BY <2>2, <3>1, <3>2, <3>3 DEF Deadline, Calls
  <2>3. QED
    BY <2>1, <2>2
<1>3. TypeOK'
  BY <1>1, <1>2 DEF Inv, TypeOK
<1>4. SessionIsConsistent' /\ CallsAreConsistent'
  BY <1>1, <1>2 DEF Inv, TypeOK, SessionIsConsistent, CallsAreConsistent
<1>5. WaitingIsServed' /\ NoOrphanRequest' /\ CardShowsSession'
  BY <1>1, <1>2 DEF Inv, TypeOK, WaitingIsServed, NoOrphanRequest, CardShowsSession
<1>6. AnswerIsOfThisSelection'
  BY <1>1, <1>2 DEF Inv, TypeOK, AnswerIsOfThisSelection
<1>7. QED
  BY <1>3, <1>4, <1>5, <1>6 DEF Inv

(* then/catch: only an awaited answer changes the session, and with it the *)
(* card.                                                                   *)
LEMMA ContinuationInv ==
  ASSUME Inv, NEW r \in Requests, Continuation(r)
  PROVE  Inv'
<1> DEFINE answer == [req |-> r, sel |-> calls[r].sel, code |-> FailureCode(calls[r])]
           ok == calls[r].outcome = "ok"
           t == IF ok THEN TranslationSucceeded(session, answer)
                ELSE TranslationFailed(session, answer)
<1>1. /\ calls[r].phase = "settling"
      /\ session' = t.state
      /\ ExecuteCard(t.effects, bounds)
      /\ calls' = [calls EXCEPT ![r].phase = "finishing"]
      /\ UNCHANGED <<bounds, active, canTranslate>>
  BY DEF Continuation
<1>2. /\ calls' \in [Requests -> Calls]
      /\ calls'[r].phase = "finishing"
      /\ calls'[r].sel = calls[r].sel
      /\ calls'[r].outcome = calls[r].outcome
      /\ \A q \in Requests \ {r} : calls'[q] = calls[q]
  BY <1>1 DEF Inv, TypeOK, Calls
<1>3. CallsAreConsistent'
  BY <1>1, <1>2 DEF Inv, CallsAreConsistent
<1>4. NoOrphanRequest' \/ ~UNCHANGED session
  BY <1>1, <1>2 DEF Inv, NoOrphanRequest
<1>5. CASE ~Awaited(session, answer)
  <2>1. t.state = session /\ t.effects = NoEffects
    BY <1>5 DEF TranslationSucceeded, TranslationFailed, Goto
  <2>2. UNCHANGED <<session, currentCard, cardWindow>>
    BY <1>1, <2>1 DEF ExecuteCard, NoEffects, Effects
  <2>3. session.stage = "translating" => session.req # r
    BY <1>5 DEF Awaited, Inv, WaitingIsServed
  <2>4. TypeOK'
    BY <1>1, <1>2, <2>2 DEF Inv, TypeOK
  <2>5. SessionIsConsistent' /\ WaitingIsServed' /\ CardShowsSession'
    <3>1. CardShowsSession'
      BY <2>2 DEF Inv, CardShowsSession
    <3>2. SessionIsConsistent'
      BY <1>1, <1>2, <2>2 DEF Inv, SessionIsConsistent
    <3>3. WaitingIsServed'
      BY <1>1, <1>2, <2>2, <2>3 DEF Inv, TypeOK, SessionIsConsistent, Sessions, WaitingIsServed
    <3>4. QED
      BY <3>1, <3>2, <3>3
  <2>6. AnswerIsOfThisSelection'
    BY <1>1, <1>2, <2>2 DEF Inv, AnswerIsOfThisSelection
  <2>7. QED
    BY <1>3, <1>4, <2>2, <2>4, <2>5, <2>6 DEF Inv
<1>6. CASE Awaited(session, answer)
  <2>1. /\ session = Session("translating", calls[r].sel, r)
        /\ calls[r].sel \in Selections
        /\ calls[r].outcome # "cancelled"
        /\ bounds
    BY <1>1, <1>6 DEF Awaited, Inv, TypeOK, Sessions, WaitingIsServed, CallsAreConsistent,
                      SessionIsConsistent
  <2> DEFINE stage == IF ok THEN "translated" ELSE "failed"
  <2>2. /\ t.state = Session(stage, calls[r].sel, r)
        /\ t.effects.card = Card(stage, calls[r].sel, r)
        /\ t.effects.hide = FALSE
    BY <1>6, <2>1 DEF TranslationSucceeded, TranslationFailed, Goto, Effects, FailureCode
  <2> HIDE DEF t
  <2>3. /\ t.effects.card \in Cards /\ t.effects.card # NoCard
        /\ session' \in Sessions
    BY <1>1, <2>1, <2>2 DEF Cards, Sessions
  <2>4. /\ currentCard' = Card(stage, calls[r].sel, r)
        /\ currentCard' \in Cards
        /\ cardWindow' \in {"absent", "loading", "ready"}
    BY <1>1, <2>1, <2>2, <2>3, CardExecuted DEF Inv
  <2>5. TypeOK'
    BY <1>1, <1>2, <2>3, <2>4 DEF Inv, TypeOK
  <2>6. SessionIsConsistent' /\ WaitingIsServed' /\ CardShowsSession'
    BY <1>1, <1>2, <2>1, <2>2, <2>4 DEF SessionIsConsistent, WaitingIsServed, CardShowsSession
  <2>7. NoOrphanRequest'
    <3> SUFFICES ASSUME NEW q \in Requests, Live(q)' PROVE FALSE
      BY DEF NoOrphanRequest
    <3>1. q # r /\ Live(q)
      BY <1>2
    <3>2. QED
      BY <2>1, <3>1 DEF Inv, NoOrphanRequest
  <2>8. AnswerIsOfThisSelection'
    BY <1>2, <2>4 DEF AnswerIsOfThisSelection
  <2>9. QED
    BY <1>3, <2>5, <2>6, <2>7, <2>8 DEF Inv
<1>7. QED
  BY <1>5, <1>6

(* finally frees the slot of a call nobody waits for any more.             *)
LEMMA FinallyInv ==
  ASSUME Inv, NEW r \in Requests, Finally(r)
  PROVE  Inv'
<1>1. /\ calls[r].phase = "finishing"
      /\ calls' = [calls EXCEPT ![r].phase = "done"]
      /\ active' = IF active = r THEN NoRequest ELSE active
      /\ UNCHANGED <<session, bounds, canTranslate, currentCard, cardWindow>>
  BY DEF Finally, windowVars
<1>2. /\ calls' \in [Requests -> Calls]
      /\ calls'[r].phase = "done"
      /\ calls'[r].sel = calls[r].sel
      /\ calls'[r].outcome = calls[r].outcome
      /\ \A q \in Requests \ {r} : calls'[q] = calls[q]
  BY <1>1 DEF Inv, TypeOK, Calls
<1>3. TypeOK'
  BY <1>1, <1>2 DEF Inv, TypeOK
<1>4. SessionIsConsistent' /\ CallsAreConsistent' /\ NoOrphanRequest' /\ CardShowsSession'
  BY <1>1, <1>2 DEF Inv, TypeOK, SessionIsConsistent, CallsAreConsistent, NoOrphanRequest,
                    CardShowsSession
<1>5. WaitingIsServed'
  BY <1>1, <1>2 DEF Inv, TypeOK, Sessions, SessionIsConsistent, WaitingIsServed
<1>6. AnswerIsOfThisSelection'
  BY <1>1, <1>2 DEF Inv, TypeOK, AnswerIsOfThisSelection
<1>7. QED
  BY <1>3, <1>4, <1>5, <1>6 DEF Inv

(* Every step of the controller keeps the invariant.                       *)
LEMMA StepInv == Inv /\ [Next]_vars => Inv'
<1> SUFFICES ASSUME Inv, [Next]_vars PROVE Inv'
  OBVIOUS
<1>1. CASE User
  BY <1>1, HandleSelectionInv, RetryInv, UserDismissInv DEF User
<1>2. CASE Shell
  <2>1. CASE CancelAndHide
    BY <2>1, DismissSessionInv DEF CancelAndHide, Inv, TypeOK
  <2>2. CASE DisableTranslation
    BY <2>2, DismissSessionInv DEF DisableTranslation
  <2>3. QED
    BY <1>2, <2>1, <2>2, SettingsInv DEF Shell
<1>3. CASE ReadyToShow
  BY <1>3, SettingsInv
<1>4. ASSUME NEW r \in Requests, Call(r) PROVE Inv'
  BY <1>4, DecisionInv, ContinuationInv, FinallyInv DEF Call
<1>5. CASE UNCHANGED vars
  BY <1>5 DEF vars, Inv, TypeOK, SessionIsConsistent, CallsAreConsistent, WaitingIsServed,
              NoOrphanRequest, CardShowsSession, AnswerIsOfThisSelection
<1>6. QED
  BY <1>1, <1>2, <1>3, <1>4, <1>5 DEF Next

(* The inductive invariant holds of every behaviour: the state is well     *)
(* typed, no spinner is orphaned, no call runs unwatched, and the card     *)
(* window always agrees with the session.                                  *)
THEOREM Invariance == Spec => []Inv
  BY InitInv, StepInv, PTL DEF Spec

(* Types are respected, in every instance.                                 *)
THEOREM TypeCorrect == Spec => []TypeOK
<1>1. Inv => TypeOK
  BY DEF Inv
<1>2. QED
  BY Invariance, <1>1, PTL

(* A spinner is never orphaned: while the session translates, its call     *)
(* holds the active slot and has yet to give it an answer.                 *)
THEOREM WaitingIsServedAlways == Spec => []WaitingIsServed
<1>1. Inv => WaitingIsServed
  BY DEF Inv
<1>2. QED
  BY Invariance, <1>1, PTL

(* The card window always holds the view of the controller's session.      *)
THEOREM CardShowsSessionAlways == Spec => []CardShowsSession
<1>1. Inv => CardShowsSession
  BY DEF Inv
<1>2. QED
  BY Invariance, <1>1, PTL

(* The translation a card shows is always the answer to a call made for    *)
(* the selection it quotes, for any number of selections and requests.     *)
THEOREM AnswerIsOfThisSelectionAlways == Spec => []AnswerIsOfThisSelection
<1>1. Inv => AnswerIsOfThisSelection
  BY DEF Inv
<1>2. QED
  BY Invariance, <1>1, PTL

(* At most one call is running, and it is for the selection on the card:   *)
(* replacing or dismissing a card never leaves text at the provider.       *)
THEOREM NoOrphanRequestAlways == Spec => []NoOrphanRequest
<1>1. Inv => NoOrphanRequest
  BY DEF Inv
<1>2. QED
  BY Invariance, <1>1, PTL

-----------------------------------------------------------------------------
(* Refinement: every step of the controller is a step of the latest-wins   *)
(* card, or leaves that card as it is.                                     *)

USE DEF Abstract!Card, Abstract!NoCard

(* Both start without a card and without an attempt.                       *)
LEMMA InitRefines == Init => Abstract!Init
  BY DEF Init, Abstract!Init, FreshCall

(* A selection puts its own card in place of any other.                    *)
LEMMA SelectionRefines ==
  ASSUME Inv, NEW s \in Selections, HandleSelection(s)
  PROVE  Abstract!Next
<1> DEFINE t(r) == SelectionReceived(session, s, canTranslate, r)
<1>1. PICK r \in IF canTranslate THEN FreshRequests ELSE {NoRequest} :
        /\ ExecuteRequests(t(r).effects, s)
        /\ ExecuteCard(t(r).effects, TRUE)
  BY DEF HandleSelection
<1>2. /\ t(r).effects.request = r
      /\ t(r).effects.card = IF r # NoRequest THEN Card("translating", s, r)
                                              ELSE Card("source-only", s, NoRequest)
  BY DEF SelectionReceived, Goto, Effects, FreshRequests
<1> HIDE DEF t
<1>3. currentCard' = t(r).effects.card
  BY <1>1, <1>2 DEF ExecuteCard
<1>4. \A q \in Requests :
        calls'[q].phase # "fresh" <=> q = r \/ calls[q].phase # "fresh"
  BY <1>1, <1>2, RequestsExecuted, AbortedCall, NewCall DEF Inv, TypeOK, FreshRequests
<1>5. CASE r = NoRequest
  <2>1. Abstract!SelectLocally(s)
    BY <1>2, <1>3, <1>4, <1>5 DEF Abstract!SelectLocally
  <2>2. QED
    BY <2>1 DEF Abstract!Next
<1>6. CASE r # NoRequest
  <2>1. r \in Requests /\ calls[r].phase = "fresh"
    BY <1>6 DEF FreshRequests
  <2>2. Abstract!SelectAndTranslate(s, r)
    BY <1>2, <1>3, <1>4, <1>6, <2>1 DEF Abstract!SelectAndTranslate
  <2>3. QED
    BY <2>1, <2>2 DEF Abstract!Next
<1>7. QED
  BY <1>5, <1>6

(* A retry is a new attempt for the selection of the failed card.          *)
LEMMA RetryRefines ==
  ASSUME Inv, Retry
  PROVE  Abstract!Next
<1>1. PICK r \in FreshRequests :
        /\ ExecuteRequests(RetryRequested(session, r).effects, session.sel)
        /\ ExecuteCard(RetryRequested(session, r).effects, bounds)
  BY DEF Retry
<1>2. session.sel \in Selections /\ bounds /\ session.req # r /\ currentCard.kind = "failed"
  BY DEF Retry, Inv, TypeOK, Sessions, SessionIsConsistent, FreshRequests, CardShowsSession
<1> DEFINE e == RetryRequested(session, r).effects
<1>3. e.request = r /\ e.card = Card("translating", session.sel, r)
  BY <1>2 DEF Retry, RetryRequested, Goto, Effects
<1> HIDE DEF e
<1>4. currentCard' = Card("translating", currentCard.sel, r)
  BY <1>1, <1>2, <1>3 DEF e, ExecuteCard, Inv, CardShowsSession
<1>5. \A q \in Requests :
        calls'[q].phase # "fresh" <=> q = r \/ calls[q].phase # "fresh"
  BY <1>1, <1>2, <1>3, RequestsExecuted, AbortedCall, NewCall DEF e, Inv, TypeOK, FreshRequests
<1>6. r \in Requests /\ Abstract!Retry(r)
  BY <1>2, <1>4, <1>5 DEF Abstract!Retry, FreshRequests
<1>7. QED
  BY <1>6 DEF Abstract!Next

(* A dismissal, by the user or by the shell, empties the card.             *)
LEMMA DismissRefines ==
  ASSUME Inv, UserDismiss \/ DismissSession, canTranslate' \in BOOLEAN
  PROVE  Abstract!Next
<1>1. currentCard' = NoCard
  BY DismissSessionInv DEF UserDismiss
<1>2. ExecuteRequests(SessionDismissed(session).effects, session.sel)
  BY DEF UserDismiss, DismissSession
<1>3. SessionDismissed(session).effects.request = NoRequest
  BY DEF SessionDismissed, Goto, Effects
<1>4. session.sel \in Selections \cup {NoSelection}
  BY DEF Inv, TypeOK, Sessions
<1>5. \A q \in Requests : calls'[q].phase # "fresh" <=> calls[q].phase # "fresh"
  BY <1>2, <1>3, <1>4, RequestsExecuted, AbortedCall DEF Inv, TypeOK
<1>6. Abstract!Dismiss
  BY <1>1, <1>5 DEF Abstract!Dismiss
<1>7. QED
  BY <1>6 DEF Abstract!Next

(* A continuation answers the attempt on the card or leaves the card alone. *)
LEMMA ContinuationRefines ==
  ASSUME Inv, NEW r \in Requests, Continuation(r)
  PROVE  [Abstract!Next]_(Abstract!vars)
<1>1. \A q \in Requests : calls'[q].phase # "fresh" <=> calls[q].phase # "fresh"
  BY DEF Continuation, Inv, TypeOK, Calls
<1>2. Inv'
  BY ContinuationInv
<1>3. CASE UNCHANGED session
  <2>1. UNCHANGED currentCard
    BY <1>2, <1>3 DEF Inv, CardShowsSession
  <2>2. QED
    BY <1>1, <2>1 DEF Abstract!vars
<1>4. CASE ~UNCHANGED session
  <2>1. /\ session.stage = "translating"
        /\ session' \in {Session("translated", session.sel, session.req),
                         Session("failed", session.sel, session.req)}
    BY <1>4 DEF Continuation, TranslationSucceeded, TranslationFailed, Goto, Awaited,
                Inv, WaitingIsServed, FailureCode
  <2>2. /\ currentCard = Card("translating", session.sel, session.req)
        /\ currentCard' \in {Card("translated", session.sel, session.req),
                             Card("failed", session.sel, session.req)}
    BY <1>2, <2>1 DEF Inv, CardShowsSession
  <2>3. Abstract!Answer
    BY <1>1, <2>2 DEF Abstract!Answer
  <2>4. QED
    BY <2>3 DEF Abstract!Next
<1>5. QED
  BY <1>3, <1>4

(* Settling, timing out and finally are invisible to the card.             *)
LEMMA CallStepRefines ==
  ASSUME Inv, NEW r \in Requests, ProviderSettles(r) \/ Deadline(r) \/ Finally(r)
  PROVE  UNCHANGED Abstract!vars
<1>1. UNCHANGED currentCard
  BY DEF ProviderSettles, Deadline, Finally, windowVars
<1>2. \A q \in Requests : calls'[q].phase # "fresh" <=> calls[q].phase # "fresh"
  <2>1. CASE Deadline(r)
    BY <2>1, AbortedCall DEF Deadline, Inv, TypeOK, Calls
  <2>2. CASE ProviderSettles(r) \/ Finally(r)
    BY <2>2 DEF ProviderSettles, Finally, Inv, TypeOK, Calls
  <2>3. QED
    BY <2>1, <2>2
<1>3. QED
  BY <1>1, <1>2 DEF Abstract!vars

(* Every step is a step of the latest-wins card or a stutter.              *)
LEMMA StepRefines == Inv /\ [Next]_vars => [Abstract!Next]_(Abstract!vars)
<1> SUFFICES ASSUME Inv, [Next]_vars PROVE [Abstract!Next]_(Abstract!vars)
  OBVIOUS
<1>1. CASE User
  BY <1>1, SelectionRefines, RetryRefines, DismissRefines DEF User, UserDismiss, Inv, TypeOK
<1>2. CASE CancelAndHide \/ DisableTranslation
  BY <1>2, DismissRefines DEF CancelAndHide, DisableTranslation, Inv, TypeOK
<1>3. CASE EnableTranslation \/ FailClosedRuntimeCredentials \/ ReadyToShow
  BY <1>3 DEF Abstract!vars, EnableTranslation, FailClosedRuntimeCredentials, ReadyToShow,
              controllerVars, windowVars
<1>4. ASSUME NEW r \in Requests, Call(r) PROVE [Abstract!Next]_(Abstract!vars)
  BY <1>4, ContinuationRefines, CallStepRefines DEF Call
<1>5. CASE UNCHANGED vars
  BY <1>5 DEF vars, Abstract!vars
<1>6. QED
  BY <1>1, <1>2, <1>3, <1>4, <1>5 DEF Next, Shell

(* The controller with its asynchronous calls implements the safety part   *)
(* of the latest-wins card.                                                *)
THEOREM StepsLikeLatestWinsAlways == Spec => StepsLikeLatestWins
  BY InitRefines, Invariance, StepRefines, PTL DEF Spec, StepsLikeLatestWins

-----------------------------------------------------------------------------
(* The card window and its page, which follow the controller's card.       *)

(* The window is on the screen while there is a card and it is ready.      *)
ShownWhileReady == visible <=> cardWindow = "ready" /\ currentCard # NoCard

(* A page whose script does not run yet has heard nothing.                 *)
BlankHasNothing ==
  page.phase = "blank" => ~page.heard /\ \A m \in Messages : about[m] = "nothing"

(* Under a visible window, what is on its way to the page is the current   *)
(* card; and so is what the page shows, or will once its own question has  *)
(* been answered, when nothing is on its way.                              *)
PageFollows ==
  visible =>
    /\ about["sent"] \in {"nothing", "current"}
    /\ about["sent"] = "nothing" =>
         /\ page.phase = "open" => about["shown"] = "current"
         /\ page.phase \in {"asking", "answered"} /\ page.heard => about["shown"] = "current"
         /\ page.phase = "answered" /\ ~page.heard => about["answer"] = "current"

CardInv ==
  /\ Inv
  /\ CardTypeOK
  /\ ShownWhileReady
  /\ BlankHasNothing
  /\ PageFollows

(* A step of the page leaves the controller alone.                         *)
LEMMA PageSteps ==
  ASSUME GetCurrentSelectionCard \/ CardAppStarts \/ OnChanged \/ ReceiveCurrent
  PROVE  UNCHANGED vars /\ visible' = visible
BY DEF GetCurrentSelectionCard, CardAppStarts, OnChanged, ReceiveCurrent

(* The controller takes its own steps, whoever pressed what; a window that *)
(* is ready stays so.                                                      *)
LEMMA ControllerSteps ==
  ASSUME Controller
  PROVE  /\ User \/ Shell \/ \E r \in Requests : Call(r)
         /\ cardWindow' = "ready" <=> cardWindow = "ready"
<1>1. User \/ Shell \/ \E r \in Requests : Call(r)
  BY DEF Controller, HandleDismiss, HandleRetry, User
<1>2. cardWindow' = "ready" <=> cardWindow = "ready"
  BY <1>1 DEF User, HandleSelection, Retry, UserDismiss, Shell, CancelAndHide, EnableTranslation,
     DisableTranslation, FailClosedRuntimeCredentials, DismissSession, Call, ProviderSettles,
     Deadline, Continuation, Finally, ExecuteCard, windowVars
<1>3. QED
  BY <1>1, <1>2

LEMMA CardNextIsNext ==
  ASSUME [CardNext]_<<vars, cardVars>>
  PROVE  [Next]_vars
BY PageSteps, ControllerSteps DEF CardNext, ShowCardWindow, Next, cardVars

(* What the controller presents is what the page takes for a card.         *)
LEMMA CardsAreSelectionCards ==
  /\ Inv => IsOptionalCard(currentCard)
  /\ Inv' => IsOptionalCard(currentCard')
BY DEF Inv, TypeOK, Sessions, SessionIsConsistent, CardShowsSession, IsOptionalCard,
   IsSelectionCardViewModel

(* A message about the current card: to a page that listens.               *)
LEMMA PublishedAsCurrent ==
  ASSUME CardTypeOK, NEW messages \in [Messages -> {"nothing", "current", "past"}], NEW card
  PROVE  /\ Published(messages, card) \in [Messages -> {"nothing", "current", "past"}]
         /\ page.phase = "blank" => Published(messages, card) = messages
         /\ page.phase # "blank" /\ IsOptionalCard(card) =>
              Published(messages, card)["sent"] = "current"
BY DEF Published, Messages

LEMMA OutdatedMessages ==
  ASSUME CardTypeOK
  PROVE  /\ Outdated \in [Messages -> {"nothing", "current", "past"}]
         /\ \A m \in Messages : about[m] = "nothing" => Outdated[m] = "nothing"
BY DEF Outdated, CardTypeOK

LEMMA WindowFollowsInv ==
  ASSUME CardInv, Inv', Controller, WindowFollows, UNCHANGED page
  PROVE  CardInv'
<1>1. /\ CardTypeOK /\ ShownWhileReady /\ BlankHasNothing /\ PageFollows
      /\ cardWindow' = "ready" <=> cardWindow = "ready"
  BY ControllerSteps DEF CardInv
<1>2. IsOptionalCard(currentCard')
  BY CardsAreSelectionCards
<1>3. CASE currentCard' = currentCard
  BY <1>1, <1>3 DEF CardInv, WindowFollows, CardTypeOK, ShownWhileReady, BlankHasNothing, PageFollows
<1>4. CASE currentCard' # currentCard /\ cardWindow = "ready"
  <2>1. /\ about' = Published(Outdated, currentCard') /\ visible' = (currentCard' # NoCard)
    BY <1>4 DEF WindowFollows
  <2>2. CardTypeOK' /\ ShownWhileReady'
    BY <1>1, <1>4, <2>1, OutdatedMessages, PublishedAsCurrent DEF CardTypeOK, ShownWhileReady
  <2>3. CASE page.phase = "blank"
    BY <1>1, <2>1, <2>2, <2>3, OutdatedMessages, PublishedAsCurrent
       DEF CardInv, BlankHasNothing, PageFollows, Messages
  <2>4. CASE page.phase # "blank"
    <3>1. about'["sent"] = "current"
      BY <1>1, <1>2, <2>1, <2>4, OutdatedMessages, PublishedAsCurrent
    <3>2. QED
      BY <2>2, <2>4, <3>1 DEF CardInv, BlankHasNothing, PageFollows
  <2>5. QED
    BY <2>3, <2>4
<1>5. CASE currentCard' # currentCard /\ cardWindow # "ready"
  <2>1. about' = Outdated /\ visible' = visible /\ ~visible
    BY <1>1, <1>5 DEF WindowFollows, ShownWhileReady
  <2>2. QED
    BY <1>1, <1>5, <2>1, OutdatedMessages
       DEF CardInv, CardTypeOK, ShownWhileReady, BlankHasNothing, PageFollows
<1>6. QED
  BY <1>3, <1>4, <1>5

LEMMA ShowCardWindowInv ==
  ASSUME CardInv, Inv', ShowCardWindow
  PROVE  CardInv'
<1>1. /\ CardTypeOK /\ ShownWhileReady /\ BlankHasNothing /\ PageFollows
      /\ IsOptionalCard(currentCard)
      /\ cardWindow = "loading" /\ cardWindow' = "ready" /\ currentCard' = currentCard
      /\ page' = page /\ ~visible
  BY CardsAreSelectionCards DEF CardInv, ShowCardWindow, ReadyToShow, ShownWhileReady
<1>2. CASE currentCard = NoCard
  BY <1>1, <1>2
     DEF ShowCardWindow, CardInv, CardTypeOK, ShownWhileReady, BlankHasNothing, PageFollows
<1>3. CASE currentCard # NoCard
  <2>1. about' = Published(about, currentCard) /\ visible' = TRUE
    BY <1>3 DEF ShowCardWindow
  <2>2. CardTypeOK' /\ ShownWhileReady'
    BY <1>1, <1>3, <2>1, PublishedAsCurrent DEF CardTypeOK, ShownWhileReady
  <2>3. CASE page.phase = "blank"
    BY <1>1, <2>1, <2>2, <2>3, PublishedAsCurrent
       DEF CardInv, CardTypeOK, BlankHasNothing, PageFollows, Messages
  <2>4. CASE page.phase # "blank"
    <3>1. about'["sent"] = "current"
      BY <1>1, <2>1, <2>4, PublishedAsCurrent DEF CardTypeOK
    <3>2. QED
      BY <1>1, <2>2, <2>4, <3>1 DEF CardInv, BlankHasNothing, PageFollows
  <2>5. QED
    BY <2>3, <2>4
<1>4. QED
  BY <1>2, <1>3

LEMMA PageInv ==
  ASSUME CardInv, Inv', GetCurrentSelectionCard \/ CardAppStarts \/ OnChanged \/ ReceiveCurrent
  PROVE  CardInv'
<1>1. /\ CardTypeOK /\ ShownWhileReady /\ BlankHasNothing /\ PageFollows
      /\ IsOptionalCard(currentCard) /\ UNCHANGED vars /\ visible' = visible
  BY CardsAreSelectionCards, PageSteps DEF CardInv
<1>2. ShownWhileReady'
  BY <1>1 DEF ShownWhileReady, vars
<1>3. CASE GetCurrentSelectionCard
  BY <1>1, <1>2, <1>3
     DEF GetCurrentSelectionCard, CardInv, CardTypeOK, BlankHasNothing, PageFollows, Messages
<1>4. CASE CardAppStarts
  BY <1>1, <1>2, <1>4
     DEF CardAppStarts, CardInv, CardTypeOK, BlankHasNothing, PageFollows, Messages
<1>5. CASE OnChanged
  <2>1. /\ about' = [about EXCEPT !["shown"] = about["sent"], !["sent"] = "nothing"]
        /\ page' = [page EXCEPT !.heard = (page.phase # "open")]
        /\ page.phase # "blank"
    BY <1>1, <1>5 DEF OnChanged, BlankHasNothing, Messages
  <2>2. page'.phase = page.phase /\ page'.heard \in BOOLEAN
    BY <1>1, <2>1 DEF CardTypeOK
  <2>3. CardTypeOK'
    BY <1>1, <2>1 DEF CardTypeOK, Messages
  <2>4. about'["shown"] = about["sent"] /\ about'["sent"] = "nothing" /\ about["sent"] # "nothing"
    BY <1>1, <1>5, <2>1 DEF OnChanged, CardTypeOK, Messages
  <2>5. page.phase = "answered" => page'.heard
    BY <1>1, <2>1 DEF CardTypeOK
  <2>6. BlankHasNothing' /\ PageFollows'
    BY <1>1, <2>1, <2>2, <2>4, <2>5 DEF BlankHasNothing, PageFollows
  <2>7. QED
    BY <1>2, <2>3, <2>6 DEF CardInv
<1>6. CASE ReceiveCurrent
  BY <1>1, <1>2, <1>6
     DEF ReceiveCurrent, CardInv, CardTypeOK, BlankHasNothing, PageFollows, Messages
<1>7. QED
  BY <1>3, <1>4, <1>5, <1>6

LEMMA CardInvStep == CardInv /\ [CardNext]_<<vars, cardVars>> => CardInv'
<1> SUFFICES ASSUME CardInv, [CardNext]_<<vars, cardVars>> PROVE CardInv'
  OBVIOUS
<1>1. Inv'
  BY CardNextIsNext, StepInv DEF CardInv
<1>2. CASE UNCHANGED <<vars, cardVars>>
  BY <1>1, <1>2 DEF CardInv, vars, cardVars, CardTypeOK, ShownWhileReady, BlankHasNothing, PageFollows
<1>3. CASE CardNext
  BY <1>1, <1>3, WindowFollowsInv, ShowCardWindowInv, PageInv DEF CardNext
<1>4. QED
  BY <1>2, <1>3

LEMMA CardInvInit == CardInit => CardInv
<1> SUFFICES ASSUME CardInit PROVE CardInv
  OBVIOUS
<1>1. Inv
  BY InitInv DEF CardInit
<1>2. currentCard = NoCard
  BY DEF CardInit, Init
<1>3. QED
  BY <1>1, <1>2 DEF CardInit, CardInv, CardTypeOK, BlankPage, ShownWhileReady, BlankHasNothing,
     PageFollows

(* Under the card window, where the buttons of a page that is behind press *)
(* on, the controller keeps its invariant as well.                         *)
THEOREM InvarianceUnderCard == CardSpec => []Inv
<1>1. CardInv => Inv
  BY DEF CardInv
<1>2. QED
  BY <1>1, CardInvInit, CardInvStep, PTL DEF CardSpec

(* The card window is on the screen exactly while there is a card and it   *)
(* is ready; and once nothing is on its way to the page, the page shows    *)
(* the current card: never one that was replaced or dismissed.             *)
THEOREM CardStaysShown == CardSpec => []CardIsShown
<1>1. CardInv => CardIsShown
  BY DEF CardInv, Inv, CardIsShown, ShownWhileReady, PageFollows
<1>2. QED
  BY <1>1, CardInvInit, CardInvStep, PTL DEF CardSpec

=============================================================================
