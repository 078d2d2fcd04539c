------------------------- MODULE TranslationSession -------------------------
(***************************************************************************)
(* The pure latest-wins reducer of packages/application: from a session    *)
(* and an event to the next session and the effects Main must execute.     *)
(*                                                                         *)
(* A session is the stage of the card together with the selection and the  *)
(* request it belongs to.  Selection texts, languages and failure messages *)
(* are left out: a selection and a request are identities.  The reducer    *)
(* always lists its effects in the order cancel, dismiss, present,         *)
(* request, so the list is a record with one field per kind of effect.     *)
(***************************************************************************)

CONSTANTS
  Selections,   \* selectionIds the native host may send
  Requests,     \* requestIds the controller may draw (randomUUID)
  NoSelection,  \* no selection: an undefined session or card
  NoRequest     \* no request

ASSUME IdentityAssumption ==
  /\ NoSelection \notin Selections
  /\ NoRequest \notin Requests

Stages == {"none", "source-only", "translating", "translated", "failed"}

Sessions == [stage : Stages, sel : Selections \cup {NoSelection},
             req : Requests \cup {NoRequest}]

Session(stage, s, r) == [stage |-> stage, sel |-> s, req |-> r]
NoSession == Session("none", NoSelection, NoRequest)

(* A card model is what the renderer is given: its kind, the selection it  *)
(* quotes and the request whose progress or answer it shows.               *)
Cards == [kind : Stages, sel : Selections \cup {NoSelection},
          req : Requests \cup {NoRequest}]

Card(kind, s, r) == [kind |-> kind, sel |-> s, req |-> r]
NoCard == Card("none", NoSelection, NoRequest)

-----------------------------------------------------------------------------
(* Effects, and the transition that carries them.                          *)

Effects(cancel, hide, card, request) ==
  [cancel |-> cancel, hide |-> hide, card |-> card, request |-> request]

NoEffects == Effects(NoRequest, FALSE, NoCard, NoRequest)

Goto(session, effects) == [state |-> session, effects |-> effects]

(* The request a session waits for, which leaving it must cancel.          *)
Cancelled(session) ==
  IF session.stage = "translating" THEN session.req ELSE NoRequest

SelectionReceived(session, s, enabled, r) ==
  LET next == IF enabled /\ r # NoRequest THEN Session("translating", s, r)
                                          ELSE Session("source-only", s, NoRequest)
  IN Goto(next, Effects(Cancelled(session), session # NoSession,
                        Card(next.stage, s, next.req), next.req))

(* Mutants: an answer counts whatever it belongs to; for its selection.    *)
AwaitedByAny(session, answer) == session.stage = "translating"

AwaitedBySelection(session, answer) ==
  session.stage = "translating" /\ session.sel = answer.sel

(* An answer counts only for the request and the selection being waited    *)
(* for; any other answer is dropped without an effect.                     *)
Awaited(session, answer) ==
  /\ session.stage = "translating"
  /\ session.sel = answer.sel
  /\ session.req = answer.req

TranslationSucceeded(session, result) ==
  IF Awaited(session, result)
  THEN Goto(Session("translated", session.sel, session.req),
            Effects(NoRequest, FALSE, Card("translated", session.sel, result.req), NoRequest))
  ELSE Goto(session, NoEffects)

TranslationFailed(session, failure) ==
  IF ~Awaited(session, failure) THEN Goto(session, NoEffects)
  ELSE IF failure.code = "cancelled"
  THEN Goto(Session("source-only", session.sel, NoRequest),
            Effects(NoRequest, FALSE, Card("source-only", session.sel, NoRequest), NoRequest))
  ELSE Goto(Session("failed", session.sel, session.req),
            Effects(NoRequest, FALSE, Card("failed", session.sel, failure.req), NoRequest))

RetryRequested(session, r) ==
  IF session.stage = "failed" /\ session.req # r
  THEN Goto(Session("translating", session.sel, r),
            Effects(NoRequest, FALSE, Card("translating", session.sel, r), r))
  ELSE Goto(session, NoEffects)

SessionDismissed(session) ==
  Goto(NoSession, Effects(Cancelled(session), session # NoSession, NoCard, NoRequest))

=============================================================================
