----------------------------- MODULE CardWindow -----------------------------
(***************************************************************************)
(* The card on the screen: the TranslationController with WindowManager's  *)
(* card window and the page it loads (CardApp).  The window is created     *)
(* hidden by the first card and shown when its document has been painted;  *)
(* the page subscribes to changes and then asks for the current card, so   *)
(* either may come first, and a card may change or go before both.         *)
(*                                                                         *)
(* What the page shows, and the messages to it, say no more than whether   *)
(* they are about the current card.  Of the changes on their way only the  *)
(* last is kept: one that is overtaken is no more than a render.  The      *)
(* buttons of the page do not say which card they were pressed on, and     *)
(* whether a failure may be retried is left open.                          *)
(***************************************************************************)
EXTENDS TranslationController

VARIABLES
  visible,     \* the card window is on the screen
  page,        \* CardApp: its script, its getCurrent(), receivedChange
  about        \* what is shown, sent, or answered: the current card or another

cardVars == <<visible, page, about>>

Messages == {"shown", "sent", "answer"}

CardTypeOK ==
  /\ visible \in BOOLEAN
  /\ page \in [phase : {"blank", "asking", "answered", "open"}, heard : BOOLEAN]
  /\ about \in [Messages -> {"nothing", "current", "past"}]

(* The page that createCardWindow loads: hidden, and showing no card yet.  *)
BlankPage == [phase |-> "blank", heard |-> FALSE]

CardInit ==
  /\ Init
  /\ visible = FALSE
  /\ page = BlankPage
  /\ about = [m \in Messages |-> "nothing"]

-----------------------------------------------------------------------------
(* The window.                                                             *)

(* Once a card is replaced or dismissed, what is about it is past.         *)
Outdated == [m \in Messages |-> IF about[m] = "nothing" THEN "nothing" ELSE "past"]

(* What the preload script takes for a card: one that quotes a selection   *)
(* and, unless it is only the source, names its request.                   *)
IsSelectionCardViewModel(card) ==
  /\ card.sel \in Selections
  /\ card.kind \in Stages \ {"none"}
  /\ card.req \in (IF card.kind = "source-only" THEN {NoRequest} ELSE Requests)

IsOptionalCard(card) == card = NoCard \/ IsSelectionCardViewModel(card)

(* A page whose script does not run yet hears nothing, and the preload     *)
(* script drops what is not a card.                                        *)
Published(messages, card) ==
  IF page.phase # "blank" /\ IsOptionalCard(card)
  THEN [messages EXCEPT !["sent"] = "current"] ELSE messages

(* presentSelectionCard and dismissSelectionCard, as the card changes: a   *)
(* window that is not ready is neither told nor shown.                     *)
WindowFollows ==
  IF currentCard' = currentCard THEN UNCHANGED <<visible, about>>
  ELSE IF cardWindow = "ready"
  THEN about' = Published(Outdated, currentCard') /\ visible' = (currentCard' # NoCard)
  ELSE about' = Outdated /\ UNCHANGED visible

ShowCardWindow ==
  /\ ReadyToShow
  /\ IF currentCard = NoCard THEN UNCHANGED <<visible, about>>
                             ELSE about' = Published(about, currentCard) /\ visible' = TRUE
  /\ UNCHANGED page

GetCurrentSelectionCard ==
  /\ page.phase = "asking"
  /\ page' = [page EXCEPT !.phase = "answered"]
  /\ about' = [about EXCEPT !["answer"] = IF IsOptionalCard(currentCard) THEN "current" ELSE @]
  /\ UNCHANGED <<vars, visible>>

-----------------------------------------------------------------------------
(* The page.                                                               *)

CardAppStarts ==
  /\ cardWindow # "absent" /\ page.phase = "blank"
  /\ page' = [page EXCEPT !.phase = "asking"]
  /\ UNCHANGED <<vars, visible, about>>

OnChanged ==
  /\ about["sent"] # "nothing"
  /\ about' = [about EXCEPT !["shown"] = about["sent"], !["sent"] = "nothing"]
  /\ page' = [page EXCEPT !.heard = (page.phase # "open")]
  /\ UNCHANGED <<vars, visible>>

(* Mutant: the answer is shown whatever has been heard since.              *)
ReceiveCurrentAlways ==
  /\ page.phase = "answered"
  /\ page' = [phase |-> "open", heard |-> FALSE]
  /\ about' = [about EXCEPT !["answer"] = "nothing", !["shown"] = about["answer"]]
  /\ UNCHANGED <<vars, visible>>

ReceiveCurrent ==
  /\ page.phase = "answered"
  /\ page' = [phase |-> "open", heard |-> FALSE]
  /\ about' = [about EXCEPT !["answer"] = "nothing",
                            !["shown"] = IF page.heard THEN @ ELSE about["answer"]]
  /\ UNCHANGED <<vars, visible>>

(* The page renders the card it was last given, with a button to close it, *)
(* and one to retry a translation that failed.                             *)
Renders(kinds) ==
  \/ about["shown"] = "past"
  \/ about["shown"] = "current" /\ currentCard.kind \in kinds

HandleDismiss == Renders(Stages \ {"none"}) /\ UserDismiss

HandleRetry == Renders({"failed"}) /\ Retry

-----------------------------------------------------------------------------
(* UserDismiss by itself is the window asked to close, by the keyboard.    *)
Controller ==
  \/ \E s \in Selections : HandleSelection(s)
  \/ HandleDismiss \/ HandleRetry \/ UserDismiss \/ Shell
  \/ \E r \in Requests : Call(r)

CardNext ==
  \/ Controller /\ WindowFollows /\ UNCHANGED page
  \/ ShowCardWindow \/ GetCurrentSelectionCard \/ CardAppStarts \/ OnChanged \/ ReceiveCurrent

CardSpec == CardInit /\ [][CardNext]_<<vars, cardVars>> /\ Fairness

-----------------------------------------------------------------------------
(* The window is on the screen exactly while there is a card and it is     *)
(* ready, and once the page has received what is on its way it shows the   *)
(* current card: none that was dismissed or replaced while the window was  *)
(* loading, between the subscription and the first answer, or later        *)
(* (presentSelectionCard, dismissSelectionCard, CardApp).                  *)
CardIsShown ==
  /\ TypeOK /\ CardTypeOK
  /\ visible <=> cardWindow = "ready" /\ currentCard # NoCard
  /\ (visible /\ page.phase = "open" /\ about["sent"] = "nothing") => about["shown"] = "current"

=============================================================================
