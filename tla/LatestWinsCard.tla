--------------------------- MODULE LatestWinsCard ---------------------------
(***************************************************************************)
(* What the selection card promises the user, with no requests, signals or *)
(* callbacks: one card, always about the selection and the attempt that    *)
(* came last, whose spinner is eventually replaced by that attempt's own   *)
(* outcome.                                                                *)
(***************************************************************************)
CONSTANTS Selections, Requests, NoSelection, NoRequest

VARIABLES
  card,   \* what the card says: its kind, selection and attempt
  spent   \* attempts that have been made

vars == <<card, spent>>

Kinds == {"none", "source-only", "translating", "translated", "failed"}
Card(kind, s, r) == [kind |-> kind, sel |-> s, req |-> r]
NoCard == Card("none", NoSelection, NoRequest)

Init == card = NoCard /\ spent = {}

(* A new selection replaces whatever the card showed.                      *)
SelectLocally(s) ==
  /\ card' = Card("source-only", s, NoRequest)
  /\ UNCHANGED spent

SelectAndTranslate(s, r) ==
  /\ r \notin spent
  /\ card' = Card("translating", s, r)
  /\ spent' = spent \cup {r}

(* The attempt on the card, and no other, gets its outcome.                *)
Answer ==
  /\ card.kind = "translating"
  /\ \E kind \in {"translated", "failed"} : card' = [card EXCEPT !.kind = kind]
  /\ UNCHANGED spent

(* A failed card may be tried again, for the same selection.               *)
Retry(r) ==
  /\ card.kind = "failed"
  /\ r \notin spent
  /\ card' = Card("translating", card.sel, r)
  /\ spent' = spent \cup {r}

Dismiss ==
  /\ card' = NoCard
  /\ UNCHANGED spent

Next ==
  \/ \E s \in Selections : SelectLocally(s) \/ \E r \in Requests : SelectAndTranslate(s, r)
  \/ Answer
  \/ \E r \in Requests : Retry(r)
  \/ Dismiss

Spec == Init /\ [][Next]_vars /\ WF_vars(Answer)

=============================================================================
