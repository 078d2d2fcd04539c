-------------------------- MODULE SettingsPageProofs --------------------------
(***************************************************************************)
(* The settings page and the provider test behind it, for any number of    *)
(* calls and clicks: a test ends with the consent it was begun under, it   *)
(* sends nothing once it has ended, and a page that has received all there *)
(* is shows the shell's state.                                             *)
(*                                                                         *)
(* The first rests on providerTestAbortController being the controller of  *)
(* the one call there is, through replacements and late finally blocks;    *)
(* the second on a call leaving behind no more than a read, whose result   *)
(* is not used; the last on the page having heard a broadcast, or having   *)
(* the answer to its first question still to come.                         *)
(***************************************************************************)
EXTENDS SettingsPage, FiniteSetTheorems, TLAPS

(* The controller at hand is that of the one call that has not settled.    *)
OneController == \A c \in Calls : Live(c) <=> testCall = c

(* All that a call can leave behind is a read of the credentials.          *)
OnlyReads == \A c \in aborted : work[c] = "credentials"

CallTypeOK ==
  /\ ProviderTypeOK
  /\ testCall \in Calls \cup {NoCall}
  /\ asker \in [Calls -> {"nobody", "page", "gone"}]
  /\ cutOff \subseteq Calls

CallInv ==
  /\ CallTypeOK
  /\ OneController
  /\ NoCallOutlivesConsent
  /\ OnlyReads

Messages == [op : Invokes, value : BOOLEAN, awaited : BOOLEAN, begun : BOOLEAN]
Replies == [op : Invokes, ok : BOOLEAN, snapshot : Snapshots]
Pages ==
  [phase : {"absent", "loading", "open"}, snapshot : Snapshots,
   loading : BOOLEAN, heard : BOOLEAN,
   action : Actions \cup {"none"}, wanted : SUBSET (Switches \X BOOLEAN),
   summary : {"none", "loading", "loaded"}]

MessageTypeOK ==
  /\ ui \in Snapshots
  /\ commands \subseteq Messages
  /\ sent \in Seq(Snapshots)
  /\ answers \subseteq Replies
  /\ page \in Pages
  /\ tests \in 0..MaxTests /\ clicks \in 0..MaxCommands

(* A page that has not subscribed has heard nothing, and nothing is on its *)
(* way to it.                                                              *)
NothingToOthers ==
  page.phase # "open" =>
    /\ ~page.heard
    /\ sent = <<>> /\ answers = {} /\ \A cmd \in commands : ~cmd.awaited

(* The page shows the last state it was sent or is about to be: the last   *)
(* broadcast on its way, what it has heard, or the answer to its question. *)
InStep ==
  /\ ~page.loading => page.heard
  /\ page.phase = "open" =>
       /\ sent # <<>> => sent[Len(sent)] = ui
       /\ sent = <<>> /\ page.heard => page.snapshot = ui
       /\ sent = <<>> /\ ~page.heard =>
            \A a \in answers : a.op = "snapshot" => a.snapshot = ui

MessageInv ==
  /\ MessageTypeOK
  /\ NothingToOthers
  /\ InStep

PageInv == CallInv /\ MessageInv

-----------------------------------------------------------------------------
(* Outcomes.                                                               *)

Codes == FailureCodes \cup {"success"}

LEMMA OutcomeTypes ==
  ASSUME NEW deadlineReached \in BOOLEAN, NEW cancelled \in BOOLEAN, NEW r, r[1] \in Codes
  PROVE  Caught(deadlineReached, cancelled, r)[1] \in Codes
<1>1. TimedOut[1] \in Codes /\ Cancelled[1] \in Codes
  BY DEF TimedOut, Cancelled, Failure, Codes, FailureCodes
<1>2. QED
  BY <1>1 DEF Caught

LEMMA AbortedOutcomeTypes ==
  ASSUME NEW S
  PROVE  \A r \in AbortedOutcomes(S) : r[1] \in Codes
<1>1. Cancelled[1] \in Codes
  BY DEF Cancelled, Failure, Codes, FailureCodes
<1>2. Caught(FALSE, TRUE, Cancelled)[1] \in Codes
  BY <1>1, OutcomeTypes
<1>3. QED
  BY <1>2 DEF AbortedOutcomes

LEMMA VerdictTypes == \A r \in ProbeVerdicts : r[1] \in Codes
<1>1. \A kind \in ReadBoundedUtf8Body : MapTransportFailure(kind)[1] \in Codes
  BY DEF ReadBoundedUtf8Body, MapTransportFailure, TimedOut, Malformed, Failure, Codes, FailureCodes
<1>2. \A status : MapHttpFailure(status)[1] \in Codes
  BY DEF MapHttpFailure, Failure, Codes, FailureCodes
<1>3. \A code : MapBaiduFailure(code)[1] \in Codes
  BY DEF MapBaiduFailure, Failure, Codes, FailureCodes
<1>4. \A s : Parsed(Probe, s)[1] \in Codes
  BY DEF Parsed, Success, Malformed, Failure, Codes, FailureCodes
<1>5. QED
  BY <1>1, <1>2, <1>3, <1>4 DEF ProbeVerdicts, Verdicts

-----------------------------------------------------------------------------
(* The calls.                                                              *)

Works == [Calls -> {"idle", "credentials", "fetch"}]

(* Aborted calls have settled, and leave no more than reads behind.        *)
LEMMA AbortedWork ==
  ASSUME CallInv, NEW S \in SUBSET Calls, NEW superseded \in {{}, aborted \cup S}
  PROVE  /\ WithoutWork(S, superseded) \in Works
         /\ LeftBehind(S, superseded) \subseteq Calls
         /\ \A c \in LeftBehind(S, superseded) : WithoutWork(S, superseded)[c] = "credentials"
         /\ \A c \in Calls : c \in S \/ ~Live(c) =>
              WithoutWork(S, superseded)[c] = "idle" \/ c \in LeftBehind(S, superseded)
<1>1. work \in Works /\ aborted \subseteq Calls
  BY DEF CallInv, CallTypeOK, ProviderTypeOK, Works
<1>2. WithoutWork(S, superseded) \in Works
  BY <1>1 DEF WithoutWork, Works
<1>3. \A c \in Calls :
        /\ WithoutWork(S, superseded)[c] \in {"idle", work[c]}
        /\ c \in S /\ work[c] = "fetch" => WithoutWork(S, superseded)[c] = "idle"
  BY DEF WithoutWork
<1>4. \A c \in Calls : work[c] \in {"idle", "credentials", "fetch"}
  BY <1>1 DEF Works
<1>5. \A c \in aborted : work[c] = "credentials"
  BY DEF CallInv, OnlyReads
<1>6. LeftBehind(S, superseded) \subseteq Calls
  BY <1>1 DEF LeftBehind
<1>7. \A c \in LeftBehind(S, superseded) : WithoutWork(S, superseded)[c] = "credentials"
  BY <1>1, <1>3, <1>4, <1>5 DEF LeftBehind
<1>8. \A c \in Calls : c \in S \/ ~Live(c) =>
        WithoutWork(S, superseded)[c] = "idle" \/ c \in LeftBehind(S, superseded)
  BY <1>3 DEF LeftBehind, Live
<1>9. QED
  BY <1>2, <1>6, <1>7, <1>8

(* Once nobody is live, nobody has outlived anything.                      *)
LEMMA NobodyLiveInv ==
  ASSUME work' \in Works, aborted' \subseteq Calls, OnlyReads',
         \A c \in Calls : work'[c] = "idle" \/ c \in aborted',
         testCall' = NoCall, asker' \in [Calls -> {"nobody", "page", "gone"}],
         cutOff' \subseteq Calls, \A r \in settled' : r[1] \in Codes
  PROVE  CallInv'
<1>1. CallTypeOK'
  BY DEF CallTypeOK, ProviderTypeOK, Works, Codes
<1>2. OneController' /\ NoCallOutlivesConsent'
  BY PageAssumption
     DEF PageAssumption, OneController, NoCallOutlivesConsent, LiveCalls, Live
<1>3. QED
  BY <1>1, <1>2 DEF CallInv

(* The controller at hand: whom it is not the controller of is not live.   *)
LEMMA OthersAreNotLive ==
  ASSUME CallInv
  PROVE  /\ {testCall} \ {NoCall} \in SUBSET Calls
         /\ \A c \in Calls : c \in {testCall} \ {NoCall} \/ ~Live(c)
BY PageAssumption DEF PageAssumption, CallInv, CallTypeOK, OneController

LEMMA CancelInv ==
  ASSUME CallInv, NEW superseding \in BOOLEAN, CancelProviderTest(superseding)
  PROVE  CallInv'
<1> DEFINE S == {testCall} \ {NoCall}
<1> DEFINE superseded == IF superseding THEN aborted \cup S ELSE {}
<1>1. /\ work' = WithoutWork(S, superseded) /\ aborted' = LeftBehind(S, superseded)
      /\ settled' = AbortedOutcomes(S)
      /\ asker' = [c \in Calls |-> IF c \in S THEN Told(c) ELSE asker[c]]
      /\ testCall' = NoCall
      /\ cutOff' = (cutOff \cup LiveCalls) \ S
  BY DEF CancelProviderTest, AbortWork
<1>2. S \in SUBSET Calls /\ \A c \in Calls : c \in S \/ ~Live(c)
  BY OthersAreNotLive
<1> HIDE DEF S
<1>3. superseded \in {{}, aborted \cup S}
  OBVIOUS
<1> HIDE DEF superseded
<1>4. /\ work' \in Works /\ aborted' \subseteq Calls /\ OnlyReads'
      /\ \A c \in Calls : work'[c] = "idle" \/ c \in aborted'
  BY <1>1, <1>2, <1>3, AbortedWork DEF OnlyReads
<1>5. \A r \in settled' : r[1] \in Codes
  BY <1>1, AbortedOutcomeTypes
<1>6. asker' \in [Calls -> {"nobody", "page", "gone"}] /\ cutOff' \subseteq Calls
  BY <1>1 DEF CallInv, CallTypeOK, Told, LiveCalls
<1>7. QED
  BY <1>1, <1>4, <1>5, <1>6, NobodyLiveInv

(* The one call ends, by itself or at its deadline.                        *)
LEMMA EndInv ==
  ASSUME CallInv, NEW c \in Calls, Live(c), Settled(c),
         work' \in Works, aborted' \subseteq Calls, OnlyReads',
         \A d \in Calls : d = c \/ ~Live(d) => work'[d] = "idle" \/ d \in aborted',
         \A r \in settled' : r[1] \in Codes
  PROVE  CallInv'
<1>1. testCall' = Finally(c, testCall) /\ asker' = [asker EXCEPT ![c] = Told(c)] /\ cutOff' = cutOff
  BY DEF Settled
<1>2. testCall' = NoCall /\ \A d \in Calls : d = c \/ ~Live(d)
  BY <1>1 DEF CallInv, OneController, Finally
<1>3. asker' \in [Calls -> {"nobody", "page", "gone"}] /\ cutOff' \subseteq Calls
  BY <1>1 DEF CallInv, CallTypeOK, Told
<1>4. QED
  BY <1>2, <1>3, NobodyLiveInv

LEMMA SettleInv ==
  ASSUME CallInv, NEW c \in Calls, Live(c), NEW r, r[1] \in Codes, Settle(c, r), Settled(c)
  PROVE  CallInv'
<1>1. /\ work' = [work EXCEPT ![c] = "idle"] /\ aborted' = aborted
      /\ settled' = {Caught(FALSE, FALSE, r)}
  BY DEF Settle
<1>2. work' \in Works /\ aborted' \subseteq Calls
  BY <1>1 DEF CallInv, CallTypeOK, ProviderTypeOK, Works
<1>3. /\ \A d \in Calls : d = c \/ ~Live(d) => work'[d] = "idle" \/ d \in aborted'
      /\ \A d \in aborted : d # c /\ work'[d] = work[d]
  BY <1>1 DEF CallInv, CallTypeOK, ProviderTypeOK, Live
<1>4. OnlyReads'
  BY <1>1, <1>3 DEF CallInv, OnlyReads
<1>5. \A s \in settled' : s[1] \in Codes
  BY <1>1, OutcomeTypes
<1>6. QED
  BY <1>2, <1>3, <1>4, <1>5, EndInv

LEMMA DeadlineInv ==
  ASSUME CallInv, NEW c \in Calls, DeadlineReached(c), Settled(c)
  PROVE  CallInv'
<1>1. /\ Live(c) /\ work' = WithoutWork({c}, {}) /\ aborted' = LeftBehind({c}, {})
      /\ \E r \in {TimedOut, MapTransportFailure("cancelled")} : settled' = {Caught(TRUE, FALSE, r)}
  BY DEF DeadlineReached, AbortWork
<1>2. {c} \in SUBSET Calls /\ {} \in {{}, aborted \cup {c}}
  OBVIOUS
<1>3. /\ work' \in Works /\ aborted' \subseteq Calls /\ OnlyReads'
      /\ \A d \in Calls : d = c \/ ~Live(d) => work'[d] = "idle" \/ d \in aborted'
  BY <1>1, <1>2, AbortedWork DEF OnlyReads
<1>4. TimedOut[1] \in Codes /\ MapTransportFailure("cancelled")[1] \in Codes
  BY DEF TimedOut, MapTransportFailure, Cancelled, Failure, Codes, FailureCodes
<1>5. \A r \in settled' : r[1] \in Codes
  BY <1>1, <1>4, OutcomeTypes
<1>6. QED
  BY <1>1, <1>3, <1>5, EndInv

(* A read that ends: the request is sent, or the call had been aborted.    *)
LEMMA ReadInv ==
  ASSUME CallInv, NEW c \in Calls, work[c] = "credentials",
         NEW next \in {"idle", "fetch"}, next = "idle" <=> c \in aborted,
         work' = [work EXCEPT ![c] = next], aborted' = aborted \ {c},
         settled' = {}, UNCHANGED <<testCall, asker, cutOff>>
  PROVE  CallInv'
<1>1. work \in Works /\ aborted \subseteq Calls
  BY DEF CallInv, CallTypeOK, ProviderTypeOK, Works
<1>2. CallTypeOK'
  BY <1>1 DEF CallInv, CallTypeOK, ProviderTypeOK, Works
<1>3. \A d \in Calls : Live(d)' <=> Live(d)
  BY <1>1 DEF Live, Works
<1>4. OneController' /\ NoCallOutlivesConsent'
  BY <1>3 DEF CallInv, OneController, NoCallOutlivesConsent, LiveCalls
<1>5. OnlyReads'
  BY <1>1 DEF CallInv, OnlyReads, Works
<1>6. QED
  BY <1>2, <1>4, <1>5 DEF CallInv

LEMMA QuietInv ==
  ASSUME CallInv, UNCHANGED <<work, aborted, testCall, cutOff>>, settled' = {},
         asker' \in [Calls -> {"nobody", "page", "gone"}]
  PROVE  CallInv'
<1>1. CallTypeOK'
  BY DEF CallInv, CallTypeOK, ProviderTypeOK
<1>2. OneController' /\ NoCallOutlivesConsent' /\ OnlyReads'
  BY DEF CallInv, OneController, NoCallOutlivesConsent, LiveCalls, Live, OnlyReads
<1>3. QED
  BY <1>1, <1>2 DEF CallInv

LEMMA NoCallSettlesInv ==
  ASSUME CallInv, NoCallSettles
  PROVE  CallInv'
BY QuietInv DEF NoCallSettles, callVars, providerVars, CallInv, CallTypeOK

(* A new test: the calls that are live are the one it replaces, then it.   *)
LEMMA TestInv ==
  ASSUME CallInv, TestProvider
  PROVE  CallInv'
<1>1. CASE NoCallSettles
  BY <1>1, NoCallSettlesInv
<1>2. CASE ~NoCallSettles
  <2> DEFINE old == {testCall} \ {NoCall}
  <2> DEFINE c == CHOOSE d \in Unused : TRUE
  <2>1. PICK cmd \in commands :
          /\ Unused # {}
          /\ work' = [WithoutWork(old, {}) EXCEPT ![c] = "credentials"]
          /\ aborted' = LeftBehind(old, {})
          /\ settled' = AbortedOutcomes(old)
          /\ testCall' = IF old = {} THEN c ELSE Finally(testCall, c)
          /\ asker' = [d \in Calls |-> IF d = c
                                      THEN IF cmd.awaited THEN "page" ELSE "gone"
                                      ELSE IF d \in old THEN Told(d) ELSE asker[d]]
          /\ cutOff' = cutOff \ {c}
    BY <1>2 DEF TestProvider, Asked
  <2>2. c \in Unused
    BY <2>1
  <2> HIDE DEF c
  <2>3. c \in Calls /\ work[c] = "idle" /\ ~Live(c) /\ c # testCall
    BY <2>2 DEF Unused, CallInv, OneController, Live
  <2>4. testCall' = c
    BY <2>1, <2>3 DEF Finally
  <2>5. old \in SUBSET Calls /\ \A d \in Calls : d \in old \/ ~Live(d)
    BY OthersAreNotLive
  <2>6. {} \in {{}, aborted \cup old}
    OBVIOUS
  <2> HIDE DEF old
  <2>7. /\ WithoutWork(old, {}) \in Works /\ LeftBehind(old, {}) \subseteq Calls
        /\ \A d \in LeftBehind(old, {}) : WithoutWork(old, {})[d] = "credentials"
        /\ \A d \in Calls : WithoutWork(old, {})[d] = "idle" \/ d \in LeftBehind(old, {})
    BY <2>5, <2>6, AbortedWork
  <2>8. c \notin aborted'
    <3>1. WithoutWork(old, {})[c] = "idle"
      BY <2>3 DEF WithoutWork
    <3>2. QED
      BY <2>1, <2>7, <3>1
  <2>9. /\ work' \in Works /\ OnlyReads'
        /\ \A d \in Calls : (work'[d] # "idle" /\ d \notin aborted') <=> d = c
    BY <2>1, <2>3, <2>7, <2>8 DEF Works, OnlyReads
  <2>10. \A r \in settled' : r[1] \in Codes
    BY <2>1, AbortedOutcomeTypes
  <2>11. asker' \in [Calls -> {"nobody", "page", "gone"}] /\ cutOff' \subseteq Calls
    BY <2>1 DEF CallInv, CallTypeOK, Told
  <2>12. CallTypeOK'
    BY <2>1, <2>3, <2>4, <2>7, <2>9, <2>10, <2>11 DEF CallTypeOK, ProviderTypeOK, Codes, Works
  <2>13. OneController' /\ NoCallOutlivesConsent'
    BY <2>1, <2>4, <2>9 DEF OneController, NoCallOutlivesConsent, LiveCalls, Live
  <2>14. QED
    BY <2>9, <2>12, <2>13 DEF CallInv
<1>3. QED
  BY <1>1, <1>2

LEMMA CallStep ==
  ASSUME CallInv, [Next]_vars
  PROVE  CallInv'
<1>1. CASE NoCallSettles
  BY <1>1, NoCallSettlesInv
<1>2. CASE UNCHANGED vars
  <2>1. UNCHANGED <<work, aborted, testCall, asker, cutOff, settled>>
    BY <1>2 DEF vars, callVars, providerVars
  <2>2. QED
    BY <2>1 DEF CallInv, CallTypeOK, ProviderTypeOK, OneController, NoCallOutlivesConsent,
       LiveCalls, Live, OnlyReads
<1>3. CASE SetTranslationEnabled \/ SaveCredentials \/ DeleteCredentials
  <2>1. NoCallSettles \/ \E superseding \in BOOLEAN : CancelProviderTest(superseding)
    BY <1>3 DEF SetTranslationEnabled, SaveCredentials, DeleteCredentials
  <2>2. QED
    BY <2>1, CancelInv, NoCallSettlesInv
<1>4. CASE \/ GetSnapshot \/ SetSelectionEnabled \/ SetOther \/ HostAnswers
           \/ SaveEnds \/ DeleteEnds \/ GetSummary
  BY <1>4, NoCallSettlesInv
     DEF GetSnapshot, SetSelectionEnabled, SetSelection, SetOther, HostAnswers,
         SaveEnds, DeleteEnds, GetSummary
<1>5. CASE TestProvider
  BY <1>5, TestInv
<1>6. ASSUME NEW c \in Calls, Deadline(c)
      PROVE  CallInv'
  BY <1>6, DeadlineInv DEF Deadline
<1>7. ASSUME NEW c \in Calls, Credentials(c)
      PROVE  CallInv'
  <2>1. CASE CredentialsFound(c) /\ UNCHANGED <<testCall, asker, cutOff>>
    <3> DEFINE next == IF c \in aborted THEN "idle" ELSE "fetch"
    <3>1. /\ work[c] = "credentials" /\ work' = [work EXCEPT ![c] = next]
          /\ aborted' = aborted \ {c} /\ settled' = {}
      BY <2>1 DEF CredentialsFound
    <3>2. next \in {"idle", "fetch"} /\ (next = "idle" <=> c \in aborted)
      OBVIOUS
    <3> HIDE DEF next
    <3>3. QED
      BY <2>1, <3>1, <3>2, ReadInv
  <2>2. CASE CredentialsMissing(c) /\ Settled(c)
    <3>1. Failure("credentials-missing", FALSE)[1] \in Codes
      BY DEF Failure, Codes, FailureCodes
    <3>2. QED
      BY <2>2, <3>1, SettleInv DEF CredentialsMissing
  <2>3. CASE StrayEnds(c) /\ UNCHANGED <<testCall, asker, cutOff>>
    BY <2>3, ReadInv DEF StrayEnds
  <2>4. QED
    BY <1>7, <2>1, <2>2, <2>3 DEF Credentials
<1>8. ASSUME NEW c \in Calls, Answered(c)
      PROVE  CallInv'
  <2>1. PICK r \in ProbeVerdicts : Settle(c, r) /\ Settled(c) /\ Live(c)
    BY <1>8 DEF Answered, Respond
  <2>2. QED
    BY <2>1, VerdictTypes, SettleInv
<1>9. CASE Renderer
  <2>1. CASE ReceiveTestResult
    <3>1. /\ UNCHANGED <<work, aborted, testCall, cutOff>> /\ settled' = {}
          /\ asker' \in [Calls -> {"nobody", "page", "gone"}]
      BY <2>1 DEF ReceiveTestResult, providerVars, CallInv, CallTypeOK
    <3>2. QED
      BY <3>1, QuietInv
  <2>2. QED
    BY <1>9, <2>1, NoCallSettlesInv
       DEF Renderer, PageStarts, ReceiveSnapshots, ReceiveInitial, ReceiveAnswer, ReceiveSummary
<1>10. CASE User
  <2>1. CASE Reload
    <3>1. /\ UNCHANGED <<work, aborted, testCall, cutOff>> /\ settled' = {}
          /\ asker' \in [Calls -> {"nobody", "page", "gone"}]
      BY <2>1 DEF Reload, providerVars
    <3>2. QED
      BY <3>1, QuietInv
  <2>2. QED
    BY <1>10, <2>1, NoCallSettlesInv
       DEF User, OpenSettings, TrayToggle, SetSelection, ToggleSelection, ToggleTranslation, Toggle,
           ChangeSetting, PressSave, PressTest, PressDelete, PressButton, Click
<1>11. QED
  BY <1>2, <1>3, <1>4, <1>5, <1>6, <1>7, <1>8, <1>9, <1>10 DEF Next, Shell


-----------------------------------------------------------------------------
(* The messages.                                                           *)

(* All the shell says is a broadcast of its state; a question is answered  *)
(* with the state at that time, and whatever else is answered says none.   *)
Said == UNCHANGED <<ui, sent>> \/ \E u \in Snapshots : Replace(u)

Replied ==
  \/ UNCHANGED <<commands, answers>>
  \/ \E cmd \in commands :
       \/ Begins(cmd)
       \/ commands' = commands \ {cmd} /\ UNCHANGED answers
       \/ /\ \E ok \in BOOLEAN : Ends(cmd, ok)
          /\ cmd.op = "snapshot" => UNCHANGED <<ui, sent>>

LEMMA DefaultSnapshotType == DefaultSnapshot \in Snapshots
BY DEF DefaultSnapshot, Snapshots

LEMMA WithStatusTypes ==
  ASSUME ui \in Snapshots, NEW status \in {"missing", "configured", "unavailable"}
  PROVE  WithStatus(status) \in Snapshots
BY DEF WithStatus, Snapshots

LEMMA FailClosedSaid ==
  ASSUME ui \in Snapshots, NEW status \in {"missing", "unavailable"}, FailClosed(status)
  PROVE  Said
BY WithStatusTypes DEF FailClosed, Said

LEMMA AskedFor ==
  ASSUME NEW op
  PROVE  /\ \A cmd \in Asked(op) : cmd \in commands /\ cmd.op = op
         /\ \A cmd \in Running(op) : cmd \in commands /\ cmd.op = op
BY DEF Asked, Running

LEMMA ShellSaid ==
  ASSUME MessageTypeOK, Shell
  PROVE  Said
<1>1. ui \in Snapshots /\ commands \subseteq Messages
  BY DEF MessageTypeOK
<1>2. CASE GetSnapshot
  BY <1>2 DEF GetSnapshot, Said
<1>3. CASE SetSelectionEnabled
  <2>1. PICK cmd \in Asked("selection") : SetSelection(cmd.value) \/ UNCHANGED <<ui, sent>>
    BY <1>3 DEF SetSelectionEnabled
  <2>2. [ui EXCEPT !.selection = cmd.value] \in Snapshots
    BY <1>1, AskedFor DEF Snapshots, Messages
  <2>3. QED
    BY <2>1, <2>2 DEF SetSelection, Said
<1>4. CASE SetTranslationEnabled
  <2>1. [ui EXCEPT !.translation = TRUE] \in Snapshots /\ [ui EXCEPT !.translation = FALSE] \in Snapshots
    BY <1>1 DEF Snapshots
  <2>2. QED
    BY <1>4, <2>1 DEF SetTranslationEnabled, Said
<1>5. CASE SetOther \/ HostAnswers
  BY <1>1, <1>5 DEF SetOther, HostAnswers, Said
<1>6. CASE SaveCredentials
  BY <1>6 DEF SaveCredentials, Said
<1>7. CASE SaveEnds
  <2>1. \A status \in {"configured", "unavailable"} :
          [WithStatus(status) EXCEPT !.consent = TRUE] \in Snapshots
    BY <1>1, WithStatusTypes DEF Snapshots
  <2>2. QED
    BY <1>1, <1>7, <2>1, FailClosedSaid DEF SaveEnds, Said
<1>8. CASE DeleteCredentials
  <2>1. [WithStatus("unavailable") EXCEPT !.consent = FALSE] \in Snapshots
    BY <1>1, WithStatusTypes DEF Snapshots
  <2>2. QED
    BY <1>8, <2>1 DEF DeleteCredentials, Said
<1>9. CASE DeleteEnds
  BY <1>1, <1>9, WithStatusTypes DEF DeleteEnds, Said
<1>10. CASE GetSummary
  BY <1>1, <1>10, FailClosedSaid DEF GetSummary, Said
<1>11. CASE TestProvider
  BY <1>11 DEF TestProvider, Said
<1>12. CASE \E c \in Calls : Deadline(c) \/ Credentials(c) \/ Answered(c)
  BY <1>1, <1>12, FailClosedSaid DEF Deadline, Credentials, Answered, Said
<1>13. QED
  BY <1>2, <1>3, <1>4, <1>5, <1>6, <1>7, <1>8, <1>9, <1>10, <1>11, <1>12 DEF Shell

LEMMA ShellReplied ==
  ASSUME Shell
  PROVE  Replied
<1>1. CASE GetSnapshot
  BY <1>1, AskedFor DEF GetSnapshot, Replied
<1>2. CASE SetSelectionEnabled
  <2>1. PICK cmd \in Asked("selection") : Ends(cmd, FALSE) \/ Ends(cmd, TRUE) \/ Begins(cmd)
    BY <1>2 DEF SetSelectionEnabled
  <2>2. (\E ok \in BOOLEAN : Ends(cmd, ok)) \/ Begins(cmd)
    BY <2>1, Zenon
  <2>3. QED
    BY <2>2, AskedFor DEF Replied
<1>3. CASE SetTranslationEnabled
  <2>1. PICK cmd \in Asked("translation"), ok \in BOOLEAN : Ends(cmd, ok)
    <3>1. PICK cmd \in Asked("translation"), written \in BOOLEAN :
            \/ Ends(cmd, (ui.credentials = "configured" /\ ui.consent) /\ written)
            \/ Ends(cmd, written)
      BY <1>3 DEF SetTranslationEnabled
    <3>2. ((ui.credentials = "configured" /\ ui.consent) /\ written) \in BOOLEAN
      OBVIOUS
    <3>3. QED
      BY <3>1, <3>2
  <2>2. QED
    BY <2>1, AskedFor DEF Replied
<1>4. CASE SetOther \/ HostAnswers
  <2>1. CASE SetOther
    BY <2>1, AskedFor DEF SetOther, Replied
  <2>2. CASE HostAnswers
    BY <2>2, AskedFor DEF HostAnswers, Replied
  <2>3. QED
    BY <1>4, <2>1, <2>2
<1>5. CASE SaveCredentials \/ DeleteCredentials
  BY <1>5, AskedFor DEF SaveCredentials, DeleteCredentials, Replied
<1>6. CASE SaveEnds
  <2>1. PICK cmd \in Running("save") : Ends(cmd, TRUE) \/ Ends(cmd, FALSE)
    BY <1>6 DEF SaveEnds
  <2>2. \E ok \in BOOLEAN : Ends(cmd, ok)
    BY <2>1, Zenon
  <2>3. QED
    BY <2>2, AskedFor DEF Replied
<1>7. CASE DeleteEnds
  BY <1>7, AskedFor DEF DeleteEnds, Replied
<1>8. CASE GetSummary
  <2>1. PICK cmd \in Asked("summary"), ok \in BOOLEAN : Ends(cmd, ok)
    <3>1. PICK cmd \in Asked("summary") :
            (\E ok \in BOOLEAN : Ends(cmd, ok)) \/ Ends(cmd, TRUE) \/ Ends(cmd, FALSE)
      BY <1>8 DEF GetSummary
    <3>2. QED
      BY <3>1
  <2>2. QED
    BY <2>1, AskedFor DEF Replied
<1>9. CASE TestProvider
  <2>1. PICK cmd \in Asked("test") :
          (commands' = commands \ {cmd} /\ UNCHANGED answers) \/ Ends(cmd, TRUE)
    BY <1>9 DEF TestProvider
  <2>2. \/ commands' = commands \ {cmd} /\ UNCHANGED answers
        \/ \E ok \in BOOLEAN : Ends(cmd, ok)
    BY <2>1, Zenon
  <2>3. QED
    BY <2>2, AskedFor DEF Replied
<1>10. CASE \E c \in Calls : Deadline(c) \/ Credentials(c) \/ Answered(c)
  BY <1>10 DEF Deadline, Credentials, Answered, Settled, Replied
<1>11. QED
  BY <1>1, <1>2, <1>3, <1>4, <1>5, <1>6, <1>7, <1>8, <1>9, <1>10 DEF Shell


(* A reply adds one answer at most: the state at the time of a question.   *)
LEMMA ReplyTypes ==
  ASSUME MessageTypeOK, NEW cmd \in commands, NEW ok \in BOOLEAN, Ends(cmd, ok)
  PROVE  /\ answers' \subseteq Replies
         /\ \A a \in answers' : a \notin answers =>
              cmd.awaited /\ (a.op = "snapshot" => cmd.op = "snapshot" /\ a.snapshot = ui)
<1>1. cmd \in Messages /\ answers \subseteq Replies /\ ui \in Snapshots
  BY DEF MessageTypeOK
<1> DEFINE reply == [op |-> cmd.op, ok |-> ok,
                     snapshot |-> IF cmd.op = "snapshot" THEN ui ELSE DefaultSnapshot]
<1>2. /\ reply \in Replies
      /\ reply.op = "snapshot" => cmd.op = "snapshot" /\ reply.snapshot = ui
  BY <1>1, DefaultSnapshotType DEF Messages, Replies
<1>3. answers' = IF cmd.awaited THEN answers \cup {reply} ELSE answers
  BY DEF Ends, Reply
<1> HIDE DEF reply
<1>4. QED
  BY <1>1, <1>2, <1>3

LEMMA SaidInStep ==
  ASSUME MessageTypeOK, NothingToOthers, InStep, UNCHANGED page,
         NEW u \in Snapshots, Replace(u)
  PROVE  /\ ui' \in Snapshots /\ sent' \in Seq(Snapshots) /\ InStep'
         /\ page.phase # "open" => sent' = <<>>
<1>1. /\ ui' = u
      /\ sent' = IF page.phase = "open" THEN Append(sent, u) ELSE sent
      /\ sent \in Seq(Snapshots)
  BY DEF Replace, Broadcast, MessageTypeOK
<1>2. sent' \in Seq(Snapshots)
  BY <1>1
<1>3. page.phase = "open" => sent' # <<>> /\ sent'[Len(sent')] = u
  BY <1>1
<1>4. InStep'
  BY <1>1, <1>3 DEF InStep
<1>5. QED
  BY <1>1, <1>2, <1>4 DEF NothingToOthers

LEMMA RepliedTypes ==
  ASSUME MessageTypeOK, NothingToOthers, Replied
  PROVE  /\ commands' \subseteq Messages /\ answers' \subseteq Replies
         /\ page.phase # "open" => answers' = {} /\ \A cmd \in commands' : ~cmd.awaited
         /\ \A a \in answers' : a.op = "snapshot" /\ a \notin answers =>
              a.snapshot = ui /\ UNCHANGED <<ui, sent>>
<1>1. commands \subseteq Messages /\ answers \subseteq Replies
  BY DEF MessageTypeOK
<1>2. CASE UNCHANGED <<commands, answers>>
  BY <1>1, <1>2 DEF NothingToOthers
<1>3. ASSUME NEW cmd \in commands, Begins(cmd)
      PROVE  /\ commands' \subseteq Messages /\ UNCHANGED answers
             /\ page.phase # "open" => \A d \in commands' : ~d.awaited
  <2>1. /\ commands' = (commands \ {cmd}) \cup {[cmd EXCEPT !.begun = TRUE]}
        /\ UNCHANGED answers
    BY <1>3 DEF Begins
  <2>2. /\ [cmd EXCEPT !.begun = TRUE] \in Messages
        /\ [cmd EXCEPT !.begun = TRUE].awaited = cmd.awaited
    BY <1>1 DEF Messages
  <2>3. QED
    BY <1>1, <2>1, <2>2 DEF NothingToOthers
<1>4. ASSUME NEW cmd \in commands, NEW ok \in BOOLEAN, Ends(cmd, ok),
             cmd.op = "snapshot" => UNCHANGED <<ui, sent>>
      PROVE  /\ commands' \subseteq Messages /\ answers' \subseteq Replies
             /\ page.phase # "open" => answers' = {} /\ \A d \in commands' : ~d.awaited
             /\ \A a \in answers' : a.op = "snapshot" /\ a \notin answers =>
                  a.snapshot = ui /\ UNCHANGED <<ui, sent>>
  <2>1. commands' = commands \ {cmd}
    BY <1>4 DEF Ends
  <2>2. /\ answers' \subseteq Replies
        /\ \A a \in answers' : a \notin answers =>
             cmd.awaited /\ (a.op = "snapshot" => cmd.op = "snapshot" /\ a.snapshot = ui)
    BY <1>4, ReplyTypes
  <2>3. page.phase # "open" => answers' = {}
    BY <2>2 DEF NothingToOthers
  <2>4. QED
    BY <1>1, <1>4, <2>1, <2>2, <2>3 DEF NothingToOthers
<1>5. ASSUME NEW cmd \in commands, commands' = commands \ {cmd}, UNCHANGED answers
      PROVE  /\ commands' \subseteq Messages
             /\ page.phase # "open" => \A d \in commands' : ~d.awaited
  BY <1>1, <1>5 DEF NothingToOthers
<1>6. QED
  <2>1. CASE \E cmd \in commands : Begins(cmd)
    BY <2>1, <1>1, <1>3 DEF NothingToOthers
  <2>2. CASE \E cmd \in commands : commands' = commands \ {cmd} /\ UNCHANGED answers
    BY <2>2, <1>1, <1>5 DEF NothingToOthers
  <2>3. CASE \E cmd \in commands : /\ \E ok \in BOOLEAN : Ends(cmd, ok)
                                   /\ cmd.op = "snapshot" => UNCHANGED <<ui, sent>>
    BY <2>3, <1>4
  <2>4. QED
    BY <1>2, <2>1, <2>2, <2>3 DEF Replied

LEMMA ShellMessages ==
  ASSUME MessageInv, Said, Replied, UNCHANGED <<page, tests, clicks>>
  PROVE  MessageInv'
<1>1. MessageTypeOK /\ NothingToOthers /\ InStep
  BY DEF MessageInv
<1>2. /\ ui' \in Snapshots /\ sent' \in Seq(Snapshots)
      /\ page.phase # "open" => sent' = <<>>
      /\ (\E u \in Snapshots : Replace(u)) => InStep'
  <2>1. CASE UNCHANGED <<ui, sent>> /\ ~\E u \in Snapshots : Replace(u)
    BY <1>1, <2>1 DEF MessageTypeOK, NothingToOthers
  <2>2. CASE \E u \in Snapshots : Replace(u)
    BY <1>1, <2>2, SaidInStep
  <2>3. QED
    BY <2>1, <2>2 DEF Said
<1>3. /\ commands' \subseteq Messages /\ answers' \subseteq Replies
      /\ page.phase # "open" => answers' = {} /\ \A cmd \in commands' : ~cmd.awaited
      /\ \A a \in answers' : a.op = "snapshot" /\ a \notin answers =>
           a.snapshot = ui /\ UNCHANGED <<ui, sent>>
  BY <1>1, RepliedTypes
<1>4. UNCHANGED <<ui, sent>> => InStep'
  BY <1>1, <1>3 DEF InStep
<1>5. InStep'
  BY <1>2, <1>4 DEF Said
<1>6. MessageTypeOK'
  BY <1>1, <1>2, <1>3 DEF MessageTypeOK
<1>7. NothingToOthers'
  BY <1>1, <1>2, <1>3 DEF NothingToOthers
<1>8. QED
  BY <1>5, <1>6, <1>7 DEF MessageInv


-----------------------------------------------------------------------------
(* The page.                                                               *)

LEMMA BlankTypes ==
  ASSUME NEW phase \in {"absent", "loading", "open"}
  PROVE  /\ Blank(phase) \in Pages /\ Blank(phase).phase = phase /\ Blank(phase).loading
BY DefaultSnapshotType DEF Blank, Pages

LEMMA InvokeTypes ==
  ASSUME NEW op \in Invokes, NEW value \in BOOLEAN
  PROVE  Invoke(op, value) \in Messages
BY DEF Invoke, Messages

(* A render changes no more of the page than its switches and its summary. *)
LEMMA RenderedTypes ==
  ASSUME commands \subseteq Messages, NEW p \in Pages, Rendered(p)
  PROVE  /\ commands' \subseteq Messages /\ page' \in Pages
         /\ page'.phase = p.phase /\ page'.snapshot = p.snapshot
         /\ page'.loading = p.loading /\ page'.heard = p.heard
<1> DEFINE left == {w \in p.wanted : p.snapshot[w[1]] # w[2]}
<1> DEFINE let_go == [p EXCEPT !.wanted = left]
<1>1. PICK shown : /\ page' = shown
                   /\ \/ shown = let_go
                      \/ shown = [let_go EXCEPT !.summary = "loading"]
                      \/ shown = [let_go EXCEPT !.summary = "none"]
  BY DEF Rendered
<1>2. left \in SUBSET (Switches \X BOOLEAN)
  BY DEF Pages
<1> HIDE DEF left
<1>3. /\ let_go \in Pages
      /\ let_go.phase = p.phase /\ let_go.snapshot = p.snapshot
      /\ let_go.loading = p.loading /\ let_go.heard = p.heard
  BY <1>2 DEF Pages
<1> HIDE DEF let_go
<1>4. /\ page' \in Pages
      /\ page'.phase = p.phase /\ page'.snapshot = p.snapshot
      /\ page'.loading = p.loading /\ page'.heard = p.heard
  BY <1>1, <1>3 DEF Pages
<1>5. Disowned(commands) \subseteq Messages
  BY DEF Disowned, Messages
<1>6. Invoke("summary", FALSE) \in Messages
  BY InvokeTypes DEF Invokes
<1>7. commands' \subseteq Messages
  BY <1>5, <1>6 DEF Rendered
<1>8. QED
  BY <1>4, <1>7

(* What the page has still to hear of: a part of what was on its way.      *)
LEMMA Received ==
  ASSUME MessageInv, page.phase = "open", page' \in Pages, page'.phase = "open",
         ~page'.loading => page'.heard, commands' \subseteq Messages,
         answers' \subseteq answers, sent' = sent, ui' = ui,
         page'.heard = page.heard, page'.snapshot = page.snapshot,
         tests' \in 0..MaxTests, clicks' \in 0..MaxCommands
  PROVE  MessageInv'
<1>1. MessageTypeOK'
  BY DEF MessageInv, MessageTypeOK
<1>2. NothingToOthers' /\ InStep'
  BY DEF MessageInv, NothingToOthers, InStep
<1>3. QED
  BY <1>1, <1>2 DEF MessageInv

LEMMA PageStartsMessages ==
  ASSUME MessageInv, PageStarts
  PROVE  MessageInv'
<1>1. /\ page.phase = "loading" /\ page' = [page EXCEPT !.phase = "open"]
      /\ commands' = commands \cup {Invoke("snapshot", FALSE)}
      /\ UNCHANGED <<ui, sent, answers, tests, clicks>>
  BY DEF PageStarts
<1>2. ~page.heard /\ sent = <<>> /\ answers = {}
  BY <1>1 DEF MessageInv, NothingToOthers
<1>3. /\ page' \in Pages /\ page'.phase = "open"
      /\ page'.loading = page.loading /\ page'.heard = page.heard
  BY <1>1 DEF MessageInv, MessageTypeOK, Pages
<1>4. Invoke("snapshot", FALSE) \in Messages
  BY InvokeTypes DEF Invokes
<1>5. MessageTypeOK'
  BY <1>1, <1>3, <1>4 DEF MessageInv, MessageTypeOK
<1>6. QED
  BY <1>1, <1>2, <1>3, <1>5 DEF MessageInv, NothingToOthers, InStep

LEMMA ReceiveSnapshotsMessages ==
  ASSUME MessageInv, ReceiveSnapshots
  PROVE  MessageInv'
<1>1. PICK n \in 1..Len(sent) :
        /\ Rendered([page EXCEPT !.snapshot = sent[n], !.loading = FALSE, !.heard = TRUE])
        /\ answers' = IF Configured(page) = (sent[n].credentials = "configured")
                      THEN answers ELSE WithoutSummary(answers)
        /\ sent' = SubSeq(sent, n + 1, Len(sent))
  BY DEF ReceiveSnapshots
<1>2. /\ page.phase = "open" /\ UNCHANGED <<ui, tests, clicks>>
  BY DEF ReceiveSnapshots
<1>3. sent \in Seq(Snapshots) /\ page \in Pages /\ commands \subseteq Messages
  BY DEF MessageInv, MessageTypeOK
<1> DEFINE p == [page EXCEPT !.snapshot = sent[n], !.loading = FALSE, !.heard = TRUE]
<1>4. sent[n] \in Snapshots
  BY <1>3
<1>5. /\ p \in Pages /\ p.phase = "open" /\ p.snapshot = sent[n] /\ p.heard
  BY <1>2, <1>3, <1>4 DEF Pages
<1> HIDE DEF p
<1>6. /\ commands' \subseteq Messages /\ page' \in Pages
      /\ page'.phase = "open" /\ page'.snapshot = sent[n] /\ page'.heard
  BY <1>1, <1>3, <1>5, RenderedTypes DEF p
<1>7. answers' \subseteq answers
  BY <1>1 DEF WithoutSummary
<1>8. sent' \in Seq(Snapshots) /\ Len(sent') = Len(sent) - n
  BY <1>1, <1>3
<1>9. sent' = <<>> => n = Len(sent)
  BY <1>3, <1>8
<1>10. sent' # <<>> => sent'[Len(sent')] = sent[Len(sent)]
  BY SMTT(30), <1>1, <1>3, <1>8
<1>11. sent # <<>> /\ sent[Len(sent)] = ui
  <2>1. sent # <<>>
    BY <1>3
  <2>2. QED
    BY <1>2, <2>1 DEF MessageInv, InStep
<1>12. InStep'
  BY <1>2, <1>6, <1>9, <1>10, <1>11 DEF InStep
<1>13. MessageTypeOK'
  BY <1>2, <1>6, <1>7, <1>8 DEF MessageInv, MessageTypeOK
<1>14. NothingToOthers'
  BY <1>6 DEF NothingToOthers
<1>15. QED
  BY <1>12, <1>13, <1>14 DEF MessageInv

LEMMA AnswersAreToOpenPages ==
  ASSUME MessageInv, answers # {}
  PROVE  page.phase = "open"
BY DEF MessageInv, NothingToOthers

LEMMA ReceiveInitialMessages ==
  ASSUME MessageInv, ReceiveInitial
  PROVE  MessageInv'
<1>1. PICK a \in answers :
        /\ a.op = "snapshot" /\ answers' = answers \ {a}
        /\ IF page.heard THEN UNCHANGED <<page, commands>>
           ELSE Rendered([page EXCEPT !.snapshot = a.snapshot, !.loading = FALSE, !.heard = TRUE])
        /\ UNCHANGED <<ui, sent, tests, clicks>>
  BY DEF ReceiveInitial
<1>2. page.phase = "open"
  BY AnswersAreToOpenPages
<1>3. page \in Pages /\ commands \subseteq Messages /\ a \in Replies
  BY DEF MessageInv, MessageTypeOK
<1>4. CASE page.heard
  BY <1>1, <1>2, <1>3, <1>4, Received DEF MessageInv, MessageTypeOK, InStep
<1>5. CASE ~page.heard
  <2> DEFINE p == [page EXCEPT !.snapshot = a.snapshot, !.loading = FALSE, !.heard = TRUE]
  <2>1. /\ p \in Pages /\ p.phase = "open" /\ p.snapshot = a.snapshot /\ p.heard
    BY <1>2, <1>3 DEF Pages, Replies
  <2>2. Rendered(p)
    BY <1>1, <1>5
  <2> HIDE DEF p
  <2>3. /\ commands' \subseteq Messages /\ page' \in Pages
        /\ page'.phase = "open" /\ page'.snapshot = a.snapshot /\ page'.heard
    BY <1>3, <2>1, <2>2, RenderedTypes
  <2>4. sent = <<>> => a.snapshot = ui
    BY <1>1, <1>2, <1>5 DEF MessageInv, InStep
  <2>5. sent # <<>> => sent[Len(sent)] = ui
    BY <1>2 DEF MessageInv, InStep
  <2>6. InStep'
    BY <1>1, <2>3, <2>4, <2>5 DEF InStep
  <2>7. MessageTypeOK'
    BY <1>1, <2>3 DEF MessageInv, MessageTypeOK
  <2>8. NothingToOthers'
    BY <2>3 DEF NothingToOthers
  <2>9. QED
    BY <2>6, <2>7, <2>8 DEF MessageInv
<1>6. QED
  BY <1>4, <1>5


LEMMA ReceiveAnswerMessages ==
  ASSUME MessageInv, ReceiveAnswer
  PROVE  MessageInv'
<1>1. PICK a \in answers, wanted \in SUBSET page.wanted,
          summary \in {page.summary, "none", "loading", "loaded"} :
        /\ answers' = answers \ {a}
        /\ page' = [page EXCEPT !.action = "none", !.wanted = wanted, !.summary = summary]
        /\ UNCHANGED <<ui, commands, sent, tests, clicks>>
  <2>1. PICK a \in answers :
          /\ answers' = answers \ {a}
          /\ page' = [page EXCEPT
               !.action = "none",
               !.wanted = IF a.ok THEN @ ELSE WithoutSwitch(a.op),
               !.summary = CASE a.op = "save" /\ a.ok -> "loaded"
                             [] a.op = "delete" /\ a.ok ->
                                  IF Configured(page) THEN "loading" ELSE "none"
                             [] OTHER -> @]
          /\ UNCHANGED <<ui, commands, sent, tests, clicks>>
    BY DEF ReceiveAnswer
  <2>2. (IF a.ok THEN page.wanted ELSE WithoutSwitch(a.op)) \subseteq page.wanted
    BY DEF WithoutSwitch
  <2>3. (CASE a.op = "save" /\ a.ok -> "loaded"
           [] a.op = "delete" /\ a.ok -> IF Configured(page) THEN "loading" ELSE "none"
           [] OTHER -> page.summary) \in {page.summary, "none", "loading", "loaded"}
    OBVIOUS
  <2>4. QED
    BY <2>1, <2>2, <2>3
<1>2. page.phase = "open"
  BY AnswersAreToOpenPages
<1>3. page \in Pages
  BY DEF MessageInv, MessageTypeOK
<1>4. /\ page' \in Pages /\ page'.phase = "open" /\ page'.loading = page.loading
      /\ page'.heard = page.heard /\ page'.snapshot = page.snapshot
  BY <1>1, <1>2, <1>3 DEF Pages
<1>5. ~page.loading => page.heard
  BY DEF MessageInv, InStep
<1>6. QED
  BY <1>1, <1>2, <1>4, <1>5, Received DEF MessageInv, MessageTypeOK

LEMMA ReceiveTestResultMessages ==
  ASSUME MessageInv, ReceiveTestResult
  PROVE  MessageInv'
<1>1. /\ page.action = "test" /\ page' = [page EXCEPT !.action = "none"]
      /\ UNCHANGED <<ui, commands, sent, answers, tests, clicks>>
  BY DEF ReceiveTestResult
<1>2. page \in Pages
  BY DEF MessageInv, MessageTypeOK
<1>3. /\ page' \in Pages /\ page'.phase = page.phase /\ page'.loading = page.loading
      /\ page'.heard = page.heard /\ page'.snapshot = page.snapshot
  BY <1>1, <1>2 DEF Pages
<1>4. QED
  BY <1>1, <1>3 DEF MessageInv, MessageTypeOK, NothingToOthers, InStep

LEMMA ReceiveSummaryMessages ==
  ASSUME MessageInv, ReceiveSummary
  PROVE  MessageInv'
<1>1. PICK a \in answers : /\ answers' = answers \ {a}
                           /\ page' = [page EXCEPT !.summary = "loaded"]
                           /\ UNCHANGED <<ui, commands, sent, tests, clicks>>
  BY DEF ReceiveSummary
<1>2. page.phase = "open"
  BY AnswersAreToOpenPages
<1>3. page \in Pages
  BY DEF MessageInv, MessageTypeOK
<1>4. /\ page' \in Pages /\ page'.phase = "open" /\ page'.loading = page.loading
      /\ page'.heard = page.heard /\ page'.snapshot = page.snapshot
  BY <1>1, <1>2, <1>3 DEF Pages
<1>5. ~page.loading => page.heard
  BY DEF MessageInv, InStep
<1>6. QED
  BY <1>1, <1>2, <1>4, <1>5, Received DEF MessageInv, MessageTypeOK

(* A control: the page asks for one thing, and shows it at work.           *)
LEMMA ClickMessages ==
  ASSUME MessageInv, page.phase = "open", NEW op \in Actions, NEW value \in BOOLEAN,
         Click(op, value), NEW wanted \in SUBSET (Switches \X BOOLEAN),
         page' = [page EXCEPT !.action = op, !.wanted = wanted]
  PROVE  MessageInv'
<1>1. /\ Clicked(op)
      /\ commands' = commands \cup {Invoke(op, value)}
      /\ UNCHANGED <<ui, sent, answers>>
  BY DEF Click
<1>2. page \in Pages /\ commands \subseteq Messages /\ tests \in 0..MaxTests /\ clicks \in 0..MaxCommands
  BY DEF MessageInv, MessageTypeOK
<1>3. Invoke(op, value) \in Messages
  BY InvokeTypes DEF Invokes
<1>4. /\ page' \in Pages /\ page'.phase = "open" /\ page'.loading = page.loading
      /\ page'.heard = page.heard /\ page'.snapshot = page.snapshot
  BY <1>2 DEF Pages
<1>5. ~page.loading => page.heard
  BY DEF MessageInv, InStep
<1>6. tests' \in 0..MaxTests /\ clicks' \in 0..MaxCommands
  BY <1>1, <1>2, PageAssumption DEF PageAssumption, Clicked
<1>7. QED
  BY <1>1, <1>2, <1>3, <1>4, <1>5, <1>6, Received

LEMMA ControlMessages ==
  ASSUME MessageInv, NEW op \in Actions, NEW value \in BOOLEAN, Click(op, value),
         page.phase = "open", page' = [page EXCEPT !.action = op]
  PROVE  MessageInv'
<1>1. page \in Pages
  BY DEF MessageInv, MessageTypeOK
<1>2. /\ page.wanted \in SUBSET (Switches \X BOOLEAN)
      /\ page' = [page EXCEPT !.action = op, !.wanted = page.wanted]
  BY <1>1 DEF Pages
<1>3. QED
  BY <1>2, ClickMessages

LEMMA ToggleMessages ==
  ASSUME MessageInv, NEW op \in Switches, Toggle(op)
  PROVE  MessageInv'
<1> DEFINE value == ~Shown(op)
<1> DEFINE wanted == WithoutSwitch(op) \cup
                     (IF page.snapshot[op] = value THEN {} ELSE {<<op, value>>})
<1>1. /\ page.phase = "open" /\ Click(op, value)
      /\ page' = [page EXCEPT !.action = op, !.wanted = wanted]
  BY DEF Toggle, ControlsEnabled
<1>2. page \in Pages
  BY DEF MessageInv, MessageTypeOK
<1>3. value \in BOOLEAN
  OBVIOUS
<1> HIDE DEF value
<1>4. wanted \in SUBSET (Switches \X BOOLEAN)
  BY <1>2, <1>3 DEF WithoutSwitch, Pages
<1> HIDE DEF wanted
<1>5. op \in Actions
  BY DEF Actions
<1>6. QED
  BY <1>1, <1>3, <1>4, <1>5, ClickMessages


LEMMA OpenSettingsMessages ==
  ASSUME MessageInv, OpenSettings
  PROVE  MessageInv'
<1>1. /\ page.phase = "absent" /\ page' = Blank("loading")
      /\ UNCHANGED <<ui, commands, sent, answers, tests, clicks>>
  BY DEF OpenSettings
<1>2. /\ page' \in Pages /\ page'.phase = "loading" /\ page'.loading /\ ~page'.heard
  BY <1>1, BlankTypes DEF Blank
<1>3. QED
  BY <1>1, <1>2 DEF MessageInv, MessageTypeOK, NothingToOthers, InStep

(* What the page that is gone has asked for goes on, unheard.              *)
LEMMA ReloadMessages ==
  ASSUME MessageInv, Reload
  PROVE  MessageInv'
<1>1. /\ clicks < MaxCommands /\ clicks' = clicks + 1 /\ UNCHANGED tests
      /\ page' = Blank("loading")
      /\ commands' = {[cmd EXCEPT !.awaited = FALSE] : cmd \in commands}
      /\ sent' = <<>> /\ answers' = {}
      /\ UNCHANGED ui
  BY DEF Reload
<1>2. /\ page' \in Pages /\ page'.phase = "loading" /\ page'.loading /\ ~page'.heard
  BY <1>1, BlankTypes DEF Blank
<1>3. commands \subseteq Messages /\ tests \in 0..MaxTests /\ clicks \in 0..MaxCommands
  BY DEF MessageInv, MessageTypeOK
<1>4. \A cmd \in commands' : cmd \in Messages /\ ~cmd.awaited
  BY <1>1, <1>3 DEF Messages
<1>5. tests' \in 0..MaxTests /\ clicks' \in 0..MaxCommands
  BY <1>1, <1>3, PageAssumption DEF PageAssumption
<1>6. MessageTypeOK'
  BY <1>1, <1>2, <1>4, <1>5 DEF MessageInv, MessageTypeOK
<1>7. QED
  BY <1>1, <1>2, <1>4, <1>6 DEF MessageInv, NothingToOthers, InStep

LEMMA TrayToggleMessages ==
  ASSUME MessageInv, TrayToggle
  PROVE  MessageInv'
<1>1. /\ clicks < MaxCommands /\ clicks' = clicks + 1 /\ UNCHANGED tests
      /\ SetSelection(~ui.selection)
      /\ UNCHANGED <<commands, answers, page>>
  BY DEF TrayToggle
<1>2. /\ MessageTypeOK /\ NothingToOthers /\ InStep
      /\ ui \in Snapshots /\ tests \in 0..MaxTests /\ clicks \in 0..MaxCommands
  BY DEF MessageInv, MessageTypeOK
<1> DEFINE u == [ui EXCEPT !.selection = ~ui.selection]
<1>3. u \in Snapshots
  BY <1>2 DEF Snapshots
<1>4. Replace(u)
  BY <1>1 DEF SetSelection
<1> HIDE DEF u
<1>5. /\ ui' \in Snapshots /\ sent' \in Seq(Snapshots) /\ InStep'
      /\ page.phase # "open" => sent' = <<>>
  BY <1>1, <1>2, <1>3, <1>4, SaidInStep
<1>6. tests' \in 0..MaxTests /\ clicks' \in 0..MaxCommands
  BY <1>1, <1>2, PageAssumption DEF PageAssumption
<1>7. MessageTypeOK'
  BY <1>1, <1>2, <1>5, <1>6 DEF MessageTypeOK
<1>8. NothingToOthers'
  BY <1>1, <1>2, <1>5 DEF NothingToOthers
<1>9. QED
  BY <1>5, <1>7, <1>8 DEF MessageInv

LEMMA MessageStep ==
  ASSUME MessageInv, [Next]_vars
  PROVE  MessageInv'
<1>1. CASE UNCHANGED vars
  BY <1>1 DEF vars, MessageInv, MessageTypeOK, NothingToOthers, InStep
<1>2. CASE Shell /\ UNCHANGED <<page, tests, clicks>>
  BY <1>2, ShellSaid, ShellReplied, ShellMessages DEF MessageInv
<1>3. CASE Renderer
  BY <1>3, PageStartsMessages, ReceiveSnapshotsMessages, ReceiveInitialMessages,
     ReceiveAnswerMessages, ReceiveTestResultMessages, ReceiveSummaryMessages DEF Renderer
<1>4. CASE ToggleSelection \/ ToggleTranslation
  BY <1>4, ToggleMessages DEF ToggleSelection, ToggleTranslation, Switches
<1>5. CASE ChangeSetting
  <2>1. Click("setting", FALSE) /\ page' = [page EXCEPT !.action = "setting"]
    BY <1>5 DEF ChangeSetting
  <2>2. page.phase = "open"
    BY <1>5 DEF ChangeSetting, Enabled, CredentialControls, ControlsEnabled
  <2>3. "setting" \in Actions
    BY DEF Actions
  <2>4. QED
    BY <2>1, <2>2, <2>3, ControlMessages
<1>6. CASE PressSave \/ PressTest \/ PressDelete
  <2>1. PICK op \in {"save", "test", "delete"} : PressButton(op)
    BY <1>6 DEF PressSave, PressTest, PressDelete
  <2>2. /\ page.phase = "open" /\ Click(op, FALSE)
        /\ page' = [page EXCEPT !.action = op]
    BY <2>1 DEF PressButton, CredentialControls, ControlsEnabled
  <2>3. op \in Actions
    BY DEF Actions
  <2>4. QED
    BY <2>2, <2>3, ControlMessages
<1>7. CASE OpenSettings \/ Reload \/ TrayToggle
  BY <1>7, OpenSettingsMessages, ReloadMessages, TrayToggleMessages
<1>8. QED
  BY <1>1, <1>2, <1>3, <1>4, <1>5, <1>6, <1>7 DEF Next, User

-----------------------------------------------------------------------------
(* The invariant.                                                          *)

LEMMA CallInit == Init => CallInv
<1> SUFFICES ASSUME Init
             PROVE  CallInv
  OBVIOUS
<1>1. CallTypeOK
  BY DEF Init, ProviderInit, CallTypeOK, ProviderTypeOK
<1>2. OneController /\ NoCallOutlivesConsent /\ OnlyReads
  BY PageAssumption DEF PageAssumption, Init, ProviderInit, OneController,
     NoCallOutlivesConsent, LiveCalls, Live, OnlyReads
<1>3. QED
  BY <1>1, <1>2 DEF CallInv

LEMMA MessageInit == Init => MessageInv
<1> SUFFICES ASSUME Init
             PROVE  MessageInv
  OBVIOUS
<1>1. /\ ui \in Snapshots /\ commands = {} /\ sent = <<>> /\ answers = {}
      /\ page = Blank("absent") /\ tests = 0 /\ clicks = 0
  BY PageAssumption DEF Init, PageAssumption
<1>2. page \in Pages /\ page.phase = "absent" /\ page.loading /\ ~page.heard
  BY <1>1, BlankTypes DEF Blank
<1>3. MessageTypeOK
  BY <1>1, <1>2, PageAssumption DEF PageAssumption, MessageTypeOK
<1>4. QED
  BY <1>1, <1>2, <1>3 DEF MessageInv, NothingToOthers, InStep

(* Everything below follows from this.                                     *)
LEMMA Invariance == Spec => []PageInv
<1>1. Init => PageInv
  BY CallInit, MessageInit DEF PageInv
<1>2. PageInv /\ [Next]_vars => PageInv'
  BY CallStep, MessageStep DEF PageInv
<1>3. QED
  BY <1>1, <1>2, PTL DEF Spec

(* A test that was under way when the credentials were saved or deleted,   *)
(* or translation was switched off, has settled: cancelProviderTest aborts *)
(* the one controller, and every live call is that controller's, however   *)
(* often a test was replaced and however late the finally blocks ran.      *)
THEOREM TestsEndWithConsent == Spec => []NoCallOutlivesConsent
<1>1. PageInv => NoCallOutlivesConsent
  BY DEF PageInv, CallInv
<1>2. QED
  BY <1>1, Invariance, PTL

(* Behind a test that has settled, at its deadline, because another one    *)
(* has replaced it or because consent has gone, no request is on its way   *)
(* or still to come: translate() aborts the fetch, and #translateOnce      *)
(* looks at the signal again after the read that cannot be aborted.        *)
THEOREM SettledTestsAreSilent == Spec => []NothingIsSentBehind
<1>1. PageInv => NothingIsSentBehind
  BY DEF PageInv, CallInv, OnlyReads, NothingIsSentBehind
<1>2. QED
  BY <1>1, Invariance, PTL

(* A page with nothing on its way shows the shell's state: what            *)
(* useUiShellSnapshot takes from the answer to its first request never     *)
(* overwrites a broadcast, across reloads and any number of commands.      *)
THEOREM PagesAreTruthful == Spec => []PageIsTruthful
<1>1. PageInv => PageIsTruthful
  <2> SUFFICES ASSUME PageInv
               PROVE  PageTypeOK /\ PageShowsState
    BY DEF PageIsTruthful
  <2>1. PageTypeOK
    BY DEF PageInv, CallInv, CallTypeOK, MessageInv, MessageTypeOK, PageTypeOK, Messages, Replies, Pages
  <2>2. PageShowsState
    BY DEF PageInv, MessageInv, InStep, PageShowsState
  <2>3. QED
    BY <2>1, <2>2
<1>2. QED
  BY <1>1, Invariance, PTL

=============================================================================
