---------------------------- MODULE SettingsPage ----------------------------
(***************************************************************************)
(* The settings window, its page (SettingsApp over useUiShellSnapshot) and *)
(* the commands of ShellController behind it: settings, credentials, the   *)
(* provider test, and the snapshots the shell broadcasts; beside it the    *)
(* tray menu.                                                              *)
(*                                                                         *)
(* The window is created when it is first opened and only hidden when it   *)
(* is closed.  Its page can be reloaded (the application leaves Electron's *)
(* default menu in place): what the old page began goes on in the shell,   *)
(* and the new page knows nothing of it.  Broadcasts reach a page in       *)
(* order once its script has subscribed; the code does not rely on their   *)
(* order with the answers of invoke.  React may render several snapshots   *)
(* at once: effects see the last of them.                                  *)
(*                                                                         *)
(* All other controls ask the shell for one thing, and are one action of   *)
(* the page, "setting".  The reset is in LocalData.                        *)
(*                                                                         *)
(* ShellCredentials has the vault and the settings table.  Here a command  *)
(* that waits for secure storage or for the host has a beginning and an    *)
(* end; one that only writes a setting is one step, and fails where the    *)
(* write does.                                                             *)
(***************************************************************************)
EXTENDS BaiduProvider, Sequences, SequencesExt, FiniteSets

CONSTANTS
  NoCall,
  Started,        \* what start() may have loaded
  MaxTests,       \* bound: tests the user asks for
  MaxCommands     \* bound: what else the user does

VARIABLES
  ui,          \* UiShellState, what the page shows of it
  testCall,    \* providerTestAbortController: the call whose controller it is
  asker,       \* who waits for a call: the page, a page that is gone, nobody
  cutOff,      \* calls that began before credentials changed or went off
  commands,    \* invokes of pages: on their way to the shell, or begun there
  sent,        \* broadcasts on their way to the page
  answers,     \* settled invokes on their way to the page
  page,        \* the page
  tests, clicks    \* tests asked for, and other clicks and reloads so far

callVars == <<providerVars, testCall, asker, cutOff>>
vars == <<callVars, settled, ui, commands, sent, answers, page, tests, clicks>>

Switches == {"selection", "translation"}

Snapshots == [selection : BOOLEAN, translation : BOOLEAN, consent : BOOLEAN,
              credentials : {"missing", "configured", "unavailable"}]

ASSUME PageAssumption ==
  /\ NoCall \notin Calls
  /\ Started \subseteq Snapshots
  /\ \A u \in Started : u.translation => u.consent /\ u.credentials = "configured"
  /\ {MaxTests, MaxCommands} \subseteq Nat

DefaultSnapshot ==
  [selection |-> FALSE, translation |-> FALSE, consent |-> FALSE, credentials |-> "missing"]

Actions == Switches \cup {"save", "delete", "test", "setting"}
Invokes == Actions \cup {"snapshot", "summary"}

(* What the preload script passes on to the page as a snapshot.            *)
IsUiShellSnapshot(value) == value \in Snapshots

(* A page that the window has yet to load, or is loading.                  *)
Blank(phase) ==
  [phase |-> phase, snapshot |-> DefaultSnapshot, loading |-> TRUE,
   heard |-> FALSE, action |-> "none", wanted |-> {}, summary |-> "none"]

PageTypeOK ==
  /\ ProviderTypeOK
  /\ ui \in Snapshots
  /\ testCall \in Calls \cup {NoCall}
  /\ asker \in [Calls -> {"nobody", "page", "gone"}]
  /\ cutOff \subseteq Calls
  /\ commands \subseteq [op : Invokes, value : BOOLEAN, awaited : BOOLEAN, begun : BOOLEAN]
  /\ sent \in Seq(Snapshots)
  /\ answers \subseteq [op : Invokes, ok : BOOLEAN, snapshot : Snapshots]
  /\ page \in [phase : {"absent", "loading", "open"}, snapshot : Snapshots,
               loading : BOOLEAN, heard : BOOLEAN,
               action : Actions \cup {"none"}, wanted : SUBSET (Switches \X BOOLEAN),
               summary : {"none", "loading", "loaded"}]
  /\ tests \in 0..MaxTests /\ clicks \in 0..MaxCommands

Init ==
  /\ ProviderInit
  /\ ui \in Started
  /\ testCall = NoCall
  /\ asker = [c \in Calls |-> "nobody"]
  /\ cutOff = {} /\ commands = {} /\ sent = <<>> /\ answers = {}
  /\ page = Blank("absent")
  /\ tests = 0 /\ clicks = 0

-----------------------------------------------------------------------------
(* The shell: state, and the calls it can cancel.                          *)

(* A page whose script has not subscribed misses a broadcast.              *)
Broadcast(u) == sent' = IF page.phase = "open" THEN Append(sent, u) ELSE sent

(* UiShellState.replace: every change is broadcast, equal or not.          *)
Replace(u) == ui' = u /\ Broadcast(u)

WithStatus(status) ==
  [ui EXCEPT !.credentials = status, !.translation = @ /\ status = "configured"]

FailClosed(status) ==
  IF ui.credentials = status /\ ~ui.translation
  THEN UNCHANGED <<ui, sent>>
  ELSE Replace(WithStatus(status))

NoCallSettles == UNCHANGED callVars /\ settled' = {}

LiveCalls == {c \in Calls : Live(c)}

(* Nobody hears of a test whose page is gone.                              *)
Told(c) == IF asker[c] = "gone" THEN "nobody" ELSE asker[c]

(* cancelProviderTest.  New credentials supersede the reads under way:     *)
(* they end without an effect.                                             *)
CancelProviderTest(superseding) ==
  LET S == {testCall} \ {NoCall}
  IN /\ AbortWork(S, IF superseding THEN aborted \cup S ELSE {})
     /\ settled' = AbortedOutcomes(S)
     /\ asker' = [c \in Calls |-> IF c \in S THEN Told(c) ELSE asker[c]]
     /\ testCall' = NoCall
     /\ cutOff' = (cutOff \cup LiveCalls) \ S

(* Mutant: whatever test ends, the field is cleared.                       *)
FinallyClears(c, field) == NoCall

(* The test's finally: the field is cleared if it is still this test's.    *)
Finally(c, field) == IF field = c THEN NoCall ELSE field

-----------------------------------------------------------------------------
(* The shell's commands, as an invoke of the page or the tray begins them. *)

(* The answer of an invoke; a page that is gone hears nothing.             *)
Reply(cmd, ok) ==
  answers' = IF cmd.awaited
             THEN answers \cup {[op |-> cmd.op, ok |-> ok,
                                snapshot |-> IF cmd.op = "snapshot" THEN ui ELSE DefaultSnapshot]}
             ELSE answers

Ends(cmd, ok) == commands' = commands \ {cmd} /\ Reply(cmd, ok)

Asked(op) == {cmd \in commands : cmd.op = op /\ ~cmd.begun}
Running(op) == {cmd \in commands : cmd.op = op /\ cmd.begun}

GetSnapshot ==
  \E cmd \in Asked("snapshot") :
    Ends(cmd, TRUE) /\ NoCallSettles /\ UNCHANGED <<ui, sent>>

(* setSelectionEnabled, of the page and of the tray menu, up to its await  *)
(* of the host.                                                            *)
SetSelection(value) ==
  /\ Replace([ui EXCEPT !.selection = value])
  /\ NoCallSettles

Begins(cmd) ==
  /\ commands' = (commands \ {cmd}) \cup {[cmd EXCEPT !.begun = TRUE]}
  /\ UNCHANGED answers

(* Not written; written, without a host; or the host is to start or stop.  *)
SetSelectionEnabled ==
  \E cmd \in Asked("selection") :
    \/ Ends(cmd, FALSE) /\ NoCallSettles /\ UNCHANGED <<ui, sent>>
    \/ SetSelection(cmd.value) /\ (Ends(cmd, TRUE) \/ Begins(cmd))

(* Written, then broadcast: here as an equal snapshot.  A link is neither; *)
(* after setOcrActivation a host that listens has to begin anew.           *)
SetOther ==
  \E cmd \in Asked("setting") :
    /\ \/ UNCHANGED <<ui, sent>> /\ \E ok \in BOOLEAN : Ends(cmd, ok)
       \/ Replace(ui) /\ \E ok \in BOOLEAN : Ends(cmd, ok)
       \/ ui.selection /\ Replace(ui) /\ Begins(cmd)
    /\ NoCallSettles

(* The host command of a switch or a setting, once those before it in the  *)
(* queue have ended, has been done, or has failed or timed out; what is    *)
(* then broadcast of the host is here an equal snapshot.                   *)
HostAnswers ==
  \E cmd \in Running("selection") \cup Running("setting"), ok \in BOOLEAN :
    /\ Replace(ui) \/ UNCHANGED <<ui, sent>>
    /\ Ends(cmd, ok)
    /\ NoCallSettles

(* Switching off closes the state before it is written, on only after it.  *)
SetTranslationEnabled ==
  \E cmd \in Asked("translation"), written \in BOOLEAN :
    LET allowed == ui.credentials = "configured" /\ ui.consent
    IN IF cmd.value
       THEN /\ IF allowed /\ written THEN Replace([ui EXCEPT !.translation = TRUE])
                                     ELSE UNCHANGED <<ui, sent>>
            /\ Ends(cmd, allowed /\ written)
            /\ NoCallSettles
       ELSE /\ CancelProviderTest(FALSE)
            /\ Replace([ui EXCEPT !.translation = FALSE])
            /\ Ends(cmd, written)

SaveCredentials ==
  \E cmd \in Asked("save") : CancelProviderTest(TRUE) /\ Begins(cmd) /\ UNCHANGED <<ui, sent>>

(* Saved, consent recorded and the status read; or a failure, which closes *)
(* the state unless a newer command superseded this one.                   *)
SaveEnds ==
  \E cmd \in Running("save") :
    /\ \/ /\ \E status \in {"configured", "unavailable"} :
              Replace([WithStatus(status) EXCEPT !.consent = TRUE])
          /\ Ends(cmd, TRUE)
       \/ FailClosed("unavailable") /\ Ends(cmd, FALSE)
       \/ UNCHANGED <<ui, sent>> /\ Ends(cmd, FALSE)
    /\ NoCallSettles

(* The most conservative state first, then the rows, then the vault.       *)
DeleteCredentials ==
  \E cmd \in Asked("delete") :
    /\ CancelProviderTest(TRUE)
    /\ Replace([WithStatus("unavailable") EXCEPT !.consent = FALSE])
    /\ Begins(cmd)

DeleteEnds ==
  \E cmd \in Running("delete"), ok \in BOOLEAN :
    /\ \/ Replace(WithStatus("missing"))
       \/ ~ok /\ Replace(WithStatus("unavailable"))
    /\ Ends(cmd, ok)
    /\ NoCallSettles

(* getBaiduCredentialSummary: read, superseded, nothing there, or a failure. *)
GetSummary ==
  \E cmd \in Asked("summary") :
    /\ \/ UNCHANGED <<ui, sent>> /\ \E ok \in BOOLEAN : Ends(cmd, ok)
       \/ FailClosed("missing") /\ Ends(cmd, TRUE)
       \/ FailClosed("unavailable") /\ Ends(cmd, FALSE)
    /\ NoCallSettles

-----------------------------------------------------------------------------
(* The provider test.                                                      *)

(* A request that the user's settings and selections have no part in.      *)
Probe == [text |-> [length |-> 5, utf16 |-> TRUE, bytes |-> 5, blank |-> FALSE],
          source |-> "en", target |-> "zh-CN"]

ASSUME ProbeAssumption == ValidateTranslationRequest(Probe)

ProbeVerdicts == Verdicts(Probe)

Unused == {c \in Calls : work[c] = "idle" /\ asker[c] = "nobody"}

(* A test replaces the one under way, whose finally runs after the field   *)
(* has been given to the new one.                                          *)
TestProvider ==
  \E cmd \in Asked("test") :
    IF ui.credentials = "configured" /\ ui.consent
    THEN /\ Unused # {}
         /\ LET old == {testCall} \ {NoCall}
                c == CHOOSE d \in Unused : TRUE
            IN
              /\ work' = [WithoutWork(old, {}) EXCEPT ![c] = "credentials"]
              /\ aborted' = LeftBehind(old, {})
              /\ settled' = AbortedOutcomes(old)
              /\ testCall' = IF old = {} THEN c ELSE Finally(testCall, c)
              /\ asker' = [d \in Calls |-> IF d = c
                                          THEN IF cmd.awaited THEN "page" ELSE "gone"
                                          ELSE IF d \in old THEN Told(d) ELSE asker[d]]
              /\ cutOff' = cutOff \ {c}
              /\ commands' = commands \ {cmd}
              /\ UNCHANGED <<ui, sent, answers>>
    ELSE Ends(cmd, TRUE) /\ NoCallSettles /\ UNCHANGED <<ui, sent>>

(* A test ends when its call settles.                                      *)
Settled(c) ==
  /\ testCall' = Finally(c, testCall)
  /\ asker' = [asker EXCEPT ![c] = Told(c)]
  /\ UNCHANGED <<cutOff, commands, answers>>

Deadline(c) == DeadlineReached(c) /\ Settled(c) /\ UNCHANGED <<ui, sent>>

(* The provider's credential callback, of a call or left behind by one.    *)
Credentials(c) ==
  \/ /\ CredentialsFound(c)
     /\ UNCHANGED <<testCall, asker, cutOff, ui, commands, sent, answers>>
  \/ /\ CredentialsMissing(c) /\ Settled(c)
     /\ FailClosed("missing") \/ FailClosed("unavailable")
  \/ /\ StrayEnds(c) /\ UNCHANGED <<testCall, asker, cutOff, commands, answers>>
     /\ FailClosed("missing") \/ FailClosed("unavailable")

Answered(c) == Respond(c, ProbeVerdicts) /\ Settled(c) /\ UNCHANGED <<ui, sent>>

Shell ==
  \/ GetSnapshot \/ SetSelectionEnabled \/ SetTranslationEnabled \/ SetOther \/ HostAnswers
  \/ SaveCredentials \/ SaveEnds \/ DeleteCredentials \/ DeleteEnds
  \/ GetSummary \/ TestProvider
  \/ \E c \in Calls : Deadline(c) \/ Credentials(c) \/ Answered(c)

(* The tray menu's checkbox; nobody waits for the host, whose failure is   *)
(* logged, and a write that fails changes nothing.                         *)
TrayToggle ==
  /\ clicks < MaxCommands
  /\ clicks' = clicks + 1
  /\ SetSelection(~ui.selection)
  /\ UNCHANGED <<commands, answers, page, tests>>

-----------------------------------------------------------------------------
(* The window and its page.                                                *)

Invoke(op, value) == [op |-> op, value |-> value, awaited |-> TRUE, begun |-> FALSE]

OpenSettings ==
  /\ page.phase = "absent"
  /\ page' = Blank("loading")
  /\ NoCallSettles /\ UNCHANGED <<ui, commands, sent, answers, tests, clicks>>

(* useUiShellSnapshot: the subscription, then the request.                 *)
PageStarts ==
  /\ page.phase = "loading"
  /\ page' = [page EXCEPT !.phase = "open"]
  /\ commands' = commands \cup {Invoke("snapshot", FALSE)}
  /\ NoCallSettles /\ UNCHANGED <<ui, sent, answers, tests, clicks>>

Reload ==
  /\ page.phase = "open"
  /\ clicks < MaxCommands
  /\ clicks' = clicks + 1
  /\ page' = Blank("loading")
  /\ commands' = {[cmd EXCEPT !.awaited = FALSE] : cmd \in commands}
  /\ asker' = [c \in Calls |-> IF asker[c] = "page" /\ Live(c) THEN "gone" ELSE "nobody"]
  /\ sent' = <<>> /\ answers' = {}
  /\ settled' = {}
  /\ UNCHANGED <<providerVars, testCall, cutOff, ui, tests>>

Configured(p) == p.snapshot.credentials = "configured"

(* A summary no effect waits for any more.                                 *)
Disowned(cmds) ==
  {IF cmd.op = "summary" THEN [cmd EXCEPT !.awaited = FALSE] ELSE cmd : cmd \in cmds}

(* A render of p and its effects: an optimistic switch that the snapshot   *)
(* has caught up with is let go; the summary is read when the credentials  *)
(* become configured, and no longer awaited when they cease to be.         *)
Rendered(p) ==
  LET let_go == [p EXCEPT !.wanted = {w \in @ : p.snapshot[w[1]] # w[2]}]
  IN IF Configured(p) = Configured(page)
     THEN page' = let_go /\ UNCHANGED commands
     ELSE IF Configured(p)
          THEN /\ page' = [let_go EXCEPT !.summary = "loading"]
               /\ commands' = Disowned(commands) \cup {Invoke("summary", FALSE)}
          ELSE /\ page' = [let_go EXCEPT !.summary = "none"]
               /\ commands' = Disowned(commands)

WithoutSummary(set) == {a \in set : a.op # "summary"}

(* React renders one or more of the broadcasts it has received.            *)
ReceiveSnapshots ==
  /\ page.phase = "open"
  /\ \E n \in 1..Len(sent) :
       /\ IsUiShellSnapshot(sent[n])
       /\ Rendered([page EXCEPT !.snapshot = sent[n], !.loading = FALSE, !.heard = TRUE])
       /\ answers' = IF Configured(page) = (sent[n].credentials = "configured")
                     THEN answers ELSE WithoutSummary(answers)
       /\ sent' = SubSeq(sent, n + 1, Len(sent))
  /\ NoCallSettles /\ UNCHANGED <<ui, tests, clicks>>

(* Mutant: the answer is accepted whatever has been heard.                 *)
ReceiveInitialAlways ==
  \E a \in answers :
    /\ a.op = "snapshot"
    /\ answers' = answers \ {a}
    /\ Rendered([page EXCEPT !.snapshot = a.snapshot, !.loading = FALSE])
    /\ NoCallSettles /\ UNCHANGED <<ui, sent, tests, clicks>>

(* The answer to the page's request: older than any broadcast it has heard. *)
ReceiveInitial ==
  \E a \in answers :
    /\ a.op = "snapshot"
    /\ answers' = answers \ {a}
    /\ IF page.heard THEN UNCHANGED <<page, commands>>
       ELSE Rendered([page EXCEPT !.snapshot = a.snapshot, !.loading = FALSE, !.heard = TRUE])
    /\ NoCallSettles /\ UNCHANGED <<ui, sent, tests, clicks>>

(* The controls that are one action each, by what enables them.            *)
GeneralControls == {"ball-visible", "edge-snap", "reset"}
OcrControls == {"fallback", "alt-drag"}
ThemeControls == {"system", "light", "dark"}
LanguageControls == {"translation-source-language", "translation-target-language"}
LinkControls == {"open-provider-privacy", "open-provider-service-terms"}

ControlsEnabled == page.phase = "open" /\ ~page.loading /\ page.action = "none"

CredentialControls == ControlsEnabled /\ (Configured(page) => page.summary = "loaded")

(* What a switch shows: the optimistic value, else the snapshot.           *)
Shown(switch) ==
  IF \E v \in BOOLEAN : <<switch, v>> \in page.wanted
  THEN CHOOSE v \in BOOLEAN : <<switch, v>> \in page.wanted
  ELSE page.snapshot[switch]

Clicked(op) ==
  IF op = "test" THEN tests < MaxTests /\ tests' = tests + 1 /\ UNCHANGED clicks
                 ELSE clicks < MaxCommands /\ clicks' = clicks + 1 /\ UNCHANGED tests

Click(op, value) ==
  /\ Clicked(op)
  /\ commands' = commands \cup {Invoke(op, value)}
  /\ NoCallSettles /\ UNCHANGED <<ui, sent, answers>>

WithoutSwitch(op) == {w \in page.wanted : w[1] # op}

(* The switch shows the new value at once.                                 *)
Toggle(op) ==
  LET value == ~Shown(op)
  IN /\ ControlsEnabled
     /\ Click(op, value)
     /\ page' = [page EXCEPT
           !.action = op,
           !.wanted = WithoutSwitch(op) \cup
                      (IF page.snapshot[op] = value THEN {} ELSE {<<op, value>>})]

ToggleSelection == Toggle("selection")

ToggleTranslation == Toggle("translation") /\ Configured(page) /\ page.snapshot.consent

Enabled(control) == IF control \in LinkControls THEN CredentialControls ELSE ControlsEnabled

OtherControls ==
  GeneralControls \cup OcrControls \cup ThemeControls \cup LanguageControls \cup LinkControls

ChangeSetting ==
  /\ {control \in OtherControls : Enabled(control)} # {}
  /\ Click("setting", FALSE)
  /\ page' = [page EXCEPT !.action = "setting"]

PressButton(op) ==
  /\ CredentialControls
  /\ Click(op, FALSE)
  /\ page' = [page EXCEPT !.action = op]

(* The form is complete, with the consent, whenever the user wants it.     *)
PressSave == PressButton("save")

PressTest == PressButton("test") /\ Configured(page)

PressDelete == PressButton("delete") /\ page.snapshot.credentials # "missing"

(* runAction's end: a switch that failed shows the snapshot again; a save  *)
(* has the new summary at hand, a deletion none.                           *)
ReceiveAnswer ==
  \E a \in answers :
    /\ a.op \in Actions
    /\ answers' = answers \ {a}
    /\ page' = [page EXCEPT
         !.action = "none",
         !.wanted = IF a.ok THEN @ ELSE WithoutSwitch(a.op),
         !.summary = CASE a.op = "save" /\ a.ok -> "loaded"
                       [] a.op = "delete" /\ a.ok -> IF Configured(page) THEN "loading" ELSE "none"
                       [] OTHER -> @]
    /\ NoCallSettles /\ UNCHANGED <<ui, commands, sent, tests, clicks>>

(* The test has returned, whatever it found.                               *)
ReceiveTestResult ==
  /\ page.action = "test"
  /\ \E c \in Calls :
       /\ asker[c] = "page" /\ ~Live(c)
       /\ asker' = [asker EXCEPT ![c] = "nobody"]
  /\ page' = [page EXCEPT !.action = "none"]
  /\ settled' = {}
  /\ UNCHANGED <<providerVars, testCall, cutOff, ui, commands, sent, answers, tests, clicks>>

(* Read or not, the form is free; what could not be read is left empty.    *)
ReceiveSummary ==
  \E a \in answers :
    /\ a.op = "summary"
    /\ answers' = answers \ {a}
    /\ page' = [page EXCEPT !.summary = "loaded"]
    /\ NoCallSettles /\ UNCHANGED <<ui, commands, sent, tests, clicks>>

Renderer ==
  \/ PageStarts \/ ReceiveSnapshots \/ ReceiveInitial \/ ReceiveAnswer
  \/ ReceiveTestResult \/ ReceiveSummary

User ==
  \/ OpenSettings \/ Reload \/ TrayToggle
  \/ ToggleSelection \/ ToggleTranslation \/ ChangeSetting
  \/ PressSave \/ PressTest \/ PressDelete

Next == (Shell /\ UNCHANGED <<page, tests, clicks>>) \/ Renderer \/ User

(* Messages arrive, the shell takes up what it is asked, timers fire: one  *)
(* condition for them all, as none can be busy for ever.  The requests to  *)
(* the host have timers, too, and the commands queued before them end.     *)
(* Secure storage and the service may never answer.                        *)
Prompt ==
  \/ Renderer
  \/ /\ UNCHANGED <<page, tests, clicks>>
     /\ \/ GetSnapshot \/ SetSelectionEnabled \/ SetTranslationEnabled \/ SetOther
        \/ HostAnswers \/ TestProvider
        \/ \E c \in Calls : Deadline(c)

Fairness == WF_vars(Prompt)

Spec == Init /\ [][Next]_vars /\ Fairness

-----------------------------------------------------------------------------
(* Properties.                                                             *)

(* Saving or deleting the credentials, or switching translation off, ends  *)
(* every provider test under way, whatever page began it and whatever has  *)
(* replaced it since.                                                      *)
NoCallOutlivesConsent == cutOff \cap LiveCalls = {}

(* A page that has received all there is shows the shell's state: neither  *)
(* a late answer to its first request nor a reload leaves it behind.       *)
PageShowsState ==
  page.phase = "open" /\ ~page.loading /\ sent = <<>> => page.snapshot = ui

(* A test, or a setting, does not disable the page for good, even if the   *)
(* credentials cannot be read, the service never answers, or the host      *)
(* fails after the setting has been written and shown.                     *)
Brief == Switches \cup {"test", "setting"}

PageRecovers == []<>(page.action \notin Brief)

(* What a run checks in every state of the page.                           *)
PageIsTruthful == PageTypeOK /\ PageShowsState

=============================================================================
