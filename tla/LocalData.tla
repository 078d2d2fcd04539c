----------------------------- MODULE LocalData -----------------------------
(***************************************************************************)
(* The data of the application across its starts: the settings and the     *)
(* credential in SQLite, the start and the shutdown of the main process    *)
(* (index.ts, ShellLifecycle, ShellController.start and dispose), crashes, *)
(* and the reset of all local data, which ends in a helper process that    *)
(* removes the userData directory after the application has exited.  One   *)
(* of the settings is the place of the floating ball, on displays that     *)
(* come and go; BallPosition has its geometry.                             *)
(*                                                                         *)
(* Every write of SQLite is one step; a crash may come between any two.    *)
(* The directory has two parts here, the database and the marker of a      *)
(* pending reset, which a recursive removal takes in either order.         *)
(* Windows does not remove the database while the application has it open. *)
(***************************************************************************)
EXTENDS BallPosition, SequencesExt

CONSTANTS
  Layouts,          \* the displays there may be, the primary one first
  Drags,            \* where the user may drag the ball to
  FirstLayout,      \* the displays at first
  LeftAnchor,       \* where an earlier run of the application left the ball
  MaxProcesses,     \* bound on the starts of the application
  MaxResets,        \* bound on the markers written
  Users             \* bounds on what the user does: calls of the settings page,
                    \* and moves of the ball or the displays

ASSUME ConstantsAssumption ==
  /\ {MaxProcesses, MaxResets} \subseteq Nat
  /\ Users \subseteq [calls : Nat, moves : Nat]
  /\ FirstLayout \in Layouts /\ LeftAnchor \in Anchors /\ Drags \subseteq Areas
  /\ \A layout \in Layouts :
       layout \in Seq(Screens) /\ layout # <<>>

VARIABLES
  stored,     \* the database: NoProfile if there is none
  marker,     \* the number of the reset whose marker is on disk, 0 for none
  helpers,    \* the helper process of each reset
  main,       \* the process that holds the single-instance lock
  router,     \* a process that only reschedules a pending reset
  shown,      \* UiShellState
  displays,   \* the displays of the machine
  window,     \* the bounds of the ball's window
  call,       \* the step a save, a delete or a reset has come to
  pids, resets, user,   \* counters of the bounds; the user's count down
  doomed,     \* history: a marker was written for the profile on disk ("yes"), or
              \* was, but a helper was killed after taking it ("cut")
  withdrawn,  \* history: the user's last word on online translation was no
  missed      \* history: the displays changed while the windows were loading

counters == <<pids, resets, user>>
history == <<doomed, withdrawn>>
ball == <<displays, window, missed>>
vars == <<stored, marker, helpers, main, router, shown, call, counters, history, ball>>

-----------------------------------------------------------------------------
(* Settings.                                                               *)

Values == {"absent", "on", "off", "garbage"}
Phase2Keys == {"edgeSnap"}             \* ball.visible and theme are handled alike
Phase3Keys == {"selection"}            \* ocrActivation too
Phase4Keys == {"enabled", "consent"}
Keys == Phase2Keys \cup Phase3Keys \cup Phase4Keys

KnownVersion == 1

Profiles == [settings : [Keys -> Values], anchor : Anchors, credential : BOOLEAN,
             version : -1..(KnownVersion + 1)]
EmptyProfile == [settings |-> [key \in Keys |-> "absent"], anchor |-> NoAnchor,
                 credential |-> FALSE, version |-> 0]
NoProfile == [EmptyProfile EXCEPT !.version = -1]   \* there is no database

Defaults == [key \in Keys |-> key \in Phase2Keys \cup Phase3Keys]

(* What a row holds: nothing, what is not JSON or of no use, or a value.   *)
ReadSetting(profile, key) ==
  CASE profile.settings[key] = "absent" -> "missing"
    [] profile.settings[key] = "garbage" -> "invalid"
    [] OTHER -> "value"

(* A value that is missing or does not pass its guard is the default.      *)
ReadValidated(profile, key) ==
  IF ReadSetting(profile, key) = "value" THEN profile.settings[key] = "on" ELSE Defaults[key]

ReadAnchor(profile) == IF IsBallAnchor(profile.anchor) THEN profile.anchor ELSE NoAnchor

LoadPhase3(profile) ==
  [edgeSnap |-> ReadValidated(profile, "edgeSnap"), anchor |-> ReadAnchor(profile),
   selection |-> ReadValidated(profile, "selection")]
LoadPhase4(profile) ==
  LET phase3 == LoadPhase3(profile)
  IN  [edgeSnap |-> phase3.edgeSnap, anchor |-> phase3.anchor, selection |-> phase3.selection,
       enabled |-> ReadValidated(profile, "enabled"),
       consent |-> ReadValidated(profile, "consent")]

Statuses == {"missing", "configured", "unavailable"}

State(settings, enabled, status) ==
  [edgeSnap |-> settings.edgeSnap, anchor |-> settings.anchor, selection |-> settings.selection,
   consent |-> settings.consent, enabled |-> enabled, status |-> status]

(* Mutant: the stored consent is not looked at.                            *)
InitializedFromSwitch(settings, status) ==
  State(settings, settings.enabled /\ status = "configured", status)

(* UiShellState.initialize, with the settings that were loaded.            *)
Initialized(settings, status) ==
  State(settings, settings.enabled /\ status = "configured" /\ settings.consent, status)

Written(profile, values) ==
  [profile EXCEPT !.settings =
    [key \in Keys |-> IF key \in DOMAIN values THEN values[key] ELSE @[key]]]
Set(key, value) == Written(stored, [k \in {key} |-> value])

-----------------------------------------------------------------------------
Off == [pid |-> 0, start |-> "none", shutdown |-> "no", open |-> FALSE,
        ready |-> FALSE, second |-> FALSE, settings |-> FALSE, reset |-> 0]
NoRouter == [pid |-> 0, reset |-> 0]
NoHelper == [phase |-> "none", parent |-> 0]
DefaultState == Initialized(LoadPhase4(EmptyProfile), "missing")
NoWindow == BoundsAt(0, 0)

Processes == [pid : 0..MaxProcesses,
              start : {"none", "ready", "migrating", "status", "windows", "over"},
              shutdown : {"no", "disposing", "complete"},
              open : BOOLEAN, ready : BOOLEAN, second : BOOLEAN, settings : BOOLEAN,
              reset : 0..MaxResets]
States == [edgeSnap : BOOLEAN, selection : BOOLEAN, consent : BOOLEAN, enabled : BOOLEAN,
           anchor : Anchors, status : Statuses]
Helpers == [phase : {"none", "checking", "waiting", "removing"}, parent : 0..MaxProcesses]

TypeOK ==
  /\ stored \in Profiles
  /\ marker \in 0..MaxResets
  /\ helpers \in [1..MaxResets -> Helpers]
  /\ main \in Processes
  /\ router \in [pid : 0..MaxProcesses, reset : 0..MaxResets]
  /\ shown \in States
  /\ displays \in Layouts /\ window \in Areas
  /\ call \in {"none", "save", "delete consent", "delete credential",
               "stop host", "schedule", "spawn"}
  /\ pids \in 0..MaxProcesses /\ resets \in 0..MaxResets
  /\ user \in [calls : Nat, moves : Nat]
  /\ doomed \in {"no", "yes", "cut"} /\ withdrawn \in BOOLEAN /\ missed \in BOOLEAN

(* A first start, or a profile left by this version or by a newer one,     *)
(* whose stored values need not be valid.                                  *)
Init ==
  /\ displays = FirstLayout /\ window = NoWindow /\ missed = FALSE
  /\ \/ stored = NoProfile
     \/ \E value \in {"on", "garbage"}, version \in {KnownVersion, KnownVersion + 1} :
          stored = [settings |-> [key \in Keys |-> IF key = "consent" THEN "on" ELSE value],
                    anchor |-> IF value = "on" THEN LeftAnchor
                               ELSE [LeftAnchor EXCEPT !.verticalRatio = [n |-> 3, d |-> 2]],
                    credential |-> TRUE, version |-> version]
  /\ marker = 0 /\ helpers = [reset \in 1..MaxResets |-> NoHelper]
  /\ main = Off /\ router = NoRouter
  /\ shown = DefaultState /\ call = "none"
  /\ pids = 0 /\ resets = 0 /\ user \in Users
  /\ doomed = "no" /\ withdrawn = FALSE

-----------------------------------------------------------------------------
(* Scheduling a reset and the helper.                                      *)

Alive(pid) == pid \in {main.pid, router.pid}

(* The marker names the reset; the profile it is written for is doomed.    *)
WriteLocalDataResetMarker(reset) ==
  /\ marker' = reset
  /\ doomed' = IF stored # NoProfile THEN "yes" ELSE "no"

NextReset ==
  /\ resets < MaxResets
  /\ resets' = resets + 1
  /\ WriteLocalDataResetMarker(resets')

Spawned(reset, pid) ==
  helpers' = [helpers EXCEPT ![reset] = [phase |-> "checking", parent |-> pid]]

Helper(reset, from, to) ==
  /\ helpers[reset].phase = from
  /\ helpers' = [helpers EXCEPT ![reset] = IF to = "none" THEN NoHelper ELSE [@ EXCEPT !.phase = to]]
  /\ UNCHANGED <<main, router, shown, call, counters, withdrawn, ball>>

(* The marker must be the one this helper was started for.                 *)
ValidateMarker(reset) ==
  /\ Helper(reset, "checking", IF marker = reset THEN "waiting" ELSE "none")
  /\ UNCHANGED <<stored, marker, doomed>>

WaitForParentExit(reset) ==
  /\ ~Alive(helpers[reset].parent)
  /\ Helper(reset, "waiting", "removing")
  /\ UNCHANGED <<stored, marker, doomed>>

RemoveMarker(reset) ==
  /\ marker # 0
  /\ marker' = 0
  /\ Helper(reset, "removing", "removing")
  /\ UNCHANGED <<stored, doomed>>

RemoveProfile(reset) ==
  /\ ~main.open /\ stored # NoProfile
  /\ stored' = NoProfile /\ doomed' = "no"
  /\ Helper(reset, "removing", "removing")
  /\ UNCHANGED marker

RemovalEnds(reset) ==
  /\ marker = 0 /\ stored = NoProfile
  /\ Helper(reset, "removing", "none")
  /\ UNCHANGED <<stored, marker, doomed>>

(* Mutant: a failed removal leaves things as they are.                     *)
RemovalFailsForGood(reset) ==
  /\ Helper(reset, "removing", "none")
  /\ UNCHANGED <<stored, marker, doomed>>

(* The database is open, or another file is locked: the marker is restored.*)
RemovalFails(reset) ==
  /\ Helper(reset, "removing", "none")
  /\ WriteLocalDataResetMarker(reset)
  /\ UNCHANGED stored

(* Ended from outside, or with the machine; in the middle of its removal,  *)
(* nothing restores a marker that was taken before the database.           *)
HelperKilled(reset) ==
  /\ helpers[reset].phase # "none"
  /\ Helper(reset, helpers[reset].phase, "none")
  /\ doomed' = IF helpers[reset].phase = "removing" /\ marker = 0 /\ doomed = "yes"
               THEN "cut" ELSE doomed
  /\ UNCHANGED <<stored, marker>>

-----------------------------------------------------------------------------
(* Starting.                                                               *)

Main(record) ==
  /\ main' = record
  /\ UNCHANGED <<marker, helpers, router, call, counters, doomed, withdrawn, displays>>

HandleSecondInstance ==
  IF main.shutdown # "no" THEN main
  ELSE IF main.ready THEN [main EXCEPT !.settings = TRUE]
  ELSE [main EXCEPT !.second = TRUE]

(* The user starts the application: it reschedules a pending reset, or     *)
(* takes the single-instance lock, or tells the process that has it.       *)
RouteApplicationStart ==
  /\ pids < MaxProcesses
  /\ pids' = pids + 1
  /\ UNCHANGED <<stored, helpers, shown, call, user, withdrawn, ball>>
  /\ IF marker # 0
     THEN /\ router = NoRouter
          /\ NextReset
          /\ router' = [pid |-> pids', reset |-> resets']
          /\ UNCHANGED main
     ELSE /\ main' = IF main = Off THEN [Off EXCEPT !.pid = pids', !.start = "ready"]
                                   ELSE HandleSecondInstance
          /\ UNCHANGED <<marker, router, resets, doomed>>

(* The helper is spawned, or cannot be; the process ends either way.       *)
RouterEnds ==
  /\ router # NoRouter
  /\ Spawned(router.reset, router.pid) \/ UNCHANGED helpers
  /\ router' = NoRouter
  /\ UNCHANGED <<stored, marker, main, shown, call, counters, history, ball>>

(* startWhenReady and the first part of start(): the database is opened,   *)
(* and created if need be.                                                 *)
OpenDatabase ==
  /\ main.start = "ready"
  /\ UNCHANGED <<window, missed>>
  /\ IF main.shutdown = "complete"
     THEN Main([main EXCEPT !.start = "over"]) /\ UNCHANGED <<stored, shown>>
     ELSE /\ Main([main EXCEPT !.start = "migrating", !.open = TRUE])
          /\ stored' = IF stored = NoProfile THEN EmptyProfile ELSE stored
          /\ shown' = DefaultState

(* requestShutdown: without a shell nothing is disposed of.                *)
RequestShutdown(record) ==
  IF record.shutdown # "no" THEN record
  ELSE [record EXCEPT !.ready = FALSE,
                      !.shutdown = IF record.start \in {"none", "ready"} THEN "complete"
                                                                       ELSE "disposing"]

(* start() rejects: onInitializationFailure quits.                         *)
Failed == RequestShutdown([main EXCEPT !.start = "over"])

(* The pending migrations, synchronously; one of a newer version is an     *)
(* error, as is one that fails and is rolled back.                         *)
RunStorageMigrations ==
  /\ main.start = "migrating"
  /\ UNCHANGED <<shown, window, missed>>
  /\ \/ /\ stored.version <= KnownVersion
        /\ stored' = [stored EXCEPT !.version = KnownVersion]
        /\ Main([main EXCEPT !.start = "status"])
     \/ stored.version # KnownVersion /\ UNCHANGED stored /\ Main(Failed)

(* A first start puts the ball on the display with the cursor.             *)
StartAnchors ==
  IF ReadAnchor(stored) # NoAnchor THEN {ReadAnchor(stored)}
  ELSE {CreateDefaultBallAnchor(display) : display \in Range(displays)}

(* getStatus() and load(): a shutdown may have closed the database, or the *)
(* shell be disposed but its database not yet closed.                      *)
LoadSettings ==
  /\ main.start = "status"
  /\ IF ~main.open
     THEN Main(Failed) /\ UNCHANGED <<stored, shown, window, missed>>
     ELSE /\ \E status \in (IF stored.credential THEN {"configured", "unavailable"} ELSE {"missing"}),
              anchor \in StartAnchors :
               shown' = [Initialized(LoadPhase4(stored), status) EXCEPT !.anchor = anchor]
          /\ stored' \in {stored, [stored EXCEPT !.anchor = shown'.anchor]}
          /\ IF main.shutdown = "no"
             THEN /\ Main([main EXCEPT !.start = "windows"])
                  /\ window' = ResolveBallBounds(shown'.anchor, displays) /\ missed' = FALSE
             ELSE Main([main EXCEPT !.start = "over"]) /\ UNCHANGED <<window, missed>>

(* Mutant: a second start during the first is forgotten.                   *)
WindowsStartAlone ==
  /\ main.start = "windows"
  /\ UNCHANGED <<stored, shown, window, missed>>
  /\ Main([main EXCEPT !.start = "over", !.ready = main.shutdown = "no"])

(* The tray and the windows are created, or one fails.                     *)
WindowsStart ==
  /\ main.start = "windows"
  /\ UNCHANGED <<stored, shown, window, missed>>
  /\ \/ main.shutdown = "no" /\ Main([main EXCEPT !.start = "over", !.ready = TRUE,
                                        !.settings = @ \/ main.second, !.second = FALSE])
     \/ main.shutdown # "no" /\ Main([main EXCEPT !.start = "over"])
     \/ Main(Failed)

-----------------------------------------------------------------------------
(* Ending.                                                                 *)

Quit ==
  /\ main # Off /\ main.shutdown = "no" /\ main.start # "migrating"
  /\ Main(RequestShutdown(main))
  /\ UNCHANGED <<stored, shown, window, missed>>

(* performDispose once the host and the last write have settled, or its    *)
(* failure: finishShutdown follows either.                                 *)
Dispose ==
  /\ main.shutdown = "disposing" /\ main.start # "migrating"
  /\ Main([main EXCEPT !.open = FALSE, !.shutdown = "complete"])
  /\ UNCHANGED <<stored, shown, window, missed>>

ProcessEnds ==
  /\ main' = Off /\ call' = "none"
  /\ shown' = DefaultState /\ window' = NoWindow /\ missed' = FALSE
  /\ UNCHANGED <<stored, marker, helpers, router, counters, doomed, withdrawn, displays>>

Exit == main.shutdown = "complete" /\ ProcessEnds
Crash == main # Off /\ ProcessEnds

-----------------------------------------------------------------------------
(* The settings page.  It calls one handler at a time.                     *)

Uses(kind) ==
  /\ user[kind] > 0
  /\ user' = [user EXCEPT ![kind] = @ - 1]
  /\ UNCHANGED <<marker, helpers, main, router, pids, resets, doomed>>

Commanded == main.ready /\ call = "none" /\ Uses("calls") /\ UNCHANGED ball

(* setSelectionEnabled, setTheme, setBallVisible ...: the write, then the  *)
(* state; a write that fails changes nothing.                              *)
SetSelectionEnabled ==
  /\ Commanded
  /\ stored' = Set("selection", IF shown.selection THEN "off" ELSE "on")
  /\ shown' = [shown EXCEPT !.selection = ~@]
  /\ UNCHANGED <<call, withdrawn>>

Closed(state) == [state EXCEPT !.enabled = FALSE, !.consent = FALSE, !.status = "unavailable"]

EnableTranslation ==
  /\ Commanded
  /\ shown.status = "configured" /\ shown.consent
  /\ stored' = Set("enabled", "on")
  /\ shown' = [shown EXCEPT !.enabled = TRUE]
  /\ withdrawn' = FALSE
  /\ UNCHANGED call

SaveBaiduCredentials ==
  /\ Commanded
  /\ stored' = [stored EXCEPT !.credential = TRUE]
  /\ withdrawn' = FALSE
  /\ call' = "save"
  /\ UNCHANGED shown

(* The continuations of a call; without a database they throw.             *)
Continues(step) ==
  /\ call = step
  /\ UNCHANGED <<pids, user, ball>>
Throws ==
  /\ call' = "none"
  /\ UNCHANGED <<stored, marker, helpers, main, router, shown, resets, history>>

SaveConsent ==
  /\ Continues("save")
  /\ \/ ~main.open /\ Throws
     \/ /\ main.open
        /\ stored' = Set("consent", "on")
        /\ shown' = [shown EXCEPT !.consent = TRUE, !.status = "configured"]
        /\ call' = "none"
        /\ UNCHANGED <<marker, helpers, main, router, resets, history>>

(* deleteBaiduCredentials: three writes, each of which may fail.           *)
DeleteBaiduCredentials ==
  /\ Commanded
  /\ shown' = Closed(shown)
  /\ \/ stored' = Set("enabled", "off") /\ withdrawn' = TRUE
     \/ UNCHANGED <<stored, withdrawn>>
  /\ call' = "delete consent"

DeleteConsent ==
  /\ Continues("delete consent")
  /\ call' = "delete credential"
  /\ \/ main.open /\ stored' = Set("consent", "absent") /\ withdrawn' = TRUE
     \/ UNCHANGED <<stored, withdrawn>>
  /\ UNCHANGED <<marker, helpers, main, router, shown, resets, doomed>>

DeleteCredential ==
  /\ Continues("delete credential")
  /\ call' = "none"
  /\ \/ /\ main.open
        /\ stored' = [stored EXCEPT !.credential = FALSE] /\ withdrawn' = TRUE
        /\ shown' = [shown EXCEPT !.status = "missing"]
     \/ UNCHANGED <<stored, withdrawn, shown>>
  /\ UNCHANGED <<marker, helpers, main, router, resets, doomed>>

(* performClearAllLocalData: closed in memory first, then the host is      *)
(* stopped.                                                                *)
ClearAllLocalData ==
  /\ Commanded
  /\ shown' = [Closed(shown) EXCEPT !.selection = FALSE]
  /\ call' = "stop host"
  /\ UNCHANGED <<stored, withdrawn>>

(* Promise.allSettled: any of the four writes may fail.                    *)
PersistReset ==
  /\ Continues("stop host")
  /\ \/ ~main.open /\ Throws
     \/ \E done \in SUBSET (Phase3Keys \cup Phase4Keys \cup {"credential"}) :
          /\ main.open
          /\ stored' = [Written(stored, [key \in done \cap Keys |->
                                          IF key = "consent" THEN "absent" ELSE "off"])
                        EXCEPT !.credential = @ /\ "credential" \notin done]
          /\ shown' = [shown EXCEPT !.status =
                         IF "credential" \in done THEN "missing" ELSE "unavailable"]
          /\ withdrawn' = (withdrawn \/ done \ Phase3Keys # {})
          /\ call' = "schedule"
          /\ UNCHANGED <<marker, helpers, main, router, resets, doomed>>

(* scheduleLocalDataResetAfterExit: the marker, then the helper; if it     *)
(* cannot be spawned the marker stays and the application goes on.         *)
MarkReset ==
  /\ Continues("schedule")
  /\ NextReset
  /\ call' = "spawn"
  /\ main' = [main EXCEPT !.reset = resets']
  /\ UNCHANGED <<stored, helpers, router, shown, withdrawn>>

SpawnHelper ==
  /\ Continues("spawn")
  /\ \/ Spawned(main.reset, main.pid) /\ main' = RequestShutdown(main)
     \/ UNCHANGED <<helpers, main>>
  /\ call' = "none"
  /\ UNCHANGED <<stored, marker, router, shown, resets, history>>

-----------------------------------------------------------------------------
(* The ball.  Where it is put it stays until it is dragged or the displays *)
(* change; the anchor is shown at once, and stored unless the write fails. *)

Place(anchor, bounds, profile) ==
  /\ window' = bounds
  /\ shown' = [shown EXCEPT !.anchor = anchor]
  /\ stored' \in {profile, [profile EXCEPT !.anchor = anchor]}
  /\ UNCHANGED <<call, withdrawn>>

(* The user may drag it as soon as its window has loaded, during a call of *)
(* the settings page too.                                                  *)
HandleBallMoved(requested) ==
  LET placement == DeriveBallPlacement(requested, displays, shown.edgeSnap)
  IN  /\ main.ready \/ (main.start = "windows" /\ main.shutdown = "no")
      /\ Uses("moves")
      /\ Place(placement.anchor, placement.bounds, stored)
      /\ UNCHANGED displays /\ missed' = FALSE

Moves == main.ready /\ call = "none" /\ Uses("moves") /\ missed' = FALSE /\ UNCHANGED displays

SetEdgeSnap ==
  LET value == ~shown.edgeSnap
      placement == DeriveBallPlacement(window, displays, value)
      profile == Set("edgeSnap", IF value THEN "on" ELSE "off")
  IN  /\ Moves
      /\ window' = placement.bounds
      /\ shown' = [shown EXCEPT !.edgeSnap = value, !.anchor = placement.anchor]
      /\ stored' \in {profile, [profile EXCEPT !.anchor = placement.anchor]}
      /\ UNCHANGED <<call, withdrawn>>

ResetBallPosition ==
  \E i \in DOMAIN displays :
    LET anchor == CreateDefaultBallAnchor(displays[i])
    IN  /\ Moves
        /\ window' = ResolveBallBounds(anchor, displays)
        /\ shown' = [shown EXCEPT !.anchor = anchor]
        /\ stored' = [stored EXCEPT !.anchor = anchor]
        /\ UNCHANGED <<call, withdrawn>>

(* Mutant: the ball is not moved when its display is gone.                 *)
RecoverInPlace(layout) ==
  Place(shown.anchor, window, stored)

RecoverBallPosition(layout) ==
  LET resolved == ResolveBallBounds(shown.anchor, layout)
      placement == DeriveBallPlacement(resolved, layout, shown.edgeSnap)
  IN  Place(placement.anchor, placement.bounds, stored)

(* A display comes or goes.  The shell listens once its windows are there. *)
DisplayChanged(layout) ==
  /\ Uses("moves")
  /\ layout # displays /\ displays' = layout
  /\ IF main.ready
     THEN RecoverBallPosition(layout) /\ missed' = FALSE
     ELSE /\ missed' = (missed \/ main.start = "windows")
          /\ UNCHANGED <<stored, shown, window, call, withdrawn>>

-----------------------------------------------------------------------------
MainSteps == \/ OpenDatabase \/ RunStorageMigrations \/ LoadSettings \/ WindowsStart
             \/ Dispose \/ Exit
CallSteps == \/ SaveConsent \/ DeleteConsent \/ DeleteCredential
             \/ PersistReset \/ MarkReset \/ SpawnHelper
UserSteps == \/ SetSelectionEnabled \/ EnableTranslation \/ SaveBaiduCredentials \/ DeleteBaiduCredentials
             \/ ClearAllLocalData \/ Quit
BallSteps == \/ \E requested \in Drags : HandleBallMoved(requested)
             \/ SetEdgeSnap \/ ResetBallPosition
             \/ \E layout \in Layouts : DisplayChanged(layout)
HelperSteps(reset) == \/ ValidateMarker(reset) \/ WaitForParentExit(reset)
                      \/ RemoveMarker(reset) \/ RemoveProfile(reset)
                      \/ RemovalEnds(reset) \/ RemovalFails(reset)
                      \/ HelperKilled(reset)

Next == \/ RouteApplicationStart \/ RouterEnds \/ MainSteps \/ CallSteps \/ UserSteps \/ BallSteps
        \/ Crash
        \/ \E reset \in 1..MaxResets : HelperSteps(reset)

(* The main process carries on with what it has begun.                     *)
Spec == Init /\ [][Next]_vars /\ WF_vars(MainSteps)

-----------------------------------------------------------------------------
(* A reset that was scheduled is not forgotten while its data are there:   *)
(* the marker is on disk for the next start, or a helper is about to       *)
(* remove the data or to restore the marker (runLocalDataResetHelper).     *)
(* A helper killed between the two is what InterruptedIsRemembered is for. *)
Remembered == marker # 0 \/ \E reset \in 1..MaxResets : helpers[reset].phase = "removing"
PendingIsRemembered == doomed = "yes" => Remembered

(* The same of a helper that was interrupted, as the comment in            *)
(* routeApplicationStart has it.  Expected to fail: the recursive removal  *)
(* may take the marker first, and only its own failure brings it back.     *)
InterruptedIsRemembered == doomed # "no" => Remembered

(* Whatever fails, and wherever the application crashes, it is not online  *)
(* after the user has withdrawn the credentials or cleared the data, as    *)
(* long as one of the writes went through (deleteBaiduCredentials,         *)
(* performClearAllLocalData, UiShellState.initialize).                     *)
WithdrawnIsOffline ==
  withdrawn => /\ main.ready => ~shown.enabled
               /\ stored # NoProfile => ~Initialized(LoadPhase4(stored), IF stored.credential
                                          THEN "configured" ELSE "missing").enabled

(* The ball stays where handleBallMoved would put it: within the work area *)
(* of a display that is there, at its edge if it is to snap, so that the   *)
(* `moved' event of putting it there moves it no further, whatever the     *)
(* user drags and changes, over restarts, and on displays that come and go *)
(* (handleBallMoved, recoverBallPosition, start).  Only a change of the    *)
(* displays while the windows load goes unheard until the next.            *)
BallIsInPlace ==
  main.ready /\ ~missed =>
    /\ \E display \in Range(displays) :
         PlaceOn(display, window, shown.edgeSnap).bounds = window
    /\ DeriveBallPlacement(window, displays, shown.edgeSnap).bounds = window

(* A start ends with a ready shell or with the process, and so does a      *)
(* shutdown, whenever it comes (ShellLifecycle).  Whoever starts the       *)
(* application a second time meanwhile gets the settings window, unless    *)
(* the first is quitting (handleSecondInstance, startWhenReady).           *)
StartsAreServed ==
  /\ main # Off /\ ~main.ready ~> main.ready \/ main = Off
  /\ main.second ~> main.settings \/ main = Off

(* What a run checks in every state.                                       *)
ResetIsRemembered == TypeOK /\ PendingIsRemembered

=============================================================================
