# A TLA+ model of Desktop Translate

Desktop Translate shows a card with the translation of the text a user selects in any Windows
program. It is an Electron application (Main process, preload scripts, renderers) and a native C++
program, `selection-host.exe`, which hooks the mouse, reads the selection through UI Automation or
OCR and talks to Main over a named pipe. Everything hard in it is concurrent: answers of a
translation service race with newer selections, settings change while calls are in flight, the host
crashes, hangs and is restarted, threads of the host wait for third-party code that may never
return.

The modules model Main and the host at the level of their handlers, continuations and critical
sections: one action per operation or per step between two awaits or two lock operations. Data is
abstract: a selection, a request, a credential or a child process is a model value.

## 1. Inventory

Paths are below `src/apps/desktop/src/` (D), `src/packages/` (P) and
`src/native/selection-host/` (H).

| Component | State | Operations | Hard behaviour | Correct when |
|---|---|---|---|---|
| Translation session reducer (P `application/src/translation-session.ts`) | the session: none, source-only, translating, translated, failed | six events to a next state and effects | answers out of order | an answer counts only for the request and the selection awaited |
| Translation controller (D `main/translation/translation-controller.ts`) | session, bounds, active request with AbortController | selection, retry, dismiss, cancel; `requestTranslation` with deadline | continuations of old calls run after newer ones began | the card always shows the session, every call ends, no orphan spinner, no orphan call |
| Window manager, card page (D `main/ui-shell/window-manager.ts`, `renderer/card/`) | card window, its readiness, the current card; the page's card | present, dismiss, ready-to-show, getCurrent, changed | the card changes while window and page load | the screen shows the current card, or nothing |
| Provider credential store (D `main/translation/provider-credential-store.ts`) | generation, pending generations, write queue | save, delete, load, getStatus, getSummary | secure storage is slow, fails or hangs; key rotation | nothing deleted or replaced comes back or is handed out |
| Baidu provider (P `translation/src/baidu.ts`) | per call: how far it is | translate, with a deadline and a caller's signal | deadline, abort and work race; reads cannot be cancelled | nothing is sent behind a settled call, every failure mapped |
| Settings page (D `renderer/settings/`, `renderer/shared/`, `preload/`) | snapshot, pending action, optimistic switches, summary | switches, credentials, test, reload | answers, broadcasts and a reload in any order | it shows the shell's state and stays usable |
| Shell controller (D `main/ui-shell/shell-controller.ts`) | settings, status, lifecycle, command chain, windows | selection and translation switches, credentials, displays, reset, dispose | check, await, set; commands queued behind a slow host | what the settings say is what happens |
| Native host supervisor (D `main/native-host/native-host-supervisor.ts`) | child, client, restart count, timers, stopping | start, launch, stop, exit, disconnect, health | `launch()` and `stop()` interleave with exits and timers | one host at a time, no limbo, no host after stop, no restart storm |
| Native host client (D `main/native-host/native-host-client.ts`, `frame-codec.ts`) | pending requests, last event sequence | connect, request, close, frames | late answers, malformed frames | every request settles once, nothing out of protocol is believed |
| Host pipe server, event writer (H `src/ipc/`) | connection, sequence | read, send, number | two writing threads, writes cut off | numbers arrive in order |
| UI Automation worker (H `src/uia/uia_worker.cpp`) | request, outstanding, stop flag | TryGetSelection, ThreadMain, Stop | timeouts leave requests outstanding; providers hang | promises kept, slot freed, Stop ends |
| Selection pipeline (H `src/selection/selection_pipeline.cpp`) | recogniser, newest gesture | Start, Stop, ThreadMain, ResolveSelection | newer gestures cancel older ones at several points | a result is of the newest gesture |
| Mouse hook and queue (H `src/input_hook/mouse_hook.cpp`, `bounded_spsc_queue.h`) | ring buffer, generation | push in the hook, pop in the pipeline | overflow, memory order | no event read twice or torn |
| Selection host application (H `src/app/selection_host_app.cpp`) | listening, handshake, pipeline | requests, pipeline results, disconnects | requests and results interleave | events only while listening |
| Shell lifecycle (D `main/shell-lifecycle.ts`, `index.ts`) | shell, shutdown promise, pending second instance | start, second instance, quit | a quit or a second instance during the start | starts and shutdowns end |
| Local data reset (D `main/local-data-reset.ts`) | marker file, helper process | mark, spawn, wait, remove | crashes and failures half-way | a reset that was scheduled is not forgotten |
| SQLite storage (P `storage/`) | settings, exclusions, secrets, migrations | reads with defaults, writes, compare-and-set | rows that are missing or garbage | the default never says more than the user did |
| Ball and card positions (D `main/ui-shell/ball-position.ts`, `selection-card-position.ts`) | the stored anchor | place, derive, recover | displays that come and go | on a display, where the user left it; the selection stays visible |
| Contracts, IPC handlers (P `contracts/`, D `ui-shell-ipc.ts`) | – | validation | limits on both sides of the pipe | what one side sends the other takes |
| Capture, OCR, parent monitor, registry, metrics, selection reducer | – | – | I/O, or without protocol state | – |

How they interact:

    hook -> queue -> pipeline -> UIA worker / OCR                    (threads of the host)
                        |
                 named pipe: requests, responses, numbered events
                        |
    client <- supervisor -> shell controller -> translation controller -> window manager
                                  |                    |                       |
                          settings (SQLite)     provider (HTTP)            card window
                                  |                    |
                          credential store <-----------+  (secure storage, secrets row)

The supervisor emits ready, unavailable, health and selection events; the shell turns a selection
into `handleSelection`, a lost host into `cancelAndHide`, a settings command into `cancelAndHide`
or a change of what `canTranslate` answers. The card window calls back into the controller when the
user dismisses it. The settings page, the tray and the ball call the shell; every change of the
shell's state is broadcast to the pages. A reset ends the process; a helper removes the data.

## 2. Modules

| Module | Models | Used by |
|---|---|---|
| `TranslationSession` | the reducer as operators from a session and an event to `[state, effects]`; no variables | `TranslationController` |
| `TranslationController` | the controller, its calls, the card the window manager holds, and the shell's influence on both | `CardWindow` |
| `CardWindow` | the controller composed with the card window and the page it loads | `MCTranslationController` |
| `LatestWinsCard` | what the card promises: an abstract specification without requests in flight, signals or windows | refined by `TranslationController` |
| `TranslationControllerProofs` | invariant, step refinement and what the screen shows, proved | – |
| `CredentialStore` | concurrent calls of the store, one step per await | `MCCredentialStore`, `ShellCredentials` |
| `ShellCredentials` | the store composed with the shell's credential and switch commands, the UI state and the settings rows | `MCShellCredentials` |
| `CredentialProofs` | invariants of the store and of the shell above it, proved | – |
| `BaiduProvider` | calls of the provider with deadline, abort and race; what a reply ends a call with | `SettingsPage` |
| `SettingsPageProofs` | invariant of the provider tests and of the page, proved | – |
| `SettingsPage` | the settings page, its bridge, the shell's commands behind it, provider tests and broadcasts | `MCSettingsPage` |
| `ShellSelection` | the shell's chain of host commands, health reports, the host's listening, reset and restarts | `MCShellSelection` |
| `ShellSelectionProofs` | what is on its way between shell and host, and where the host is heading, proved | – |
| `BallPosition` | the geometry of the ball; no variables | `LocalData`, `CardPosition` |
| `CardPosition` | where the card of a selection goes; no variables | `LocalDataProofs` |
| `LocalData` | settings, credential, marker and helper across starts, crashes and resets; start and shutdown of Main; the ball | `MCLocalData` |
| `LocalDataProofs` | resets, withdrawal and the place of the ball, and the geometry of ball and card, proved | – |
| `HostConversation` | both ends of one connection between client and host | `MCHostConversation` |
| `HostConversationProofs` | what is on its way along the pipe, and that neither end breaks the protocol, proved | – |
| `NativeHostSupervisor` | the supervisor's coroutines and timers, and the processes and pipes | `MCNativeHostSupervisor` |
| `BoundedFifo` | what the queue of mouse events promises: an abstract specification | refined by `BoundedSpscQueue` |
| `BoundedSpscQueue` | the ring between hook and pipeline, one step per access to head, tail or a slot | `MCHostThreads` |
| `SelectionPipeline` | hook thread, queue, pipeline thread, and the host's main thread that starts and stops them | `MCSelectionPipeline` |
| `SelectionPipelineProofs` | order of gestures, late results, silence after a stop, proved | – |
| `UiaWorker` | mutex, condition variable, promise and stop protocol of the worker, with the pipeline and main threads | `MCHostThreads`, `MCUiaWorker` |
| `NativeHostProofs` | invariant of the supervisor and its processes; invariant of the ring and its refinement of `BoundedFifo`; the promises of the worker, proved | – |

The `MC` modules only give values and symmetry sets for the `.cfg` files. Operators under
a comment that begins with "Mutant" are deliberately wrong versions of the definition that follows
them; no specification uses one. They are there to show that each property notices a plausible bug.

### TranslationController and the code

`session`, `bounds`, `active` are the controller's fields; `calls` records for every request where
its `requestTranslation` is: `running` until `Promise.race` is decided, `settling` until then/catch
has run, `finishing` until `finally` has run. `ExecuteRequests` and `ExecuteCard` are
`executeEffects` with the methods it calls, split by the state they touch; the order of effects
inside one transition (cancel, dismiss, present, request) is that of the reducer. The shell appears
only as what it may do to the controller: `EnableTranslation`, `DisableTranslation` (with the
dismissal), `FailClosedRuntimeCredentials` (without it), `CancelAndHide`. A provider may answer at any
time or never; it may not observe the abort. The model lets other events come between the callbacks
of one call, which the microtask queue mostly does not: it admits more behaviours than the code.

`LatestWinsCard` has two variables: the card and the set of attempts made. Its `Answer` says that
the attempt on the card, and no other, gets its outcome; its fairness says that it does get it.

### CardWindow and the code

It extends the controller with what the user sees. `visible` is the window, `page` the script of
`CardApp`: not loaded, waiting for `getCurrent()`, open; `heard` is its `receivedChange`. What the
page shows, a change on its way and an answer on its way are each no more than "nothing", "the
current card" or "a past one" (`about`), which is all `CardIsShown` asks. `WindowFollows` joins the
controller's step with `presentSelectionCard` and `dismissSelectionCard`; `ShowCardWindow` is the
handler of ready-to-show. A change that overtakes another that is not yet rendered replaces it.

### CredentialStore and the code

An operation is a record: kind, credential, the generation it read or registered, the await it is
at, the ciphertext it has got, its answer. `writeTail` is the promise chain as the queue of the
operations chained to it. A ciphertext is a pair of the plaintext and the operation that encrypted
it, since the compare-and-set compares bytes and two encryptions of one text differ. `latest` is a
history variable: the newest mutation that reported success. `Earlier` names the operation that
produced what the row holds when the program starts. Repository calls are steps of their own: the
SQLite repository is synchronous inside, but the store awaits it and may not rely on that.
`getSummary` is `load` followed by a projection and is not a separate action.

### ShellCredentials and the code

It extends `CredentialStore` and adds what the shell keeps: `credentialStatus`, `enabled` and
`consent` of the UI state, `storedEnabled` and `storedConsent` of the settings table, which a
failing write leaves behind (`Persist`). Each command of the shell is two or three actions: up to
its call of the store, from the answer to the end, and for a save the status read in between, which
is one more call of the store. `returned` holds the calls whose answer the shell has dealt with.
The processor is modelled more closely than in `CredentialStore`: settings and secrets are read and
written by a synchronous SQLite, so repository steps and answers run as microtasks, before anything
that comes from a user, a timer or secure storage (`Drained`). The settings page has one action at a
time, but a reload forgets the one under way and the shell queues none, so commands overlap with each
other, and with the loads of the summary and of the provider. The reset of the local data is in
`LocalData`.

### BaiduProvider, SettingsPage and the code

`work[c]` is how far `#translateOnce` is for call `c`: reading credentials, or fetching. `Settle`
stands for a race that the work wins and the `finally` of `translate`; `Caught` for its catch.
`AbortWork` aborts the controllers of calls: their fetches reject, but a credentials read cannot be
cancelled and goes on behind a call that has settled. Such a call is in `aborted`, which is what its
work finds when it looks at the signal again (`CredentialsFound`). A read that newer credentials have
superseded ends at once and without an effect. `Verdicts` is everything a reply can end a
call with, by the mappings of the source; a reply is a status and what parsing finds in its body.

In `SettingsPage`, `commands` are invokes on their way to the shell or begun there, `answers` and
`sent` what comes back. The code does not rely on the order of answers and broadcasts, so the model
does not give one; broadcasts keep theirs. `ReceiveSnapshots` takes any number of them at once, as
React may. The window is created on first use and then only hidden; the menu that Electron installs
by default can reload it. `asker` tells whether the page that began a test still exists. Every other
control of the page is the action "setting". The switch of selection and the choice of OCR's
activation await the host once they are written and broadcast: such a command is `begun`, and
`HostAnswers` ends it, well or with an error. The host's queue is in `ShellSelection`, the vault in
`ShellCredentials`; here saving and deleting only begin and end, or hang.

### ShellSelection and the code

`chain` is the promise `selectionCommand` as the queue of commands not yet ended: the first runs,
and each is for the launch it was queued for. `requests` and `replies` are the pipe, each message
with who asked: the running command, `applyHealth` past the chain, the supervisor's poll, or
`nobody` once its timer fired. `failed` records that a command to this host has failed; what the
host does is then not what the switch says, and the properties say so. The supervisor is reduced to
what the shell hears of it; `NativeHostSupervisor` has the rest.

### LocalData, BallPosition and the code

`stored` is the database (a version, four settings that are absent, on, off or garbage, the anchor
of the ball, whether a credential is there), `marker` the file of a pending reset and `helpers` the
process each reset spawned. `main` is the process that holds the single-instance lock, `router` one
that found a marker and only reschedules. Every write is one step; `Crash` may come between any two.
The removal takes marker and database in either order. `doomed` and `withdrawn` are history
variables for what the user was promised. `Users` bounds what the user does in one behaviour: two
calls of the settings page, or three moves of the ball and the displays.

`BallPosition` is `ball-position.ts` in integers, with the vertical ratio as an exact fraction. With
the snap off the horizontal place is kept only in the session (`docs/phase2/acceptance-checklist.md:31`).
`resetBallPosition` takes any display: the one under the cursor. (The page says
"主屏幕右侧默认位置", the primary screen, at `SettingsApp.tsx:348`.)

`CardPosition` is `selection-card-position.ts`; half pixels are kept by doubling before rounding.
`Math.round` is `Round` of `BallPosition`.

### HostConversation and the code

One connection from `connect()` to its end. `outcome` is each request's promise; a request that
timed out is forgotten, and its late answer is `unsolicited`, which closes the client. `toHost` and
`toClient` are the pipe. The host's pipeline, which sends pointer events as well as results, and its
reader each number and write events (`numbered` holds an event between the two, with the writer's
lock); responses are written past that lock. A write that is cut off leaves a `Prefix`. `SelectionContents` says whether the client's
validator and decoder take what the pipeline and `HandlePipelineResult` make of a text, its
rectangles and their limits. The names of failures are the branches of `handleMessage`.

### NativeHostSupervisor and the code

`launch[c]` is where the coroutine of the launch that spawned `c` is; `stop` where `performStop` is,
`stopChild` its local variable. `polled` holds the children whose health loop is armed or in flight.
`child` stands for `this.child` and `this.client`, which are set and cleared together except inside
`stop()`, when `stopping` already hides the difference. A child identity is reused once nothing
refers to it, so two identities are enough for any number of restarts. `maxRestarts` is the constant
`MaxRestarts`; delays of the backoff are left out, the count is not.

### UiaWorker and the code

`worker = "nodding"` is the worker between the false predicate of `condition_.wait` and its sleep,
with the mutex held; critical sections of other threads wait for it, the atomic store and the
notification of `Stop` do not. `promise` follows each `std::promise`. A request that times out stays
outstanding until the worker has finished it. `StopListening` is the joining of the pipeline thread,
which `SelectionHostApplication` does before it stops the worker.

### BoundedSpscQueue and the code

`TryPush` is three steps: the two loads and the comparison, the copy into the slot, the store of
`head`; `TryPop` likewise. The relaxed load is of the caller's own index, so it and the acquire load
of the other's are one step. Acquire and release order make each index a message that carries the
slot with it: interleaving of single accesses then describes every execution that has no data race
on a slot, and that there is none is `NoDataRace`, not an assumption. `Contents` is the refinement
mapping: the `Count` slots from `tail` on.

### SelectionPipeline and the code

There the queue is the FIFO that `BoundedFifo` describes, with calls as single steps. The hook's
callback is two steps, the generation and the push; the pipeline's thread has a step for every wait
(settling, UI Automation, capture, recognition) and for every check of `cancelled()` that follows
one, so the user may press the button between the last check and the sending. Whether a release is a
drag, what policy says of the target and what was read are free choices. The event that wakes the
consumer is left out: `WaitAndPop` returns after 100 ms in any case, which `NothingToPop` stands
for. The client asks for the capability `pointer-down-events`, as the supervisor always does.
A start that is refused or repeated changes nothing and is not an action. `tooLate` and `began` are
history variables: gestures overtaken or stopped during a wait, and what the newest start found.
The user may hold the button when the hook is installed, and moves are not queued (`mouse_hook.cpp:111`).

## 3. Runs

| Run | Instance | Distinct states | Shows |
|---|---|---|---|
| `translation` | 2 selections, 2 requests | 467,756 | the controller's safety, what the screen shows, every call ends, and the refinement of `LatestWinsCard`, liveness included |
| `credentials` | 3 operations | 290,004 | nothing comes back, nothing stale is handed out, callers are served |
| `shell_credentials` | 4 calls of the store | 618,853 | translation needs a stored credential, deletion revokes consent, a failed load closes and a late one changes nothing |
| `settings_page` | 2 tests, 2 other clicks or reloads | 213,761 | the page is truthful and recovers; nothing is sent behind a settled test, and none outlives the consent |
| `shell_selection` | 2 commands and a reset, 2 launches | 360,032 | host, switch and lifecycle come to agree; nothing is shown or listens after a pause or a reset |
| `local_data` | 3 starts, 2 resets, 2 calls or 3 moves | 491,004 | resets are remembered, withdrawals hold, the ball is on a display, starts and shutdowns end |
| `reset_interrupted` | as `local_data` | until the violation | a helper killed between marker and database leaves data that nobody removes |
| `host_conversation` | hello, 2 requests, 3 events | 620,753 | the two ends keep to one protocol; every request settles |
| `host_supervision` | 2 children, budget 2 | 19,205 | supervision, restart budget, stop |
| `selection_pipeline` | 2 presses, queue of 2 | 65,510 | gestures are paired and answered in order, never late; stopping is silent, complete and ends |
| `host_threads` | ring of 4 slots, 3 values; worker with 3 requests | 43,856 | no data race, a FIFO; promises, slot, no lost request, Stop ends |
| `uia_stop_wakeup` | 1 request | until the violation | Stop can terminate the process although no provider hangs |

`host_threads` has the ring and the worker side by side: they share no variable, and in a behaviour
one of them moves. All passing runs explore every reachable state of their instance. Where a run
checks the type invariant and several parts of one promise, they are one property whose conjuncts
have names: `HostIsAccountedFor` is `AtMostOneHost`, `Supervised`, `GivenUpMeansKilled` and
`NoHostAfterStop`; `CallsSettle` is `LaunchSettles` and `StopEnds`; `PromisesAreKept` is
`OpenPromiseIsHeld` and `SlotIsFreed`; `CallsEnd` is `AcceptedIsSettled` and `WorkerStops`;
`GesturesKeepOrder` is `GestureIsPaired` and `EventsAreInOrder`; `ListenerMakesProgress` is
`RequestsEnd` and `OutdatedResultIsFollowed`; `OnlineIsAllowed` is `OnlineHasCredential` and
`DeletionRevokesConsent`; `CallersAreServed` is `StatusAnswers` and `WritesDrain`; `ProtocolIsKept`
is `ConversationIsInProtocol`, `ResetIsRemembered` is `PendingIsRemembered`, `HostAgrees` is
`QuietHostAgrees` and `PageIsTruthful` is `PageShowsState`, each with the types of its module.

Why the bounds are enough. For the safety properties that are proved (4) no bound matters; the runs
show that the models move, and that a bug in them is noticed. The races of the controller are between
a call and the calls before it; two requests give a current one and a cancelled one, and two
selections distinguish "for this selection" from "for this request". Nothing
else is bounded: when all requests are drawn, a selection can only be shown with translation off. Three operations of the store are a read with two mutations around it, or a
mutation with two reads, or three racing mutations; since everything older than the newest pending
generation behaves alike, a hazard of generations needs no more actors. One credential suffices:
what is written is told apart by the operation that wrote it. Four calls under the shell are a save,
its status read, a deletion and a load across them.

Two provider tests are one and the one that replaces it; of the two other clicks, which the tray and
reloads of the page count as, one lets the second test begin and the other cuts it off, or they are
a command and the one that overtakes it. The page starts with everything on, from where every
switch, deletion and test is reachable. Status 200 and 429 and two error codes stand for a reply
that is read and three kinds of failure: the properties only tell time-outs and aborts from the
rest. Two commands of the user are a change and the change that overtakes it, beside the reset; two
launches are a host and its successor. Three starts are one that schedules a reset, one that
crashes, and one that finds what is left; two resets tell a helper from an older one. Two page calls
or three moves of the ball are not mixed: they touch different settings and different variables. The
second display is beside and above the first, and the drags end beyond a corner and between the
edges, so clamping, overlap, distance and both edges occur. Two requests are one that times out and
one that is still pending when its late answer arrives; three events are two of one thread and one
of the other, or a pointer event, a result and a refusal. Texts, rectangles and error messages are
taken at their limits and one beyond.

Three requests of the worker are one that was given up, one turned away and one accepted later. A
restart replaces one child by another, so two children show any overlap of two hosts, and a budget
of two shows the first restart, the last restart, exhaustion and reset. Four slots reach full, empty
and every wrap-around; three values tell a lost value from a repeated one. Two presses are a gesture
and the one that overtakes it, with any number of starts and stops around them; four events and a
queue of two reach drops of a press and of a release.

`CHECK_DEADLOCK FALSE` is set where the program really stops or its bounds are used up: each
operation of the store is called once, the worker exits, the supervisor has stopped, the host has
shut down, a conversation is over, the user has done what `MaxCommands` or `Users` allows. The
controller is checked for deadlock, for it can always be asked to hide the card.

Fairness, and why the code justifies it.
* Controller: one weak fairness for each call, of its deadline and its callbacks: the deadline is a timer
  and fires, promise callbacks run, and the deadline fires once. The provider is owed nothing, nor is
  the user. So `EveryCallEnds` rests on the deadline alone.
* Store: the database answers and the status timer fires. Secure storage has no fairness: it may hang,
  and `CallersAreServed` holds all the same.
* Settings page: one weak fairness of `Prompt`: messages arrive, the shell takes up what it is
  asked, the provider's timer fires, and a command of the host ends, since requests to the host have a
  timer and the queue goes on after a failure; neither page nor shell can be busy for ever. Secure
  storage and the service may never answer, so `PageRecovers` excludes saving and deleting. There are
  as many calls as tests may overlap, so no test waits for a free one.
* Selection: Main handles what has arrived, its timers fire, a killed process exits, a launch ends.
  The host need not answer.
* Local data: weak fairness of `MainSteps`, the continuations of start and shutdown. Helpers, page
  calls and the next start are owed nothing.
* Conversation: only the timers of the requests.
* Supervisor: every await of `launch()` and `stop()` has a time-out, timers fire, a killed process
  exits in the end (but perhaps after the second `stop()` or `launch()` is prepared to wait), and the
  pipe of a dead process closes. A health check fails if the host hangs or the pipe is closed. No
  fairness makes a host exit, hang or answer. `RestartStormEnds` is stated under the condition that
  the stable-run timer resets the count finitely often.
* Worker: threads are scheduled, waits with a time-out end. No fairness for spurious wake-ups, for
  the caller, or for the start of `Stop`.
* Pipeline: the three threads are scheduled, and every wait of the pipeline ends: the settle delay,
  the wait for the worker, capture and recognition all get a time-out from the configuration. That
  OCR respects its own is taken from its interface. No fairness for the user, for requests, or
  between the outcomes of a wait. `ListenerMakesProgress` rests on this.

What the code does not promise shows in how properties are worded.
* A press between the last `cancelled()` and the sending leaves an outdated result on its way to the
  client; `OutdatedResultIsFollowed` says that the press then reaches the client too, and closes the
  card. `GestureIsPaired` holds only until events are dropped: after a dropped press a release ends
  whatever press was seen last.
* `QuietHostAgrees`, `LifecycleSettles` and `SilentAfterReset` make room for a command that failed: a
  start that ran into its timer may still be carried out, and a start that fails on a healthy host
  is not repeated.
* `local_data` kills helpers wherever they are. `ResetIsRemembered` gives up a reset (`doomed = "cut"`)
  only if its helper is killed after it has taken the marker and before the database;
  `InterruptedIsRemembered` does not, and is violated (`reset_interrupted`).
* `LateLoadChangesNothing` is about loads. Of the status that ends a save the same is not so (5).
* `BallIsInPlace` excludes a change of the displays while the windows load (`missed`): the shell
  listens only afterwards (`shell-controller.ts:307`), and the ball stays where it was put until the
  next change.
* A late answer closes the conversation: `ConversationIsInProtocol` allows `unsolicited`, after a
  time-out.

### Findings

`uia_stop_wakeup`: `UiaWorker::Stop` stores `stop_requested_` and notifies without holding `mutex_`
(`uia_worker.cpp:334`). The worker may have evaluated its predicate already and not yet be asleep;
then the notification is lost, the idle worker sleeps on, the wait of 3.5 seconds ends and the process
is terminated, although the comment at lines 337-339 describes that as the fail-safe against a
defective third-party provider. TLC finds this in seven states (`TerminatesOnlyDefectiveProvider`).
Setting the flag under the mutex would close the window. `WorkerStops` holds: shutdown is delayed, not
lost.

`reset_interrupted`: the helper removes the profile with one recursive `rm`
(`local-data-reset.ts:251`), which may take the marker before the database. If it fails, the marker is
written again; if the helper is killed or the machine loses power, it is not, and the next start opens
what was to be removed. The comment at `index.ts:40-41` counts on the marker for a helper that
"encountered a locked file or was interrupted" (`InterruptedIsRemembered`). Removing the marker last
would close the gap.

## 4. Proofs

What the runs check on small instances is proved for every value of the constants, save what is
listed at the end of this section. Each proof has the same shape: an inductive invariant that is the
property and what it rests on, one lemma for each action, or for each group of actions that leave the
same things alone, and a theorem that reads the property off the invariant.

`TranslationControllerProofs` proves, for all sets of selections and requests and from the one
assumption that `NoSelection` and `NoRequest` are not among them:

* `Invariance`: `Spec => []Inv`, from which `TypeCorrect`, `WaitingIsServedAlways`,
  `NoOrphanRequestAlways`, `CardShowsSessionAlways`, `AnswerIsOfThisSelectionAlways`;
* `StepsLikeLatestWinsAlways`: every step of the controller is a step of `LatestWinsCard` or leaves
  the card and the attempts as they are;
* `InvarianceUnderCard`, `CardStaysShown`: with the window and its page, `Inv` still holds and the
  screen shows the current card.

The four safety properties are not inductive one by one. That the spinner is served
(`WaitingIsServed`) needs that a call aborted as cancelled is no longer the session's, which is
`NoOrphanRequest` read backwards; that needs that a drawn request is never drawn again, which is
`SessionIsConsistent` (a session's request is not fresh) and `CallsAreConsistent` (a started call is
about a selection, an undecided one has no outcome). That the card shows the session needs bounds
whenever there is a session, since `card.present` without bounds is dropped. Their conjunction is
inductive. The proof follows `Next`: lemmas about `Abort` and `ExecuteRequests` and `ExecuteCard` say
what executing effects does, then there is one lemma per action, one step per conjunct. The
refinement uses `Inv` to know which card is replaced. `CardInv` adds where the current card is while
the page does not show it: a page that has heard a change shows it or has one on its way, one that
has not will get it as the answer to `getCurrent()`, and a blank page has been sent nothing. That the
preload script drops no card rests on `Inv`: every card the controller shows is a valid one.

`CredentialProofs`, for any finite set of calls and any credentials:

* `CredentialsStayGone`, `AnswersStayCurrent`: `NoResurrection` and `AnswersAreCurrent` of the store.
  `StoreInv` says that a generation is handed out once and is pending as long as its mutation is open
  (`Generations`), that a write in progress has the turn and the row holds what it wrote
  (`WriteHolds`), and that a read which has found nothing pending, and is still current, holds what
  the row holds (`ReadsAreFresh`): which is why a re-encryption writes back nothing but what is there.
* `OnlineNeedsCredentials`, `LateLoadsChangeNothing`, `FailedLoadsClose`: the properties of
  the shell above it, with commands that overlap in any way. Each step of the shell is a step of the
  store for one call, so `StoreInv` is kept. `ShellInv` adds what an answer still tells when it is
  dealt with (`AnswersHold`): a load that failed is of the newest generation, and a status read that
  says "configured" is still right, for answers run as microtasks and no command begins before them;
  and that the shell is closed while the newest mutation is a deletion under way (`DeletingCloses`).

`SettingsPageProofs`, for any number of calls, clicks and reloads, and any subset of snapshots and
replies that satisfies the assumptions (what was loaded as on has consent and credentials):

* `TestsEndWithConsent`, `SettledTestsAreSilent`: `CallInv` says that `providerTestAbortController` is
  the controller of the one call that has not settled (`OneController`), through replacements and late
  `finally` blocks. So aborting that controller ends every test there is. What is left of a settled
  one is a read of the credentials (`OnlyReads`), after which the signal is looked at again.
* `PagesAreTruthful`: `MessageInv` says that the last broadcast on its way is the shell's state; with
  none on its way, the page shows it if it has heard one, and otherwise the answer to its first
  request does (`InStep`). A page not yet open has heard nothing, nor is anything meant for it.

`LocalDataProofs` is about `LocalData`, for any number of starts and resets, any displays and any
drags, and about the geometry it uses:

* `ResetsAreRemembered`: a scheduled reset has a marker or a helper at work, unless a helper was
  killed between removing the marker and removing the data (see 3). It rests on `SpawnsAreNew`: a
  reset whose helper is about to be spawned has none yet, and the numbers given out by the main
  process and by one that only reschedules differ; and on `DatabaseIsThere` and `Phases`, how far a
  process has come when it may write.
* `WithdrawnStaysOffline`: `StaysOff` adds to what is on disk what the shell shows, and that no save
  and no deletion under way will switch translation on. `OffIsRead` says that a start from such a
  profile finds it off, however damaged a setting is.
* `BallStaysInPlace`: on displays that have room for the ball (`BallFits`) and share no point
  (`SideBySide`), the ball is where `handleBallMoved` would put it again. By itself that is not
  inductive: it speaks of the display nearest to the ball. `BallIsPut` says that the ball fits on some
  display, at its edge if it snaps, and `BallIsNearestToItsDisplay` that this is the one
  `findNearestDisplay` finds, since it alone overlaps the ball.
* `PlacementFits`, `PlacementIsStable`: on a work area of at least 80 by 80 (ball and margins) the
  ball is within it, at its edge if it is to snap, and placing it again moves it no further.
* `SnappedBallComesBack`: the stored ratio, resolved on the same display, gives back the pixel. This
  is where rounding matters: `RoundWhole` says that a whole number of pixels, written as a fraction
  of the travel and rounded, is itself.
* `PlacementCanBeStored`: the ratio is between 0 and 1 on displays of any size, those smaller than
  the ball included (`RatioIsValid`), so neither the write nor the next start refuses the anchor.
* `CardIsOnDisplay`: for every finite set of selected rectangles, every size of the card and every
  display with room for it, the card is within the work area, margins included.
* `CardLeavesSelection`: if there is room below or above the selection, the card covers no selected
  line. `UnionCovers` says that the joined rectangle contains all of them; it rests on `Extremes`,
  that a finite non-empty set of integers has a least and a greatest element.

`DataInv`, which joins the conjuncts about the data, was first checked by TLC on all 491,004 states
of `local_data`.

`ShellSelectionProofs`, for any number of commands and one launch or more:

* `HostDoesAsTold`: `HostAgrees` speaks of a quiet moment; the invariant says what is on its way
  before it. `Control` says what may be: a command that runs waits for one answer, of a kind that fits
  it, only the chain starts the host, and one reset at most waits in the chain, or it is past the
  chain and has left no client.
  `Agreement` says where the host is heading: with the switch on, a start or a restart comes that no
  later stop undoes (`OnIsComing`), and with the settings' activation (`OcrIsComing`); with the switch
  off a stop comes, or the host does not listen and nobody starts it (`OffIsComing`); a stop that is
  answered is done (`StopIsDone`). That is claimed of a client none of whose timers has fired and that
  no reset waits for: otherwise the client is lost first, and the next one begins anew. The shell's
  loop over commands that need not ask anything is followed by `ChainGoesOn`: they end up to the first
  that asks, which exists because a set of numbers has a least.
* `PausedMeansNoCard`: whatever was on its way when the selection was paused or a reset requested, no
  card is shown after it; a reset that is past the chain leaves no client that could report one.
* `ResetMeansSilent`, an action property: past a reset that has not failed, the host does not begin to
  listen again, since all starts are the chain's and the chain is empty.

`Agreement` was first checked by TLC, on an instance of 2,345,665 states.

`HostConversationProofs`, for any set of requests and any number of events:

* `ProtocolStaysKept`: `ProtocolIsKept` says that the client has found no fault; it is not inductive,
  as it does not say what the client is going to find. `ConversationInv` follows what is on its way: a
  request is in one place, with the pipe to the host, the reader or the pipe back (`OneAnswer`), and
  the client awaits it, or gave it up after its time (`AnswersAreAwaited`); an answer is of the kind
  that was asked for, and only the last frame of a broken pipe is cut off (`FramesFit`); the answer to
  hello comes before every pointer event (`HelloIsFirst`, `Negotiation`), which holds although pipeline
  and reader are two threads; one thread at a time has a number, so numbers grow along the pipe
  (`Numbering`). Once the client has closed it only says that nothing changes any more: the host may
  go on writing.
* `SelectionsAreValid` is the lemma about contents: whatever UI Automation or OCR finds, cut off at the
  host's limits, is within the frame, within the JSON nodes and valid to the client.

`ConversationInv` was first checked by TLC on all 620,753 states of `host_conversation`.

`NativeHostProofs` has three parts. Of `NativeHostSupervisor`, for any number of children and any
restart budget:

* `HostsAreAccountedFor`: `HostIsAccountedFor` is not inductive. That a restart never overlaps the
  host it replaces rests on restarts being armed only when no process is alive and no launch is under
  way (`ArmedWhenIdle`); that giving up and stopping leave nothing behind rests on a live process
  being the child at hand (`HostIsChild`) and on a launch that failed having killed it
  (`LaunchesHold`); `Stopping` says what `stop()` has ended before it first waits.
* `SpawnsAreAlone`, an action property: no step spawns a host beside another, or after `stop()`.

Of `UiaWorker` (`WorkerSpec`), for any set of requests:

* `PromisesStayKept`: `WorkerInv` says that exactly the request that waits or is served has an open
  promise (`Held`), and that none waits while the worker has one (`OneOrTheOther`). `outstanding_`,
  and not the caller's patience, decides whether another is accepted; that is why a request given up
  after a time-out keeps the slot, and its promise cannot be lost to a successor.
* `PromisesAreSetOnce`, an action property: no promise is set twice.

Of `BoundedSpscQueue` (`RingSpec`), for every number of slots N >= 2 and every set of values without
`None`:

* `QueueHasNoDataRace` and `QueueTypeCorrect`, from an inductive invariant of five conjuncts. Each
  says what one side still knows between its steps: a producer that found a free slot still has one,
  since the consumer can only make room; a consumer that found a full one still has it; what was
  copied is what the slot holds.
* `QueueImplementsFifo`: the refinement. `ContentsShape` says that the ring is empty or full exactly
  when the code says so; `StepRefines` maps storing `head` to `Push`, storing `tail` to `Pop`, a
  refusal to `Refuse` or `FindEmpty`, and every other step to a stutter, with the two modular
  cases of `Increment`.

`SelectionPipelineProofs`, for a queue of any capacity and any number of presses:

* `ListeningStaysWhole`: `Control` relates the main thread's place to which threads are there.
* `GesturesStayInOrder`, `LateResultsAreDropped`, `StoppedMeansSilent`: they rest on one order. The
  n-th press is before its release, and both are before the next press. What the hook reports and
  what waits in the queue keep it (`Stream`); if nothing was dropped it has no gaps (`Unbroken`), so
  that a release meets its own press; what was sent or given up is behind all that is to come
  (`Past`); and a gesture that is too late will notice it before it answers (`LateIsCancelled`).

The assumptions on constants are those the code gives: the null values are not among the values they
stand for (`ConversationAssumption`: a request's identifier is neither that of hello nor that of
none), a queue has room for one event, numbers are natural, an application may launch its host once
(`BoundsAssumption`: its first launch counts), the operating system's displays have identifiers other
than none (`DisplayAssumption`), and a start loads a well-formed snapshot (`PageAssumption`). `ConstantsAssumption` bounds what may happen to the local data, and asks that a
layout of displays is a sequence that is not empty.

Only model-checked: the liveness properties, with the liveness half of the refinement of
`LatestWinsCard`. They need fairness and ENABLED, which the prover does not handle.

## 5. Not modelled

* `session.cancel` of the reducer: nothing sends it. `selection-state-machine.ts`: the desktop
  application does not use it. The provider registry: a map of one entry.
* What `ReadSelection` reads, and how a failed initialisation of UI Automation differs from a
  failing provider: only whether and when an answer comes matters to the protocol.
* The signature of a request, JSON and UTF-8 texts, SQL, paths and process arguments: conversions
  whose outcome (accepted, refused, cut off) is in the models where it changes what happens.
* Accepting and authenticating the client of the pipe, and the host's parsing of frames: a request
  that the host cannot read ends the connection, which `HostCloses` may do at any time.
* The excluded applications and OCR's languages: lists the shell passes on.
* Windows, DXGI, OCR, HTTP, SQLite and Electron themselves, the ball's page, what the pages look
  like: I/O or presentation without protocol state.
* `parent_process_monitor.cpp`: one thread that ends the process with its parent.
* Metrics, `phase4-audit-transport.ts`, the smoke tests and hooks, and `tooling/`: measurement, tests
  and release scripts, not part of the product's behaviour.

Known gaps, listed as hazards without a property or in their notes: a reset that is requested while
the application quits is lost without a trace (`shell-controller.ts:581`); the status read that ends
`saveBaiduCredentials` (`shell-controller.ts:485`) does not ask whether a newer command has come, so
that after save, reload and delete the page may show "unavailable" where the deletion said
"missing", though `load()` takes care that an old read marks nothing
(`provider-credential-store.ts:180`); a card window that fails to load is never tried again; a save
that hangs in secure storage keeps the page's controls disabled until a reload; a second reset
helper may remove the profile of a fresh session.

## 6. Plan

Built, in this order: the translation controller, the store and the shell above it, the supervisor,
the worker, the ring and the pipeline; then the shell's selection commands, the local data with
start and shutdown, the ball and the card, the settings page with the provider, the conversation
with the host, and the card's window.

Then every safety property the runs check was proved: of the controller and the card's window, the
store and the shell above it, the supervisor, the worker, the ring and the pipeline, the page, the
local data and the ball, and last the shell's selection commands and the conversation with the host,
whose invariants follow everything that is under way between two programs.

What is left, in the order of what it would add:

1. The shell's selection commands on top of `HostConversation` instead of a pipe that carries an
   answer to each request: the proofs of both would then meet at what a lost client means.
2. `NativeHostSupervisor` below them, so that the launches of `ShellSelection` are the supervisor's.
3. The known gaps of section 5, when the code closes them: each would become a property.
