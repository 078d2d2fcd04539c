-------------------------- MODULE ShellCredentials --------------------------
(***************************************************************************)
(* ShellController over ProviderCredentialStore: the commands of the       *)
(* settings page, the provider's credential callback, and what they leave  *)
(* in the UI state and in the settings database.                           *)
(*                                                                         *)
(* Nothing serialises the commands.  The page disables its controls until  *)
(* the action it has begun ends, but forgets it when it is reloaded, and   *)
(* the shell begins every command at once.  Loads, from the page's summary *)
(* and from the provider, overlap with all of them.                        *)
(*                                                                         *)
(* A command runs up to its call of the store in one step, and from the    *)
(* store's answer to its end in another: the settings repository is        *)
(* synchronous, so nothing but microtasks separates what a step does.      *)
(* The secrets repository is synchronous as well.  Here, unlike in         *)
(* CredentialStore, its steps and the shell's are microtasks: they run to  *)
(* the end before anything that waits for the user, a timer or secure      *)
(* storage.  A write to the settings database may fail.                    *)
(***************************************************************************)
EXTENDS CredentialStore

VARIABLES
  credentialStatus, enabled, consent,    \* UiShellState: snapshot.translation
  storedEnabled, storedConsent,          \* the settings table
  returned     \* store calls whose answer the shell has dealt with

stateVars == <<credentialStatus, enabled, consent>>
settingsVars == <<storedEnabled, storedConsent>>
shellVars == <<stateVars, settingsVars>>

Statuses == {"missing", "configured", "unavailable"}

(* Translation is enabled only where the credentials are configured.       *)
ShellTypeOK ==
  /\ TypeOK
  /\ credentialStatus \in Statuses
  /\ enabled \in BOOLEAN /\ consent \in BOOLEAN
  /\ storedEnabled \in BOOLEAN /\ storedConsent \in BOOLEAN
  /\ enabled => credentialStatus = "configured"
  /\ returned \subseteq {o \in Ops : ops[o].answer # "none"}

(* start(): settings and a status read; both may describe an earlier run.  *)
ShellInit ==
  /\ Init
  /\ credentialStatus \in IF stored = Absent THEN {"missing", "unavailable"}
                                             ELSE {"configured", "unavailable"}
  /\ storedEnabled \in BOOLEAN
  /\ storedConsent \in BOOLEAN
  /\ consent = storedConsent
  /\ enabled = (storedEnabled /\ storedConsent /\ credentialStatus = "configured")
  /\ returned = {}

-----------------------------------------------------------------------------
SetTranslationCredentialStatus(status) ==
  /\ credentialStatus' = status
  /\ enabled' = (enabled /\ status = "configured")

(* The row of the settings table, if the write succeeds.                   *)
Persist(row, value) == row' \in {row, value}

FailClosedRuntimeCredentials(status) ==
  IF credentialStatus = status /\ ~enabled
  THEN UNCHANGED shellVars
  ELSE /\ SetTranslationCredentialStatus(status)
       /\ IF enabled THEN Persist(storedEnabled, FALSE) ELSE UNCHANGED storedEnabled
       /\ UNCHANGED <<consent, storedConsent>>

Answered(o, kind) ==
  /\ ops[o].kind = kind
  /\ ops[o].answer # "none"
  /\ o \notin returned
  /\ returned' = returned \cup {o}

Idle(o) == ops[o].kind = "none"

(* No microtask is left to run.                                            *)
RepositoryPCs == {"queued", "written", "reading", "got", "replacing", "replaced"}

Drained ==
  \A o \in Ops : /\ ops[o].pc \notin RepositoryPCs
                 /\ ops[o].answer # "none" => o \in returned

-----------------------------------------------------------------------------
(* The commands of the settings page.                                      *)

EnableTranslation ==
  /\ credentialStatus = "configured"
  /\ consent
  /\ storedEnabled' = TRUE
  /\ enabled' = TRUE
  /\ UNCHANGED <<vars, credentialStatus, consent, storedConsent, returned>>

DisableTranslation ==
  /\ enabled' = FALSE
  /\ Persist(storedEnabled, FALSE)
  /\ UNCHANGED <<vars, credentialStatus, consent, storedConsent, returned>>

SaveBaiduCredentials(o, c) == Save(o, c) /\ UNCHANGED <<shellVars, returned>>

(* The store has saved: consent is recorded, then the status is read with  *)
(* another call of the store.  If recording fails the command ends.        *)
SaveSucceeded(o) ==
  /\ Answered(o, "save")
  /\ ops[o].answer = "ok"
  /\ \/ /\ storedConsent' = TRUE
        /\ consent' = TRUE
        /\ \E p \in Ops : Idle(p) /\ GetStatus(p)
     \/ UNCHANGED <<vars, storedConsent, consent>>
  /\ UNCHANGED <<credentialStatus, enabled, storedEnabled>>

SaveFailed(o) ==
  /\ Answered(o, "save")
  /\ ops[o].answer # "ok"
  /\ IF ops[o].answer = "superseded" THEN UNCHANGED shellVars
                                     ELSE FailClosedRuntimeCredentials("unavailable")
  /\ UNCHANGED vars

StatusReturned(o) ==
  /\ Answered(o, "status")
  /\ SetTranslationCredentialStatus(IF ops[o].answer = "ok" THEN "configured" ELSE ops[o].answer)
  /\ UNCHANGED <<vars, consent, settingsVars>>

(* Mutant: the state follows the store instead of preceding it.            *)
DeleteBaiduCredentialsOnly(o) == Delete(o) /\ UNCHANGED <<shellVars, returned>>

DeleteBaiduCredentials(o) ==
  /\ Delete(o)
  /\ enabled' = FALSE
  /\ consent' = FALSE
  /\ credentialStatus' = "unavailable"
  /\ Persist(storedEnabled, FALSE)
  /\ Persist(storedConsent, FALSE)
  /\ UNCHANGED returned

DeleteReturned(o) ==
  /\ Answered(o, "delete")
  /\ SetTranslationCredentialStatus(IF ops[o].answer = "ok" THEN "missing" ELSE "unavailable")
  /\ UNCHANGED <<vars, consent, settingsVars>>

(* getBaiduCredentialSummary, and the provider's credential callback.      *)
LoadCredentials(o) == Load(o) /\ UNCHANGED <<shellVars, returned>>

(* Mutant: a failed load is only reported.                                 *)
LoadReturnedOnly(o) == Answered(o, "load") /\ UNCHANGED <<vars, shellVars>>

LoadReturned(o) ==
  /\ Answered(o, "load")
  /\ CASE ops[o].answer = "missing" -> FailClosedRuntimeCredentials("missing")
       [] ops[o].answer = "error" -> FailClosedRuntimeCredentials("unavailable")
       [] OTHER -> UNCHANGED shellVars
  /\ UNCHANGED vars

-----------------------------------------------------------------------------

Commands(o) == (\E c \in Credentials : SaveBaiduCredentials(o, c))
                 \/ DeleteBaiduCredentials(o) \/ LoadCredentials(o)

Returns(o) == SaveSucceeded(o) \/ SaveFailed(o) \/ StatusReturned(o) \/ DeleteReturned(o)
                \/ LoadReturned(o)

Microtasks(o) ==
  \/ Returns(o)
  \/ /\ Repository(o) \/ (ops[o].pc \in RepositoryPCs /\ ReadThrows(o))
     /\ UNCHANGED <<shellVars, returned>>

Tasks(o) ==
  \/ Commands(o)
  \/ /\ StatusTimeout(o) \/ SecureStorage(o)
     /\ UNCHANGED <<shellVars, returned>>

ShellNext ==
  \/ \E o \in Ops : Microtasks(o)
  \/ Drained /\ (EnableTranslation \/ DisableTranslation \/ \E o \in Ops : Tasks(o))

allVars == <<vars, shellVars, returned>>

ShellSpec == ShellInit /\ [][ShellNext]_allVars

-----------------------------------------------------------------------------
(* Properties.                                                             *)

Quiet == \A o \in Ops : Idle(o) \/ o \in returned

CanTranslate == enabled /\ credentialStatus = "configured" /\ consent

(* Online translation is never possible without credentials in the vault:  *)
(* the state is closed before they are deleted, and no late answer of the  *)
(* store opens it again.                                                   *)
OnlineHasCredential == CanTranslate => stored # Absent

(* A load that found nothing, or failed, has switched translation off.     *)
(* (Stated in the step that deals with it: the user may try again later.)  *)
FailedLoadCloses ==
  [][\A o \in returned' \ returned :
       ops[o].kind = "load" /\ ops[o].answer \in {"missing", "error"} => ~enabled']_allVars

(* Deleting revokes consent: from a deletion that succeeded until the next *)
(* save that does, there is none, so that nothing can be enabled again.    *)
DeletionRevokesConsent == latest.gen > 0 /\ latest.plain = NoCredential => ~consent

(* The late failure of an old load, the summary's or the provider's,       *)
(* changes nothing of what the shell has set since: once a newer save or   *)
(* delete has begun, dealing with its answer leaves state and settings     *)
(* alone.                                                                  *)
LateLoadChangesNothing ==
  [][\A o \in returned' \ returned :
       ops[o].kind = "load" /\ ops[o].gen # mutationGeneration => UNCHANGED shellVars]_allVars

(* Translation is offered only with a credential and with consent, and a   *)
(* deletion takes both away.                                               *)
OnlineIsAllowed == ShellTypeOK /\ OnlineHasCredential /\ DeletionRevokesConsent

=============================================================================
