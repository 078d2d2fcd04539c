--------------------------- MODULE CredentialStore ---------------------------
(***************************************************************************)
(* ProviderCredentialStore: the encrypted Baidu credential, kept in one    *)
(* row of the secrets table.  Saves, deletes, loads and status reads run   *)
(* concurrently: each of them awaits the platform's secure storage (which  *)
(* may be unavailable, may fail and may never answer) and the repository.  *)
(* A generation counter makes the newest save or delete win, writes are    *)
(* serialised through writeTail, and a read that finds its ciphertext in   *)
(* need of a new key replaces it with a compare-and-set.                   *)
(*                                                                         *)
(* Every await is a step boundary, those on the repository included: the   *)
(* store is written against an asynchronous repository.  A ciphertext is   *)
(* its plaintext and the operation that produced it, so that two           *)
(* encryptions of one credential are different bytes.                      *)
(***************************************************************************)
EXTENDS Naturals, Sequences, FiniteSets

CONSTANTS
  Ops,          \* calls of save, delete, load and getStatus, each made once
  Credentials,  \* credentials a user may save
  NoCredential, \* no credential
  Earlier       \* stands for the operation of an earlier run of the program

ASSUME StoreAssumption ==
  /\ NoCredential \notin Credentials
  /\ Earlier \notin Ops
  /\ IsFiniteSet(Ops)

VARIABLES
  mutationGeneration,
  pendingMutations,   \* pendingMutationGenerations
  writeTail,          \* operations whose write is queued or executing, oldest first
  stored,             \* the row: a ciphertext, or Absent
  ops,                \* where each call is
  latest              \* history: the newest mutation that reported success

vars == <<mutationGeneration, pendingMutations, writeTail, stored, ops, latest>>

Mutations == {"save", "delete"}
Reads == {"load", "status"}

Absent == [plain |-> NoCredential, by |-> Earlier]
Ciphertexts == [plain : Credentials, by : Ops \cup {Earlier}]

PCs == {"idle", "checking", "encrypting", "queued", "written",
        "reading", "got", "decrypting", "redecrypting", "reencrypting", "replacing",
        "replaced", "done"}

Answers == {"none", "ok", "missing", "superseded", "error", "unavailable"}

OpStates == [kind : Mutations \cup Reads \cup {"none"}, cred : Credentials \cup {NoCredential},
             gen : Nat, pc : PCs, got : Ciphertexts \cup {Absent}, answer : Answers]

IdleOp == [kind |-> "none", cred |-> NoCredential, gen |-> 0, pc |-> "idle",
           got |-> Absent, answer |-> "none"]

(* Generations only grow, and only generations handed out are pending.     *)
TypeOK ==
  /\ mutationGeneration \in Nat
  /\ pendingMutations \subseteq 1..mutationGeneration
  /\ writeTail \in Seq(Ops)
  /\ stored \in Ciphertexts \cup {Absent}
  /\ ops \in [Ops -> OpStates]
  /\ latest \in [gen : Nat, plain : Credentials \cup {NoCredential}]

Init ==
  /\ mutationGeneration = 0
  /\ pendingMutations = {}
  /\ writeTail = <<>>
  /\ stored \in {Absent} \cup [plain : Credentials, by : {Earlier}]
  /\ ops = [o \in Ops |-> IdleOp]
  /\ latest = [gen |-> 0, plain |-> stored.plain]

-----------------------------------------------------------------------------
(* Mutant: a read ignores the mutation that was pending when it began.     *)
ReadableWhilePending(o) == ops[o].gen = mutationGeneration

(* requireCurrentGeneration and requireReadableGeneration, as conditions.  *)
Current(o) == ops[o].gen = mutationGeneration
Readable(o) == Current(o) /\ ops[o].gen \notin pendingMutations

At(o, pc) == ops[o].pc = pc

(* An answer given once stands: a status that timed out goes on reading,   *)
(* but its caller has left.                                                *)
Finished(o, answer) ==
  [ops EXCEPT ![o].pc = "done", ![o].answer = IF @ = "none" THEN answer ELSE @]

(* Mutant: the catch of load() throws on whatever it caught.               *)
ReadFailureAsIs(o) == IF ops[o].kind = "status" THEN "unavailable" ELSE "error"

(* What a read that throws answers: a newer mutation takes precedence over *)
(* the error, and a status swallows both.                                  *)
ReadFailure(o) ==
  IF ops[o].kind = "status" THEN "unavailable"
  ELSE IF Readable(o) THEN "error" ELSE "superseded"

MutationFailure(o) == IF Current(o) THEN "error" ELSE "superseded"

(* The finally of save and delete.                                         *)
EndMutation(o, answer) ==
  /\ ops' = Finished(o, answer)
  /\ pendingMutations' = pendingMutations \ {ops[o].gen}
  /\ latest' = IF answer = "ok" THEN [gen |-> ops[o].gen, plain |-> ops[o].cred] ELSE latest

ReadGoesTo(o, pc) ==
  /\ ops' = IF Readable(o) THEN [ops EXCEPT ![o].pc = pc] ELSE Finished(o, ReadFailure(o))
  /\ UNCHANGED <<mutationGeneration, pendingMutations, writeTail, stored, latest>>

ReadFails(o) ==
  /\ ops' = Finished(o, ReadFailure(o))
  /\ UNCHANGED <<mutationGeneration, pendingMutations, writeTail, stored, latest>>

-----------------------------------------------------------------------------
(* The calls.                                                              *)

BeginMutation(o, kind, c, pc) ==
  /\ At(o, "idle")
  /\ mutationGeneration' = mutationGeneration + 1
  /\ pendingMutations' = pendingMutations \cup {mutationGeneration + 1}
  /\ ops' = [ops EXCEPT ![o] = [IdleOp EXCEPT !.kind = kind, !.cred = c, !.pc = pc,
                                              !.gen = mutationGeneration + 1]]
  /\ UNCHANGED <<stored, latest>>

Save(o, c) == BeginMutation(o, "save", c, "checking") /\ UNCHANGED writeTail

Delete(o) == BeginMutation(o, "delete", NoCredential, "queued") /\ writeTail' = Append(writeTail, o)

BeginRead(o, kind) ==
  /\ At(o, "idle")
  /\ ops' = [ops EXCEPT ![o] = [IdleOp EXCEPT !.kind = kind, !.pc = "checking",
                                              !.gen = mutationGeneration]]
  /\ UNCHANGED <<mutationGeneration, pendingMutations, writeTail, stored, latest>>

Load(o) == BeginRead(o, "load")
GetStatus(o) == BeginRead(o, "status")

(* The eight seconds after which a status is 'unavailable'.                *)
StatusTimeout(o) ==
  /\ ops[o].kind = "status"
  /\ ops[o].answer = "none"
  /\ ops' = [ops EXCEPT ![o].answer = "unavailable"]
  /\ UNCHANGED <<mutationGeneration, pendingMutations, writeTail, stored, latest>>

-----------------------------------------------------------------------------
(* Saving and deleting.                                                    *)

(* The two awaits of a save on secure storage: availability, encryption.   *)
SaveFails(o) ==
  /\ ops[o].kind = "save"
  /\ ops[o].pc \in {"checking", "encrypting"}
  /\ EndMutation(o, MutationFailure(o))
  /\ UNCHANGED <<mutationGeneration, writeTail, stored>>

SaveAdvances(o) ==
  /\ ops[o].kind = "save"
  /\ ops[o].pc \in {"checking", "encrypting"}
  /\ Current(o)
  /\ ops' = [ops EXCEPT ![o].pc = IF @ = "checking" THEN "encrypting" ELSE "queued"]
  /\ writeTail' = IF At(o, "encrypting") THEN Append(writeTail, o) ELSE writeTail
  /\ UNCHANGED <<mutationGeneration, pendingMutations, stored, latest>>

WriteTurn(o) == At(o, "queued") /\ writeTail # <<>> /\ Head(writeTail) = o

(* The queued write: it re-checks the generation, then touches the row.    *)
Write(o) ==
  /\ WriteTurn(o)
  /\ Current(o)
  /\ stored' = IF ops[o].kind = "save" THEN [plain |-> ops[o].cred, by |-> o] ELSE Absent
  /\ ops' = [ops EXCEPT ![o].pc = "written"]
  /\ UNCHANGED <<mutationGeneration, pendingMutations, writeTail, latest>>

(* Mutant: a write that fails keeps its place in the queue.                *)
WriteFailsAndBlocks(o) ==
  /\ WriteTurn(o)
  /\ EndMutation(o, MutationFailure(o))
  /\ UNCHANGED <<mutationGeneration, writeTail, stored>>

(* Superseded while queued, or refused by the database.                    *)
WriteFails(o) ==
  /\ WriteTurn(o)
  /\ EndMutation(o, MutationFailure(o))
  /\ writeTail' = Tail(writeTail)
  /\ UNCHANGED <<mutationGeneration, stored>>

WriteReturns(o) ==
  /\ At(o, "written")
  /\ EndMutation(o, IF Current(o) THEN "ok" ELSE "superseded")
  /\ writeTail' = Tail(writeTail)
  /\ UNCHANGED <<mutationGeneration, stored>>

-----------------------------------------------------------------------------
(* Loading, and reading the status.                                        *)

Reading(o, pc) == ops[o].kind \in Reads /\ At(o, pc)

EncryptionChecked(o) == Reading(o, "checking") /\ ReadGoesTo(o, "reading")

(* The row is read, and its content returned in a later step.              *)
GetEncrypted(o) ==
  /\ Reading(o, "reading")
  /\ ops' = [ops EXCEPT ![o].pc = "got", ![o].got = stored]
  /\ UNCHANGED <<mutationGeneration, pendingMutations, writeTail, stored, latest>>

EncryptedReturned(o) ==
  /\ Reading(o, "got")
  /\ IF ops[o].got = Absent /\ Readable(o)
     THEN /\ ops' = Finished(o, "missing")
          /\ UNCHANGED <<mutationGeneration, pendingMutations, writeTail, stored, latest>>
     ELSE ReadGoesTo(o, "decrypting")

(* Decrypted: done, or the key was rotated and the second decryption and   *)
(* the encryption under the new key follow.                                *)
Decrypted(o) ==
  /\ Reading(o, "decrypting")
  /\ \/ ReadGoesTo(o, "redecrypting")
     \/ /\ ops' = Finished(o, IF Readable(o) THEN "ok" ELSE ReadFailure(o))
        /\ UNCHANGED <<mutationGeneration, pendingMutations, writeTail, stored, latest>>

Redecrypted(o) == Reading(o, "redecrypting") /\ ReadGoesTo(o, "reencrypting")

Reencrypted(o) == Reading(o, "reencrypting") /\ ReadGoesTo(o, "replacing")

(* Mutant: the re-encrypted credential is written without comparing.       *)
ReplaceEncrypted(o) ==
  /\ Reading(o, "replacing")
  /\ stored' = [ops[o].got EXCEPT !.by = o]
  /\ ops' = [ops EXCEPT ![o].pc = "replaced"]
  /\ UNCHANGED <<mutationGeneration, pendingMutations, writeTail, latest>>

(* replaceEncryptedIfCurrent runs outside writeTail, perhaps after a newer *)
(* mutation has begun, and replaces only the bytes that were read.         *)
ReplaceEncryptedIfCurrent(o) ==
  /\ Reading(o, "replacing")
  /\ stored' = IF stored = ops[o].got THEN [stored EXCEPT !.by = o] ELSE stored
  /\ ops' = [ops EXCEPT ![o].pc = "replaced"]
  /\ UNCHANGED <<mutationGeneration, pendingMutations, writeTail, latest>>

ReplacementReturned(o) ==
  /\ Reading(o, "replaced")
  /\ ops' = Finished(o, IF Readable(o) THEN "ok" ELSE ReadFailure(o))
  /\ UNCHANGED <<mutationGeneration, pendingMutations, writeTail, stored, latest>>

(* Secure storage unavailable, ciphertext unreadable, a failing database,  *)
(* or a generation that moved on.                                          *)
ReadThrows(o) ==
  /\ ops[o].kind \in Reads
  /\ ops[o].pc \in {"checking", "got", "decrypting", "redecrypting", "reencrypting", "replaced"}
  /\ ReadFails(o)

-----------------------------------------------------------------------------

Calls(o) == (\E c \in Credentials : Save(o, c)) \/ Delete(o) \/ Load(o) \/ GetStatus(o)

(* Steps that wait for secure storage.                                     *)
SecureStorage(o) == SaveFails(o) \/ SaveAdvances(o) \/ EncryptionChecked(o) \/ Decrypted(o)
                      \/ Redecrypted(o) \/ Reencrypted(o) \/ ReadThrows(o)

(* Steps that wait for the repository only.                                *)
Repository(o) == Write(o) \/ WriteFails(o) \/ WriteReturns(o) \/ GetEncrypted(o)
                   \/ EncryptedReturned(o) \/ ReplaceEncryptedIfCurrent(o)
                   \/ ReplacementReturned(o)

Next == \E o \in Ops : Calls(o) \/ StatusTimeout(o) \/ SecureStorage(o) \/ Repository(o)

(* The database answers and timers fire; secure storage may hang.          *)
Fairness == \A o \in Ops : WF_vars(StatusTimeout(o)) /\ WF_vars(Repository(o))

Spec == Init /\ [][Next]_vars /\ Fairness

-----------------------------------------------------------------------------
(* Properties.                                                             *)

(* What the row holds is what the newest mutation reported as done left    *)
(* there, unless a newer one has since written: no superseded save, late   *)
(* queued write or re-encryption brings a deleted or replaced credential   *)
(* back.                                                                   *)
NoResurrection ==
  \/ stored.plain = latest.plain
  \/ \E o \in Ops : /\ ops[o].kind \in Mutations
                    /\ ops[o].gen > latest.gen
                    /\ ops[o].pc \in {"written", "done"}
                    /\ stored.plain = ops[o].cred

(* A load or a status that answers, rather than failing, answers what the  *)
(* row holds at that moment, with no newer mutation under way: a           *)
(* credential being replaced or deleted is never handed out.               *)
Answering(o) ==
  /\ ops[o].kind \in Reads
  /\ ops[o].answer = "none"
  /\ ops'[o].answer \in {"ok", "missing"}

AnswersAreCurrent ==
  [][\A o \in Ops : Answering(o) =>
       /\ stored.plain = ops[o].got.plain
       /\ ops'[o].answer = "missing" <=> stored = Absent
       /\ \A m \in Ops : ops[m].kind \in Mutations /\ ops[m].gen >= ops[o].gen
                           => ops[m].pc = "done" /\ ops[m].gen = ops[o].gen]_vars

(* A status is answered even if secure storage never answers.              *)
StatusAnswers ==
  \A o \in Ops : ops[o].kind = "status" ~> ops[o].answer # "none"

(* A queued write gets its turn and ends, whatever became of the writes    *)
(* before it and of the operations that wait for secure storage.           *)
WritesDrain == \A o \in Ops : ops[o].pc = "queued" ~> ops[o].pc = "done"

(* Secure storage may hang and the database may fail: nobody waits for     *)
(* either for ever, except a save or a load for its own secret.            *)
CallersAreServed == StatusAnswers /\ WritesDrain

=============================================================================
