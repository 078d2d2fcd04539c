--------------------------- MODULE CredentialProofs ---------------------------
(***************************************************************************)
(* For any number of calls and any credentials: the credential store keeps *)
(* its inductive invariant, so that no deleted or replaced credential      *)
(* comes back and no read hands out one that is being replaced.            *)
(***************************************************************************)
EXTENDS ShellCredentials, TLAPS

USE StoreAssumption
    DEF StoreAssumption, Mutations, Reads, Absent, Ciphertexts, PCs, Answers, OpStates, At,
        Current

-----------------------------------------------------------------------------
(* The inductive invariant.                                                *)

(* A save or a delete that has yet to end.                                 *)
Open(o) == ops[o].kind \in Mutations /\ ops[o].pc # "done"

(* A read that has found no mutation pending.                              *)
Settled(o) ==
  /\ ops[o].kind \in Reads
  /\ ops[o].pc \in {"reading", "got", "decrypting", "redecrypting", "reencrypting", "replacing",
                    "replaced"}

(* A read that has seen the row.                                           *)
Fetched(o) == Settled(o) /\ ops[o].pc # "reading"

(* Each kind of call is somewhere in its own code.                         *)
CallShape(c) ==
  /\ c.pc = "idle" <=> c.kind = "none"
  /\ c.pc = "idle" => c.answer = "none"
  /\ c.kind \in Mutations => c.pc \in {"checking", "encrypting", "queued", "written", "done"}
  /\ c.kind \in Reads => c.pc \notin {"encrypting", "queued", "written"}
  /\ c.kind = "delete" => c.cred = NoCredential
  /\ c.kind = "save" => c.cred \in Credentials
  /\ c.pc \in {"decrypting", "redecrypting", "reencrypting", "replacing", "replaced"}
       => c.got \in Ciphertexts

CallsHaveShape == \A o \in Ops : CallShape(ops[o])

(* Generations are handed out once, and one is pending while its mutation  *)
(* is open.                                                                *)
Generations ==
  /\ \A o \in Ops : ops[o].gen <= mutationGeneration
  /\ latest.gen <= mutationGeneration
  /\ \A o \in Ops : Open(o) => ops[o].gen \in pendingMutations /\ ops[o].gen # latest.gen
  /\ \A o, p \in Ops : ops[o].kind \in Mutations /\ ops[p].kind \in Mutations
                         /\ ops[o].gen = ops[p].gen => o = p

(* A write in progress has the turn, and the row holds what it wrote.      *)
WriteHolds ==
  \A o \in Ops : ops[o].pc = "written" =>
    /\ writeTail # <<>> /\ Head(writeTail) = o
    /\ stored.plain = ops[o].cred

(* A read that nothing has superseded has what the row holds.              *)
ReadsAreFresh ==
  \A o \in Ops : Settled(o) =>
    /\ ops[o].gen \notin pendingMutations
    /\ Fetched(o) /\ Current(o) => stored.plain = ops[o].got.plain

StoreInv ==
  /\ TypeOK
  /\ CallsHaveShape
  /\ Generations
  /\ WriteHolds
  /\ ReadsAreFresh
  /\ NoResurrection

-----------------------------------------------------------------------------
(* Steps of one call.                                                      *)

(* A read that only moves on: settled ones stay settled, and nothing else  *)
(* becomes settled while a mutation it must wait for is pending.           *)
LEMMA ReadMoves ==
  ASSUME StoreInv, NEW o \in Ops, ops[o].kind \in Reads,
         NEW c \in OpStates, ops' = [ops EXCEPT ![o] = c],
         c.kind = ops[o].kind, c.gen = ops[o].gen, c.cred = ops[o].cred, CallShape(c),
         Settled(o)' => Settled(o) \/ Readable(o),
         Fetched(o)' => c.got = IF Fetched(o) THEN ops[o].got ELSE stored,
         UNCHANGED <<mutationGeneration, pendingMutations, writeTail, stored, latest>>
  PROVE  StoreInv'
<1>1. ops' \in [Ops -> OpStates] /\ ops'[o] = c /\ \A p \in Ops \ {o} : ops'[p] = ops[p]
  BY DEF StoreInv, TypeOK
<1>2. TypeOK'
  BY <1>1 DEF StoreInv, TypeOK
<1>3. CallsHaveShape'
  BY <1>1 DEF StoreInv, CallsHaveShape
<1>4. Generations'
  BY <1>1 DEF StoreInv, Generations, Open
<1>5. WriteHolds'
  BY <1>1 DEF StoreInv, WriteHolds, CallShape
<1>6. ReadsAreFresh'
  <2> SUFFICES ASSUME NEW p \in Ops, Settled(p)'
               PROVE  /\ ops'[p].gen \notin pendingMutations'
                      /\ Fetched(p)' /\ Current(p)' => stored'.plain = ops'[p].got.plain
    BY DEF ReadsAreFresh
  <2>1. CASE p = o
    BY <1>1, <2>1 DEF StoreInv, ReadsAreFresh, Readable, Settled, Fetched
  <2>2. CASE p # o
    BY <1>1, <2>2 DEF StoreInv, ReadsAreFresh, Settled, Fetched
  <2>3. QED
    BY <2>1, <2>2
<1>7. NoResurrection'
  BY <1>1 DEF StoreInv, NoResurrection, CallShape
<1>8. QED
  BY <1>2, <1>3, <1>4, <1>5, <1>6, <1>7 DEF StoreInv

(* A read begins, reads the row, goes on or ends.                          *)
LEMMA BeginReadInv ==
  ASSUME StoreInv, NEW o \in Ops, NEW kind \in Reads, BeginRead(o, kind)
  PROVE  StoreInv'
<1> DEFINE c == [IdleOp EXCEPT !.kind = kind, !.pc = "checking", !.gen = mutationGeneration]
<1>1. ops' = [ops EXCEPT ![o] = c] /\ At(o, "idle")
  BY DEF BeginRead
<1>2. c \in OpStates /\ c.kind = kind /\ c.pc = "checking" /\ c.gen = mutationGeneration
  BY DEF StoreInv, TypeOK, IdleOp
<1> HIDE DEF c
<1>3. ops' \in [Ops -> OpStates] /\ ops'[o] = c /\ \A p \in Ops \ {o} : ops'[p] = ops[p]
  BY <1>1, <1>2 DEF StoreInv, TypeOK
<1>4. UNCHANGED <<mutationGeneration, pendingMutations, writeTail, stored, latest>>
  BY DEF BeginRead
<1>5. TypeOK'
  BY <1>3, <1>4 DEF StoreInv, TypeOK
<1>6. CallsHaveShape'
  BY <1>2, <1>3 DEF StoreInv, CallsHaveShape, CallShape
<1>7. Generations'
  <2>1. \A p \in Ops : ops'[p].gen <= mutationGeneration' /\ (Open(p)' => Open(p) /\ p # o)
    BY <1>2, <1>3, <1>4 DEF StoreInv, TypeOK, Generations, Open
  <2>2. QED
    BY <1>2, <1>3, <1>4, <2>1 DEF StoreInv, Generations, Open
<1>8. WriteHolds'
  BY <1>2, <1>3, <1>4 DEF StoreInv, WriteHolds
<1>9. ReadsAreFresh'
  BY <1>2, <1>3, <1>4 DEF StoreInv, ReadsAreFresh, Settled, Fetched
<1>10. NoResurrection'
  BY <1>1, <1>3, <1>4 DEF StoreInv, NoResurrection
<1>11. QED
  BY <1>5, <1>6, <1>7, <1>8, <1>9, <1>10 DEF StoreInv

LEMMA ReadGoesToInv ==
  ASSUME StoreInv, NEW o \in Ops, ops[o].kind \in Reads,
         NEW pc \in {"reading", "decrypting", "redecrypting", "reencrypting", "replacing"},
         ReadGoesTo(o, pc), pc # "reading" => Fetched(o),
         pc # "reading" /\ Readable(o) => ops[o].got \in Ciphertexts
  PROVE  StoreInv'
<1> DEFINE a == IF ops[o].answer = "none" THEN ReadFailure(o) ELSE ops[o].answer
           c == IF Readable(o) THEN [ops[o] EXCEPT !.pc = pc]
                ELSE [ops[o] EXCEPT !.pc = "done", !.answer = a]
<1>1. ops' = [ops EXCEPT ![o] = c]
  BY DEF StoreInv, TypeOK, ReadGoesTo, Finished
<1>2. ops[o] \in OpStates /\ CallShape(ops[o])
  BY DEF StoreInv, TypeOK, CallsHaveShape
<1>3. /\ c \in OpStates
      /\ c.kind = ops[o].kind /\ c.gen = ops[o].gen /\ c.cred = ops[o].cred
      /\ c.got = ops[o].got /\ c.pc = IF Readable(o) THEN pc ELSE "done"
  BY ZenonT(60), <1>2 DEF ReadFailure
<1> HIDE DEF c
<1>4. CallShape(c)
  BY <1>2, <1>3 DEF CallShape
<1>5. ops'[o] = c
  BY <1>1 DEF StoreInv, TypeOK
<1>6. /\ Settled(o)' => Settled(o) \/ Readable(o)
      /\ Fetched(o)' => c.got = IF Fetched(o) THEN ops[o].got ELSE stored
  BY <1>3, <1>5 DEF Settled, Fetched
<1>7. UNCHANGED <<mutationGeneration, pendingMutations, writeTail, stored, latest>>
  BY DEF ReadGoesTo
<1>8. QED
  BY <1>1, <1>3, <1>4, <1>6, <1>7, ReadMoves

LEMMA ReadEndsInv ==
  ASSUME StoreInv, NEW o \in Ops, ops[o].kind \in Reads, NEW answer \in Answers,
         ops' = Finished(o, answer),
         UNCHANGED <<mutationGeneration, pendingMutations, writeTail, stored, latest>>
  PROVE  StoreInv'
<1> DEFINE c == [ops[o] EXCEPT !.pc = "done", !.answer = IF @ = "none" THEN answer ELSE @]
<1>1. ops' = [ops EXCEPT ![o] = c]
  BY DEF StoreInv, TypeOK, Finished
<1>2. ops[o] \in OpStates /\ CallShape(ops[o])
  BY DEF StoreInv, TypeOK, CallsHaveShape
<1>3. /\ c \in OpStates /\ c.pc = "done"
      /\ c.kind = ops[o].kind /\ c.gen = ops[o].gen /\ c.cred = ops[o].cred
  BY ZenonT(60), <1>2
<1> HIDE DEF c
<1>4. CallShape(c)
  BY <1>2, <1>3 DEF CallShape
<1>5. ~Settled(o)'
  BY <1>1, <1>3 DEF StoreInv, TypeOK, Settled
<1>6. QED
  BY <1>1, <1>3, <1>4, <1>5, ReadMoves DEF Fetched

LEMMA GetEncryptedInv ==
  ASSUME StoreInv, NEW o \in Ops, GetEncrypted(o)
  PROVE  StoreInv'
<1> DEFINE c == [ops[o] EXCEPT !.pc = "got", !.got = stored]
<1>1. ops' = [ops EXCEPT ![o] = c] /\ ops[o].kind \in Reads /\ ops[o].pc = "reading"
  BY DEF StoreInv, TypeOK, GetEncrypted, Reading
<1>2. ops[o] \in OpStates /\ CallShape(ops[o])
  BY DEF StoreInv, TypeOK, CallsHaveShape
<1>3. /\ c \in OpStates /\ c.pc = "got" /\ c.got = stored
      /\ c.kind = ops[o].kind /\ c.gen = ops[o].gen /\ c.cred = ops[o].cred
  BY ZenonT(60), <1>2 DEF StoreInv, TypeOK
<1> HIDE DEF c
<1>4. CallShape(c)
  BY <1>1, <1>2, <1>3 DEF CallShape
<1>5. Settled(o) /\ ~Fetched(o)
  BY <1>1 DEF Settled, Fetched
<1>6. QED
  BY <1>1, <1>3, <1>4, <1>5, ReadMoves DEF GetEncrypted

(* The comparison keeps the credential, whatever wrote the row.            *)
LEMMA ReplaceEncryptedIfCurrentInv ==
  ASSUME StoreInv, NEW o \in Ops, ReplaceEncryptedIfCurrent(o)
  PROVE  StoreInv'
<1> DEFINE c == [ops[o] EXCEPT !.pc = "replaced"]
<1>1. ops' = [ops EXCEPT ![o] = c] /\ ops[o].kind \in Reads /\ ops[o].pc = "replacing"
  BY DEF StoreInv, TypeOK, ReplaceEncryptedIfCurrent, Reading
<1>2. ops[o] \in OpStates /\ CallShape(ops[o])
  BY DEF StoreInv, TypeOK, CallsHaveShape
<1>3. /\ c \in OpStates /\ c.pc = "replaced" /\ c.got = ops[o].got
      /\ c.kind = ops[o].kind /\ c.gen = ops[o].gen /\ c.cred = ops[o].cred
  BY <1>2
<1> HIDE DEF c
<1>4. stored' \in Ciphertexts \cup {Absent} /\ stored'.plain = stored.plain
  BY <1>1, <1>2 DEF StoreInv, TypeOK, ReplaceEncryptedIfCurrent, CallShape
<1>5. ops' \in [Ops -> OpStates] /\ ops'[o] = c /\ \A p \in Ops \ {o} : ops'[p] = ops[p]
  BY <1>1, <1>3 DEF StoreInv, TypeOK
<1>6. UNCHANGED <<mutationGeneration, pendingMutations, writeTail, latest>>
  BY DEF ReplaceEncryptedIfCurrent
<1>7. TypeOK'
  BY <1>4, <1>5, <1>6 DEF StoreInv, TypeOK
<1>8. CallsHaveShape'
  BY <1>1, <1>2, <1>3, <1>5 DEF StoreInv, CallsHaveShape, CallShape
<1>9. Generations'
  BY <1>1, <1>3, <1>5, <1>6 DEF StoreInv, Generations, Open
<1>10. WriteHolds'
  BY <1>3, <1>4, <1>5, <1>6 DEF StoreInv, WriteHolds
<1>11. ReadsAreFresh'
  BY <1>1, <1>3, <1>4, <1>5, <1>6 DEF StoreInv, ReadsAreFresh, Settled, Fetched
<1>12. NoResurrection'
  BY <1>1, <1>3, <1>4, <1>5, <1>6 DEF StoreInv, NoResurrection
<1>13. QED
  BY <1>7, <1>8, <1>9, <1>10, <1>11, <1>12 DEF StoreInv

LEMMA StatusTimeoutInv ==
  ASSUME StoreInv, NEW o \in Ops, StatusTimeout(o)
  PROVE  StoreInv'
<1> DEFINE c == [ops[o] EXCEPT !.answer = "unavailable"]
<1>1. ops' = [ops EXCEPT ![o] = c] /\ ops[o].kind \in Reads
  BY DEF StoreInv, TypeOK, StatusTimeout
<1>2. ops[o] \in OpStates /\ CallShape(ops[o])
  BY DEF StoreInv, TypeOK, CallsHaveShape
<1>3. /\ c \in OpStates /\ c.pc = ops[o].pc /\ c.got = ops[o].got
      /\ c.kind = ops[o].kind /\ c.gen = ops[o].gen /\ c.cred = ops[o].cred
  BY <1>2
<1> HIDE DEF c
<1>4. CallShape(c)
  BY <1>1, <1>2, <1>3 DEF CallShape
<1>5. /\ Settled(o)' => Settled(o)
      /\ Fetched(o)' => Fetched(o)
  BY <1>1, <1>3 DEF StoreInv, TypeOK, Settled, Fetched
<1>6. QED
  BY <1>1, <1>3, <1>4, <1>5, ReadMoves DEF StatusTimeout

-----------------------------------------------------------------------------
(* Saves and deletes.                                                      *)

(* A mutation begins: its generation is new, whatever was read is not.     *)
LEMMA BeginMutationInv ==
  ASSUME StoreInv, NEW o \in Ops, NEW kind \in Mutations,
         NEW cred \in Credentials \cup {NoCredential},
         NEW pc \in {"checking", "queued"},
         IF kind = "save" THEN cred \in Credentials ELSE cred = NoCredential,
         BeginMutation(o, kind, cred, pc),
         writeTail' \in {writeTail, Append(writeTail, o)}
  PROVE  StoreInv'
<1> DEFINE g == mutationGeneration + 1
           c == [IdleOp EXCEPT !.kind = kind, !.cred = cred, !.pc = pc, !.gen = g]
<1>1. /\ ops' = [ops EXCEPT ![o] = c] /\ ops[o].pc = "idle"
      /\ mutationGeneration' = g /\ pendingMutations' = pendingMutations \cup {g}
      /\ UNCHANGED <<stored, latest>>
  BY DEF BeginMutation
<1>2. /\ c \in OpStates /\ c.kind = kind /\ c.pc = pc /\ c.gen = g /\ c.cred = cred
      /\ mutationGeneration \in Nat /\ g \in Nat /\ latest.gen \in Nat
  <2>1. mutationGeneration \in Nat /\ g \in Nat /\ latest.gen \in Nat
    BY DEF StoreInv, TypeOK
  <2>2. IdleOp \in OpStates
    BY DEF IdleOp
  <2> HIDE DEF g
  <2>3. QED
    BY ZenonT(60), <2>1, <2>2
<1> HIDE DEF c
<1>3. ops' \in [Ops -> OpStates] /\ ops'[o] = c /\ \A p \in Ops \ {o} : ops'[p] = ops[p]
  BY <1>1, <1>2 DEF StoreInv, TypeOK
<1>4. /\ writeTail' \in Seq(Ops)
      /\ writeTail # <<>> => writeTail' # <<>> /\ Head(writeTail') = Head(writeTail)
  BY DEF StoreInv, TypeOK
<1>5. TypeOK'
  BY <1>1, <1>2, <1>3, <1>4 DEF StoreInv, TypeOK
<1>6. CallsHaveShape'
  BY <1>2, <1>3 DEF StoreInv, CallsHaveShape, CallShape
<1>7. \A p \in Ops : ops[p].gen \in Nat /\ ops[p].gen < g
  BY <1>2 DEF StoreInv, TypeOK, Generations
<1>8. latest.gen < g
  BY <1>2 DEF StoreInv, Generations
<1>9. Generations'
  <2>1. \A p \in Ops : ops'[p].gen <= g
    BY <1>2, <1>3, <1>7
  <2>2. \A p \in Ops : Open(p)' => ops'[p].gen \in pendingMutations' /\ ops'[p].gen # latest'.gen
    BY <1>1, <1>2, <1>3, <1>8 DEF StoreInv, Generations, Open
  <2>3. \A p, q \in Ops : ops'[p].kind \in Mutations /\ ops'[q].kind \in Mutations
                            /\ ops'[p].gen = ops'[q].gen => p = q
    BY <1>2, <1>3, <1>7 DEF StoreInv, Generations
  <2>4. QED
    BY <1>1, <1>2, <1>8, <2>1, <2>2, <2>3 DEF Generations
<1>10. WriteHolds'
  BY <1>1, <1>2, <1>3, <1>4 DEF StoreInv, WriteHolds
<1>11. ReadsAreFresh'
  BY <1>1, <1>2, <1>3, <1>7 DEF StoreInv, ReadsAreFresh, Settled, Fetched
<1>12. NoResurrection'
  BY <1>1, <1>3 DEF StoreInv, NoResurrection
<1>13. QED
  BY <1>5, <1>6, <1>9, <1>10, <1>11, <1>12 DEF StoreInv

LEMMA SaveAdvancesInv ==
  ASSUME StoreInv, NEW o \in Ops, SaveAdvances(o)
  PROVE  StoreInv'
<1> DEFINE c == [ops[o] EXCEPT !.pc = IF @ = "checking" THEN "encrypting" ELSE "queued"]
<1>1. /\ ops' = [ops EXCEPT ![o] = c]
      /\ ops[o].kind = "save" /\ ops[o].pc \in {"checking", "encrypting"}
      /\ UNCHANGED <<mutationGeneration, pendingMutations, stored, latest>>
  BY DEF StoreInv, TypeOK, SaveAdvances
<1>2. ops[o] \in OpStates /\ CallShape(ops[o])
  BY DEF StoreInv, TypeOK, CallsHaveShape
<1>3. /\ c \in OpStates /\ c.pc \in {"encrypting", "queued"} /\ c.kind = "save"
      /\ c.gen = ops[o].gen /\ c.cred = ops[o].cred
  BY <1>1, <1>2
<1> HIDE DEF c
<1>4. ops' \in [Ops -> OpStates] /\ ops'[o] = c /\ \A p \in Ops \ {o} : ops'[p] = ops[p]
  BY <1>1, <1>3 DEF StoreInv, TypeOK
<1>5. /\ writeTail' \in Seq(Ops)
      /\ writeTail # <<>> => writeTail' # <<>> /\ Head(writeTail') = Head(writeTail)
  BY DEF StoreInv, TypeOK, SaveAdvances
<1>6. TypeOK'
  BY <1>1, <1>4, <1>5 DEF StoreInv, TypeOK
<1>7. CallsHaveShape'
  BY <1>1, <1>2, <1>3, <1>4 DEF StoreInv, CallsHaveShape, CallShape
<1>8. Generations'
  BY <1>1, <1>3, <1>4 DEF StoreInv, Generations, Open
<1>9. WriteHolds'
  BY <1>1, <1>3, <1>4, <1>5 DEF StoreInv, WriteHolds
<1>10. ReadsAreFresh'
  BY <1>1, <1>3, <1>4 DEF StoreInv, ReadsAreFresh, Settled, Fetched
<1>11. NoResurrection'
  BY <1>1, <1>3, <1>4 DEF StoreInv, NoResurrection
<1>12. QED
  BY <1>6, <1>7, <1>8, <1>9, <1>10, <1>11 DEF StoreInv

(* The write of a mutation: it is the newest, it has the turn, and no read *)
(* that it makes stale is current.                                         *)
LEMMA WriteInv ==
  ASSUME StoreInv, NEW o \in Ops, Write(o)
  PROVE  StoreInv'
<1> DEFINE c == [ops[o] EXCEPT !.pc = "written"]
<1>1. /\ ops' = [ops EXCEPT ![o] = c]
      /\ ops[o].pc = "queued" /\ writeTail # <<>> /\ Head(writeTail) = o /\ Current(o)
      /\ UNCHANGED <<mutationGeneration, pendingMutations, writeTail, latest>>
  BY DEF StoreInv, TypeOK, Write, WriteTurn
<1>2. /\ ops[o] \in OpStates /\ CallShape(ops[o])
      /\ ops[o].kind \in Mutations
  BY <1>1 DEF StoreInv, TypeOK, CallsHaveShape, CallShape
<1>3. /\ c \in OpStates /\ c.pc = "written" /\ c.kind = ops[o].kind
      /\ c.gen = ops[o].gen /\ c.cred = ops[o].cred
  BY <1>2
<1> HIDE DEF c
<1>4. ops' \in [Ops -> OpStates] /\ ops'[o] = c /\ \A p \in Ops \ {o} : ops'[p] = ops[p]
  BY <1>1, <1>3 DEF StoreInv, TypeOK
<1>5. stored' \in Ciphertexts \cup {Absent} /\ stored'.plain = ops[o].cred
  BY <1>2 DEF Write, CallShape
<1>6. TypeOK'
  BY <1>1, <1>4, <1>5 DEF StoreInv, TypeOK
<1>7. CallsHaveShape'
  BY <1>2, <1>3, <1>4 DEF StoreInv, CallsHaveShape, CallShape
<1>8. Generations'
  BY <1>1, <1>2, <1>3, <1>4 DEF StoreInv, Generations, Open
<1>9. WriteHolds'
  BY <1>1, <1>3, <1>4, <1>5 DEF StoreInv, WriteHolds
<1>10. ops[o].gen \in pendingMutations /\ ops[o].gen > latest.gen
  BY <1>1, <1>2 DEF StoreInv, TypeOK, Generations, Open
<1>11. ReadsAreFresh'
  BY <1>1, <1>2, <1>3, <1>4, <1>10 DEF StoreInv, ReadsAreFresh, Settled, Fetched
<1>12. NoResurrection'
  BY <1>1, <1>2, <1>3, <1>4, <1>5, <1>10 DEF NoResurrection
<1>13. QED
  BY <1>6, <1>7, <1>8, <1>9, <1>11, <1>12 DEF StoreInv

(* A mutation ends: only one that has written and is the newest may say so.*)
LEMMA EndMutationInv ==
  ASSUME StoreInv, NEW o \in Ops, NEW answer \in Answers, EndMutation(o, answer),
         Open(o), answer = "ok" => ops[o].pc = "written",
         \/ writeTail' = writeTail /\ ops[o].pc \notin {"queued", "written"}
         \/ writeTail # <<>> /\ Head(writeTail) = o /\ writeTail' = Tail(writeTail),
         UNCHANGED <<mutationGeneration, stored>>
  PROVE  StoreInv'
<1> DEFINE a == IF ops[o].answer = "none" THEN answer ELSE ops[o].answer
           c == [ops[o] EXCEPT !.pc = "done", !.answer = a]
<1>1. /\ ops' = [ops EXCEPT ![o] = c]
      /\ pendingMutations' = pendingMutations \ {ops[o].gen}
      /\ latest' = IF answer = "ok" THEN [gen |-> ops[o].gen, plain |-> ops[o].cred] ELSE latest
  BY DEF StoreInv, TypeOK, EndMutation, Finished
<1>2. ops[o] \in OpStates /\ CallShape(ops[o]) /\ ops[o].kind \in Mutations
  BY DEF StoreInv, TypeOK, CallsHaveShape, Open
<1>3. /\ c \in OpStates /\ c.pc = "done" /\ c.kind = ops[o].kind
      /\ c.gen = ops[o].gen /\ c.cred = ops[o].cred
  <2>1. a \in Answers
    BY <1>2
  <2> HIDE DEF a
  <2>2. QED
    BY <1>2, <2>1
<1> HIDE DEF c
<1>4. ops' \in [Ops -> OpStates] /\ ops'[o] = c /\ \A p \in Ops \ {o} : ops'[p] = ops[p]
  BY <1>1, <1>3 DEF StoreInv, TypeOK
<1>5. writeTail' \in Seq(Ops)
  <2>1. writeTail \in Seq(Ops)
    BY DEF StoreInv, TypeOK
  <2>2. writeTail # <<>> => Tail(writeTail) \in Seq(Ops)
    BY <2>1
  <2>3. QED
    BY <2>1, <2>2
<1>6. latest' \in [gen : Nat, plain : Credentials \cup {NoCredential}]
  BY <1>1, <1>2 DEF StoreInv, TypeOK
<1>7. TypeOK'
  BY <1>1, <1>4, <1>5, <1>6 DEF StoreInv, TypeOK
<1>8. CallsHaveShape'
  BY <1>2, <1>3, <1>4 DEF StoreInv, CallsHaveShape, CallShape
<1>9. Generations'
  <2>1. /\ \A p \in Ops : ops'[p].gen <= mutationGeneration'
        /\ latest'.gen <= mutationGeneration'
    BY <1>1, <1>3, <1>4 DEF StoreInv, Generations
  <2>2. \A p \in Ops : Open(p)' => p # o /\ Open(p) /\ ops'[p].gen # ops[o].gen
    BY <1>2, <1>3, <1>4 DEF StoreInv, Generations, Open
  <2>3. \A p \in Ops : Open(p)' => ops'[p].gen \in pendingMutations' /\ ops'[p].gen # latest'.gen
    BY <1>1, <1>4, <2>2 DEF StoreInv, Generations
  <2>4. \A p, q \in Ops : ops'[p].kind \in Mutations /\ ops'[q].kind \in Mutations
                            /\ ops'[p].gen = ops'[q].gen => p = q
    BY <1>3, <1>4 DEF StoreInv, Generations
  <2>5. QED
    BY <2>1, <2>3, <2>4 DEF Generations
<1>10. WriteHolds'
  BY <1>3, <1>4 DEF StoreInv, WriteHolds
<1>11. ReadsAreFresh'
  BY <1>1, <1>2, <1>3, <1>4 DEF StoreInv, ReadsAreFresh, Settled, Fetched
<1>12. NoResurrection'
  <2>1. CASE answer = "ok"
    BY <1>1, <2>1 DEF StoreInv, WriteHolds, NoResurrection
  <2>2. CASE answer # "ok"
    BY <1>1, <1>2, <1>3, <1>4, <2>2 DEF StoreInv, NoResurrection
  <2>3. QED
    BY <2>1, <2>2
<1>13. QED
  BY <1>7, <1>8, <1>9, <1>10, <1>11, <1>12 DEF StoreInv

-----------------------------------------------------------------------------
(* The specification.                                                      *)

LEMMA StoreInit == Init => StoreInv
<1> SUFFICES ASSUME Init PROVE StoreInv
  OBVIOUS
<1>1. IdleOp \in OpStates /\ IdleOp.kind = "none" /\ IdleOp.pc = "idle" /\ IdleOp.gen = 0
      /\ IdleOp.answer = "none"
  BY DEF IdleOp
<1>2. \A o \in Ops : ops[o] = IdleOp
  BY DEF Init
<1>3. /\ mutationGeneration = 0 /\ pendingMutations = {} /\ writeTail = <<>>
      /\ stored \in Ciphertexts \cup {Absent}
      /\ latest = [gen |-> 0, plain |-> stored.plain]
  BY DEF Init
<1>4. latest \in [gen : Nat, plain : Credentials \cup {NoCredential}]
  BY <1>3
<1>5. TypeOK
  BY <1>1, <1>3, <1>4 DEF Init, TypeOK
<1>6. CallsHaveShape /\ Generations /\ WriteHolds /\ ReadsAreFresh
  BY <1>1, <1>2, <1>3 DEF CallsHaveShape, CallShape, Generations, WriteHolds, ReadsAreFresh,
                         Open, Settled
<1>7. NoResurrection
  BY <1>3 DEF NoResurrection
<1>8. QED
  BY <1>5, <1>6, <1>7 DEF StoreInv

(* Every step of the store keeps the invariant.                            *)
LEMMA CallsInv ==
  ASSUME StoreInv, NEW o \in Ops, Calls(o)
  PROVE  StoreInv'
<1>1. ASSUME NEW c \in Credentials, Save(o, c) PROVE StoreInv'
  BY <1>1, BeginMutationInv DEF Save
<1>2. CASE Delete(o)
  BY <1>2, BeginMutationInv DEF Delete
<1>3. CASE Load(o) \/ GetStatus(o)
  BY <1>3, BeginReadInv DEF Load, GetStatus
<1>4. QED
  BY <1>1, <1>2, <1>3 DEF Calls

LEMMA SecureStorageInv ==
  ASSUME StoreInv, NEW o \in Ops, SecureStorage(o)
  PROVE  StoreInv'
<1>1. CallShape(ops[o])
  BY DEF StoreInv, CallsHaveShape
<1>2. CASE SaveFails(o)
  BY <1>2, EndMutationInv DEF SaveFails, Open, MutationFailure
<1>3. CASE SaveAdvances(o)
  BY <1>3, SaveAdvancesInv
<1>4. CASE EncryptionChecked(o)
  BY <1>4, ReadGoesToInv DEF EncryptionChecked, Reading
<1>5. CASE Decrypted(o)
  <2>1. ops[o].kind \in Reads /\ Fetched(o) /\ ops[o].got \in Ciphertexts
    BY <1>1, <1>5 DEF Decrypted, Reading, Settled, Fetched, CallShape
  <2>2. CASE ReadGoesTo(o, "redecrypting")
    BY <2>1, <2>2, ReadGoesToInv
  <2>3. CASE ~ReadGoesTo(o, "redecrypting")
    BY <1>5, <2>1, <2>3, ReadEndsInv DEF Decrypted, ReadFailure
  <2>4. QED
    BY <2>2, <2>3
<1>6. CASE Redecrypted(o) \/ Reencrypted(o)
  BY <1>1, <1>6, ReadGoesToInv
     DEF Redecrypted, Reencrypted, Reading, Settled, Fetched, CallShape
<1>7. CASE ReadThrows(o)
  BY <1>7, ReadEndsInv DEF ReadThrows, ReadFails, ReadFailure
<1>8. QED
  BY <1>2, <1>3, <1>4, <1>5, <1>6, <1>7 DEF SecureStorage

LEMMA RepositoryInv ==
  ASSUME StoreInv, NEW o \in Ops, Repository(o)
  PROVE  StoreInv'
<1>1. ops[o] \in OpStates /\ CallShape(ops[o])
  BY DEF StoreInv, TypeOK, CallsHaveShape
<1>2. CASE Write(o)
  BY <1>2, WriteInv
<1>3. CASE WriteFails(o)
  <2>1. Open(o) /\ writeTail # <<>> /\ Head(writeTail) = o
    BY <1>1, <1>3 DEF WriteFails, WriteTurn, Open, CallShape
  <2>2. MutationFailure(o) \in Answers /\ MutationFailure(o) # "ok"
    BY DEF MutationFailure
  <2>3. QED
    BY <1>3, <2>1, <2>2, EndMutationInv DEF WriteFails
<1>4. CASE WriteReturns(o)
  <2>1. Open(o) /\ writeTail # <<>> /\ Head(writeTail) = o /\ ops[o].pc = "written"
    BY <1>1, <1>4 DEF WriteReturns, StoreInv, WriteHolds, Open, CallShape
  <2>2. (IF Current(o) THEN "ok" ELSE "superseded") \in Answers
    OBVIOUS
  <2>3. QED
    BY <1>4, <2>1, <2>2, EndMutationInv DEF WriteReturns
<1>5. CASE GetEncrypted(o)
  BY <1>5, GetEncryptedInv
<1>6. CASE EncryptedReturned(o)
  <2>1. /\ ops[o].kind \in Reads /\ Fetched(o)
        /\ ops[o].got \in Ciphertexts \cup {Absent}
    BY <1>6 DEF EncryptedReturned, Reading, Settled, Fetched, StoreInv, TypeOK
  <2>2. CASE ops[o].got = Absent /\ Readable(o)
    BY <1>6, <2>1, <2>2, ReadEndsInv DEF EncryptedReturned
  <2>3. CASE ~(ops[o].got = Absent /\ Readable(o))
    BY <1>6, <2>1, <2>3, ReadGoesToInv DEF EncryptedReturned
  <2>4. QED
    BY <2>2, <2>3
<1>7. CASE ReplaceEncryptedIfCurrent(o)
  BY <1>7, ReplaceEncryptedIfCurrentInv
<1>8. CASE ReplacementReturned(o)
  BY <1>8, ReadEndsInv DEF ReplacementReturned, Reading, ReadFailure
<1>9. QED
  BY <1>2, <1>3, <1>4, <1>5, <1>6, <1>7, <1>8 DEF Repository

LEMMA StoreStep == StoreInv /\ [Next]_vars => StoreInv'
<1> SUFFICES ASSUME StoreInv, [Next]_vars PROVE StoreInv'
  OBVIOUS
<1>1. ASSUME NEW o \in Ops, Calls(o) \/ StatusTimeout(o) \/ SecureStorage(o) \/ Repository(o)
      PROVE  StoreInv'
  BY <1>1, CallsInv, StatusTimeoutInv, SecureStorageInv, RepositoryInv
<1>2. CASE UNCHANGED vars
  BY <1>2 DEF vars, StoreInv, TypeOK, CallsHaveShape, Generations, Open, WriteHolds,
              ReadsAreFresh, Settled, Fetched, NoResurrection
<1>3. QED
  BY <1>1, <1>2 DEF Next

LEMMA StoreInvariant == Spec => []StoreInv
  BY StoreInit, StoreStep, PTL DEF Spec

(* What the row holds is what the newest successful mutation left there,   *)
(* unless a newer one has since written.                                   *)
THEOREM CredentialsStayGone == Spec => []NoResurrection
<1>1. StoreInv => NoResurrection
  BY DEF StoreInv
<1>2. QED
  BY <1>1, StoreInvariant, PTL

-----------------------------------------------------------------------------
(* Answers.                                                                *)

(* A step of a call changes no other call.                                 *)
LEMMA CallsAreApart ==
  ASSUME StoreInv, NEW p \in Ops, NEW o \in Ops \ {p},
         Calls(p) \/ StatusTimeout(p) \/ SecureStorage(p) \/ Repository(p)
  PROVE  ops'[o] = ops[o]
<1>1. ops \in [Ops -> OpStates]
  BY DEF StoreInv, TypeOK
<1>2. ASSUME NEW answer, ops' = Finished(p, answer) PROVE ops'[o] = ops[o]
  BY <1>1, <1>2 DEF Finished
<1>3. ASSUME NEW pc, ReadGoesTo(p, pc) PROVE ops'[o] = ops[o]
  BY <1>1, <1>2, <1>3 DEF ReadGoesTo
<1>4. CASE Calls(p) \/ StatusTimeout(p)
  BY <1>1, <1>4 DEF Calls, Save, Delete, Load, GetStatus, BeginMutation, BeginRead, StatusTimeout
<1>5. CASE SaveAdvances(p) \/ Write(p) \/ GetEncrypted(p) \/ ReplaceEncryptedIfCurrent(p)
  BY <1>1, <1>5 DEF SaveAdvances, Write, GetEncrypted, ReplaceEncryptedIfCurrent
<1>6. CASE SaveFails(p) \/ WriteFails(p) \/ WriteReturns(p) \/ ReadThrows(p)
             \/ ReplacementReturned(p)
  BY <1>2, <1>6 DEF SaveFails, WriteFails, WriteReturns, EndMutation, ReadThrows, ReadFails,
                    ReplacementReturned
<1>7. CASE EncryptionChecked(p) \/ Redecrypted(p) \/ Reencrypted(p) \/ EncryptedReturned(p)
             \/ Decrypted(p)
  BY <1>2, <1>3, <1>7 DEF EncryptionChecked, Redecrypted, Reencrypted, EncryptedReturned, Decrypted
<1>8. QED
  BY <1>4, <1>5, <1>6, <1>7 DEF SecureStorage, Repository

(* A read that is answered without failing: it is readable, and says what  *)
(* the row it has fetched held.                                            *)
LEMMA AnsweringReads ==
  ASSUME StoreInv, [Next]_vars, NEW o \in Ops, Answering(o)
  PROVE  /\ Fetched(o) /\ Readable(o)
         /\ ops'[o].answer = "missing" <=> ops[o].got = Absent
<1> DEFINE Goal == /\ Fetched(o) /\ Readable(o)
                   /\ ops'[o].answer = "missing" <=> ops[o].got = Absent
<1>1. /\ ops \in [Ops -> OpStates] /\ ops[o] \in OpStates /\ CallShape(ops[o])
      /\ ops[o].kind \in Reads /\ ops[o].answer = "none"
      /\ ops'[o].answer \in {"ok", "missing"}
  BY DEF StoreInv, TypeOK, CallsHaveShape, Answering
<1>2. Calls(o) \/ StatusTimeout(o) \/ SecureStorage(o) \/ Repository(o)
  BY <1>1, CallsAreApart DEF Next, vars
<1>3. ASSUME NEW answer, ops' = Finished(o, answer) PROVE ops'[o].answer = answer
  BY <1>1, <1>3 DEF Finished
<1>4. ReadFailure(o) \notin {"ok", "missing"}
  BY DEF ReadFailure
<1>5. ASSUME NEW pc, ReadGoesTo(o, pc) PROVE FALSE
  BY <1>1, <1>3, <1>4, <1>5 DEF ReadGoesTo
<1>6. ~Calls(o) /\ ~StatusTimeout(o)
  <2>1. ops[o].pc # "idle"
    BY <1>1 DEF CallShape
  <2>2. ~StatusTimeout(o)
    BY <1>1 DEF StatusTimeout
  <2>3. QED
    BY <2>1, <2>2 DEF Calls, Save, Delete, Load, GetStatus, BeginMutation, BeginRead
<1>7. /\ ~SaveFails(o) /\ ~SaveAdvances(o) /\ ~Write(o) /\ ~WriteFails(o) /\ ~WriteReturns(o)
  BY <1>1 DEF SaveFails, SaveAdvances, Write, WriteFails, WriteReturns, WriteTurn, CallShape
<1>8. ~GetEncrypted(o) /\ ~ReplaceEncryptedIfCurrent(o)
  BY <1>1 DEF GetEncrypted, ReplaceEncryptedIfCurrent
<1>9. ~EncryptionChecked(o) /\ ~Redecrypted(o) /\ ~Reencrypted(o) /\ ~ReadThrows(o)
  BY <1>1, <1>3, <1>4, <1>5 DEF EncryptionChecked, Redecrypted, Reencrypted, ReadThrows, ReadFails
<1>10. CASE Decrypted(o)
  BY <1>1, <1>3, <1>4, <1>5, <1>10 DEF Decrypted, Reading, Fetched, Settled, CallShape
<1>11. CASE EncryptedReturned(o)
  BY <1>1, <1>3, <1>5, <1>11 DEF EncryptedReturned, Reading, Fetched, Settled
<1>12. CASE ReplacementReturned(o)
  BY <1>1, <1>3, <1>4, <1>12 DEF ReplacementReturned, Reading, Fetched, Settled, CallShape
<1>13. QED
  BY <1>2, <1>6, <1>7, <1>8, <1>9, <1>10, <1>11, <1>12 DEF SecureStorage, Repository

LEMMA AnswerIsCurrent ==
  ASSUME StoreInv, [Next]_vars, NEW o \in Ops, Answering(o)
  PROVE  /\ stored.plain = ops[o].got.plain
         /\ ops'[o].answer = "missing" <=> stored = Absent
         /\ \A m \in Ops : ops[m].kind \in Mutations /\ ops[m].gen >= ops[o].gen
                             => ops[m].pc = "done" /\ ops[m].gen = ops[o].gen
<1>1. /\ Fetched(o) /\ Readable(o)
      /\ ops'[o].answer = "missing" <=> ops[o].got = Absent
  BY AnsweringReads
<1>2. /\ stored.plain = ops[o].got.plain
      /\ stored \in Ciphertexts \cup {Absent} /\ ops[o].got \in Ciphertexts \cup {Absent}
  BY <1>1 DEF StoreInv, TypeOK, ReadsAreFresh, Fetched, Readable
<1>3. ops[o].got = Absent <=> stored = Absent
  BY <1>2
<1>4. \A m \in Ops : ops[m].kind \in Mutations /\ ops[m].gen >= ops[o].gen
                     => ops[m].pc = "done" /\ ops[m].gen = ops[o].gen
  BY <1>1 DEF StoreInv, TypeOK, Generations, Open, Readable
<1>5. QED
  BY <1>1, <1>2, <1>3, <1>4

(* A load or a status that answers, rather than failing, answers what the  *)
(* row holds at that moment, with no newer mutation under way.             *)
THEOREM AnswersStayCurrent == Spec => AnswersAreCurrent
<1>1. StoreInv /\ [Next]_vars =>
        [\A o \in Ops : Answering(o) =>
           /\ stored.plain = ops[o].got.plain
           /\ ops'[o].answer = "missing" <=> stored = Absent
           /\ \A m \in Ops : ops[m].kind \in Mutations /\ ops[m].gen >= ops[o].gen
                               => ops[m].pc = "done" /\ ops[m].gen = ops[o].gen]_vars
  BY AnswerIsCurrent
<1>2. QED
  BY <1>1, StoreInvariant, PTL DEF Spec, AnswersAreCurrent

-----------------------------------------------------------------------------
(* The shell over the store.                                               *)

(* A mutation answers when it ends, a status never with an error.          *)
AnswerOfKind(c) ==
  /\ c.kind \in Mutations => /\ c.answer \in {"none", "ok", "superseded", "error"}
                             /\ c.answer = "none" <=> c.pc # "done"
  /\ c.kind = "status" => c.answer \in {"none", "ok", "missing", "unavailable"}

AnswersOfKind == \A o \in Ops : AnswerOfKind(ops[o])

(* What the shell is about to be told is still so: no command begins       *)
(* between an answer and the step that deals with it.                      *)
AnswersHold ==
  \A o \in Ops \ returned :
    /\ ops[o].kind = "load" /\ ops[o].answer \in {"missing", "error"} => Current(o)
    /\ ops[o].kind = "status" /\ ops[o].answer = "ok" => Readable(o) /\ stored # Absent
    /\ ops[o].kind = "save" /\ ops[o].answer = "ok" => Current(o) /\ latest.plain # NoCredential

(* The newest mutation, if it is a deletion that may yet touch the row.    *)
Deleting(o) == Open(o) /\ ops[o].kind = "delete" /\ Current(o)

(* While it deletes the shell is closed.                                   *)
DeletingCloses == (\E o \in Ops : Deleting(o)) => ~consent /\ credentialStatus # "configured"

ConfiguredIsStored == credentialStatus = "configured" => stored # Absent

ShellInv ==
  /\ StoreInv
  /\ ShellTypeOK
  /\ AnswersOfKind
  /\ AnswersHold
  /\ DeletingCloses
  /\ ConfiguredIsStored
  /\ DeletionRevokesConsent

(* What a step of the store means to the shell: the call stays what it is, *)
(* an answer stands, and only the newest mutation writes the row or        *)
(* reports success.                                                        *)
Moved(p) ==
  /\ \A o \in Ops \ {p} : ops'[o] = ops[o]
  /\ ops'[p].kind = ops[p].kind /\ ops'[p].gen = ops[p].gen /\ ops'[p].cred = ops[p].cred
  /\ ops[p].answer # "none" => ops'[p].answer = ops[p].answer
  /\ UNCHANGED mutationGeneration /\ pendingMutations' \subseteq pendingMutations
  /\ AnswerOfKind(ops'[p])
  /\ ops[p].kind = "load" /\ ops[p].answer = "none" /\ ops'[p].answer = "error" => Current(p)
  /\ IF Open(p) /\ ops'[p].answer = "ok"
     THEN Current(p) /\ latest' = [gen |-> ops[p].gen, plain |-> ops[p].cred]
     ELSE UNCHANGED latest
  /\ \/ stored'.plain = stored.plain
     \/ Open(p) /\ Current(p) /\ stored'.plain = ops[p].cred

LEMMA ReadMoved ==
  ASSUME StoreInv, NEW p \in Ops, ops[p].kind \in Reads,
         NEW c \in OpStates, ops' = [ops EXCEPT ![p] = c],
         c.kind = ops[p].kind, c.gen = ops[p].gen, c.cred = ops[p].cred, AnswerOfKind(c),
         ops[p].answer # "none" => c.answer = ops[p].answer,
         ops[p].kind = "load" /\ ops[p].answer = "none" /\ c.answer = "error" => Current(p),
         stored'.plain = stored.plain,
         UNCHANGED <<mutationGeneration, pendingMutations, latest>>
  PROVE  Moved(p)
<1>1. ops'[p] = c /\ \A o \in Ops \ {p} : ops'[o] = ops[o]
  BY DEF StoreInv, TypeOK
<1>2. ops[p].kind \notin Mutations /\ ~Open(p)
  BY DEF Open
<1>3. QED
  BY <1>1, <1>2 DEF Moved

LEMMA ReadFinished ==
  ASSUME StoreInv, AnswersOfKind, NEW p \in Ops, ops[p].kind \in Reads, NEW answer \in Answers,
         ops[p].kind = "status" => answer \in {"ok", "missing", "unavailable"},
         ops[p].kind = "load" /\ answer = "error" => Current(p),
         ops' = Finished(p, answer), UNCHANGED <<mutationGeneration, pendingMutations, stored, latest>>
  PROVE  Moved(p)
<1> DEFINE a == IF ops[p].answer = "none" THEN answer ELSE ops[p].answer
           c == [ops[p] EXCEPT !.pc = "done", !.answer = a]
<1>1. ops \in [Ops -> OpStates] /\ ops[p] \in OpStates
  BY DEF StoreInv, TypeOK
<1>2. ops' = [ops EXCEPT ![p] = c]
  BY <1>1 DEF Finished
<1>3. /\ c \in OpStates /\ c.kind = ops[p].kind /\ c.gen = ops[p].gen /\ c.cred = ops[p].cred
      /\ c.answer = a
  <2>1. a \in Answers
    BY <1>1
  <2> HIDE DEF a
  <2>2. QED
    BY <1>1, <2>1
<1> HIDE DEF c
<1>4. AnswerOfKind(c)
  BY <1>3 DEF AnswerOfKind, AnswersOfKind
<1>5. QED
  BY <1>2, <1>3, <1>4, ReadMoved

LEMMA ReadWentTo ==
  ASSUME StoreInv, AnswersOfKind, NEW p \in Ops, ops[p].kind \in Reads, NEW pc \in PCs, ReadGoesTo(p, pc)
  PROVE  Moved(p)
<1> DEFINE c == [ops[p] EXCEPT !.pc = pc]
<1>1. ops \in [Ops -> OpStates] /\ ops[p] \in OpStates
  BY DEF StoreInv, TypeOK
<1>2. CASE Readable(p)
  <2>1. /\ ops' = [ops EXCEPT ![p] = c]
        /\ UNCHANGED <<mutationGeneration, pendingMutations, stored, latest>>
    BY <1>1, <1>2 DEF ReadGoesTo
  <2>2. /\ c \in OpStates /\ c.kind = ops[p].kind /\ c.gen = ops[p].gen /\ c.cred = ops[p].cred
        /\ c.answer = ops[p].answer
    BY <1>1
  <2> HIDE DEF c
  <2>3. AnswerOfKind(c)
    BY <2>2 DEF AnswerOfKind, AnswersOfKind
  <2>4. QED
    BY <2>1, <2>2, <2>3, ReadMoved
<1>3. CASE ~Readable(p)
  <2>1. /\ ReadFailure(p) \in Answers
        /\ ops[p].kind = "status" => ReadFailure(p) = "unavailable"
        /\ ops[p].kind = "load" => ReadFailure(p) = "superseded"
    BY <1>3 DEF ReadFailure
  <2>2. QED
    BY <1>3, <2>1, ReadFinished DEF ReadGoesTo
<1>4. QED
  BY <1>2, <1>3

LEMMA MutationEnded ==
  ASSUME StoreInv, AnswersOfKind, NEW p \in Ops, Open(p),
         NEW answer \in {"ok", "superseded", "error"}, EndMutation(p, answer),
         answer = "ok" => Current(p), UNCHANGED <<mutationGeneration, stored>>
  PROVE  Moved(p)
<1> DEFINE c == [ops[p] EXCEPT !.pc = "done", !.answer = answer]
<1>1. /\ ops \in [Ops -> OpStates] /\ ops[p] \in OpStates
      /\ ops[p].kind \in Mutations /\ ops[p].answer = "none"
  BY DEF StoreInv, TypeOK, AnswersOfKind, AnswerOfKind, Open
<1>2. /\ ops' = [ops EXCEPT ![p] = c]
      /\ latest' = IF answer = "ok" THEN [gen |-> ops[p].gen, plain |-> ops[p].cred] ELSE latest
      /\ pendingMutations' \subseteq pendingMutations
  BY <1>1 DEF EndMutation, Finished
<1>3. /\ c \in OpStates /\ c.kind = ops[p].kind /\ c.gen = ops[p].gen /\ c.cred = ops[p].cred
      /\ c.answer = answer /\ c.pc = "done"
  BY <1>1
<1> HIDE DEF c
<1>4. ops'[p] = c /\ \A o \in Ops \ {p} : ops'[o] = ops[o]
  BY <1>1, <1>2
<1>5. AnswerOfKind(ops'[p])
  BY <1>1, <1>3, <1>4 DEF AnswerOfKind
<1>6. latest' = IF ops'[p].answer = "ok" THEN [gen |-> ops[p].gen, plain |-> ops[p].cred]
                                         ELSE latest
  BY <1>2, <1>3, <1>4
<1>7. ops[p].kind # "load"
  BY <1>1
<1>8. QED
  BY <1>1, <1>2, <1>3, <1>4, <1>5, <1>6, <1>7 DEF Moved

(* Steps of a call that has begun.                                         *)
Goes(p) == StatusTimeout(p) \/ SecureStorage(p) \/ Repository(p)

LEMMA StepsMove ==
  ASSUME StoreInv, AnswersOfKind, NEW p \in Ops, Goes(p)
  PROVE  Moved(p)
<1>1. /\ ops \in [Ops -> OpStates] /\ ops[p] \in OpStates /\ CallShape(ops[p])
      /\ AnswerOfKind(ops[p])
  BY DEF StoreInv, TypeOK, CallsHaveShape, AnswersOfKind
<1>2. /\ ReadFailure(p) \in Answers
      /\ ops[p].kind = "status" => ReadFailure(p) = "unavailable"
      /\ ReadFailure(p) = "error" => Current(p)
      /\ MutationFailure(p) \in {"superseded", "error"}
  BY DEF ReadFailure, MutationFailure, Readable
<1>3. CASE StatusTimeout(p)
  <2> DEFINE c == [ops[p] EXCEPT !.answer = "unavailable"]
  <2>1. ops' = [ops EXCEPT ![p] = c] /\ ops[p].kind \in Reads /\ ops[p].answer = "none"
    BY <1>1, <1>3 DEF StatusTimeout
  <2>2. c \in OpStates /\ c.kind = ops[p].kind /\ c.gen = ops[p].gen /\ c.cred = ops[p].cred
        /\ c.answer = "unavailable"
    BY <1>1
  <2> HIDE DEF c
  <2>3. AnswerOfKind(c)
    BY <2>1, <2>2 DEF AnswerOfKind
  <2>4. QED
    BY <1>3, <2>1, <2>2, <2>3, ReadMoved DEF StatusTimeout
<1>4. CASE SaveFails(p)
  BY <1>2, <1>4, MutationEnded DEF SaveFails, Open
<1>5. CASE SaveAdvances(p)
  <2> DEFINE c == [ops[p] EXCEPT !.pc = IF @ = "checking" THEN "encrypting" ELSE "queued"]
  <2>1. ops' = [ops EXCEPT ![p] = c] /\ UNCHANGED <<mutationGeneration, pendingMutations, stored, latest>>
    BY <1>1, <1>5 DEF SaveAdvances
  <2>2. /\ c.kind = ops[p].kind /\ c.gen = ops[p].gen /\ c.cred = ops[p].cred
        /\ c.answer = ops[p].answer /\ c.pc # "done"
    BY <1>1
  <2> HIDE DEF c
  <2>3. ops'[p] = c /\ \A o \in Ops \ {p} : ops'[o] = ops[o]
    BY <1>1, <2>1
  <2>4. ops[p].kind \in Mutations /\ ops[p].answer = "none"
    BY <1>1, <1>5 DEF SaveAdvances, AnswerOfKind
  <2>5. AnswerOfKind(ops'[p])
    BY <2>2, <2>3, <2>4 DEF AnswerOfKind
  <2>6. QED
    BY <2>1, <2>2, <2>3, <2>4, <2>5 DEF Moved
<1>6. CASE Write(p)
  <2> DEFINE c == [ops[p] EXCEPT !.pc = "written"]
  <2>1. /\ ops' = [ops EXCEPT ![p] = c] /\ Current(p)
        /\ UNCHANGED <<mutationGeneration, pendingMutations, latest>>
    BY <1>1, <1>6 DEF Write
  <2>2. /\ c.kind = ops[p].kind /\ c.gen = ops[p].gen /\ c.cred = ops[p].cred
        /\ c.answer = ops[p].answer /\ c.pc # "done"
    BY <1>1
  <2> HIDE DEF c
  <2>3. ops'[p] = c /\ \A o \in Ops \ {p} : ops'[o] = ops[o]
    BY <1>1, <2>1
  <2>4. ops[p].kind \in Mutations /\ ops[p].pc = "queued"
    BY <1>1, <1>6 DEF Write, WriteTurn, CallShape
  <2>5. Open(p) /\ ops[p].answer = "none"
    BY <1>1, <2>4 DEF Open, AnswerOfKind
  <2>6. stored'.plain = ops[p].cred
    BY <1>1, <1>6, <2>4 DEF Write, CallShape
  <2>7. QED
    BY <2>1, <2>2, <2>3, <2>5, <2>6 DEF Moved, AnswerOfKind
<1>7. CASE WriteFails(p)
  <2>1. Open(p)
    BY <1>1, <1>7 DEF WriteFails, WriteTurn, Open, CallShape
  <2>2. QED
    BY <1>2, <1>7, <2>1, MutationEnded DEF WriteFails
<1>8. CASE WriteReturns(p)
  <2>1. Open(p)
    BY <1>1, <1>8 DEF WriteReturns, Open, CallShape
  <2>2. QED
    BY <1>8, <2>1, MutationEnded DEF WriteReturns
<1>9. CASE GetEncrypted(p)
  <2> DEFINE c == [ops[p] EXCEPT !.pc = "got", !.got = stored]
  <2>1. /\ ops' = [ops EXCEPT ![p] = c] /\ ops[p].kind \in Reads
        /\ UNCHANGED <<mutationGeneration, pendingMutations, stored, latest>>
    BY <1>1, <1>9 DEF GetEncrypted, Reading
  <2>2. /\ c \in OpStates /\ c.kind = ops[p].kind /\ c.gen = ops[p].gen /\ c.cred = ops[p].cred
        /\ c.answer = ops[p].answer
    BY ZenonT(60), <1>1 DEF StoreInv, TypeOK
  <2> HIDE DEF c
  <2>3. AnswerOfKind(c)
    BY <1>1, <2>1, <2>2 DEF AnswerOfKind
  <2>4. QED
    BY <2>1, <2>2, <2>3, ReadMoved
<1>10. CASE ReplaceEncryptedIfCurrent(p)
  <2> DEFINE c == [ops[p] EXCEPT !.pc = "replaced"]
  <2>1. /\ ops' = [ops EXCEPT ![p] = c] /\ ops[p].kind \in Reads
        /\ UNCHANGED <<mutationGeneration, pendingMutations, latest>>
    BY <1>1, <1>10 DEF ReplaceEncryptedIfCurrent, Reading
  <2>2. /\ c \in OpStates /\ c.kind = ops[p].kind /\ c.gen = ops[p].gen /\ c.cred = ops[p].cred
        /\ c.answer = ops[p].answer
    BY <1>1
  <2> HIDE DEF c
  <2>3. stored'.plain = stored.plain
    BY <1>10 DEF ReplaceEncryptedIfCurrent, StoreInv, TypeOK
  <2>4. AnswerOfKind(c)
    BY <1>1, <2>1, <2>2 DEF AnswerOfKind
  <2>5. QED
    BY <2>1, <2>2, <2>3, <2>4, ReadMoved
<1>11. CASE EncryptionChecked(p) \/ Redecrypted(p) \/ Reencrypted(p)
  BY <1>11, ReadWentTo DEF EncryptionChecked, Redecrypted, Reencrypted, Reading
<1>12. CASE Decrypted(p)
  BY <1>2, <1>12, ReadWentTo, ReadFinished DEF Decrypted, Reading
<1>13. CASE EncryptedReturned(p)
  BY <1>13, ReadWentTo, ReadFinished DEF EncryptedReturned, Reading
<1>14. CASE ReadThrows(p) \/ ReplacementReturned(p)
  BY <1>2, <1>14, ReadFinished DEF ReadThrows, ReadFails, ReplacementReturned, Reading
<1>15. QED
  BY <1>3, <1>4, <1>5, <1>6, <1>7, <1>8, <1>9, <1>10, <1>11, <1>12, <1>13, <1>14
     DEF Goes, SecureStorage, Repository

(* A read that is still readable, and a mutation that has ended as the     *)
(* newest, leave no other that could touch the row.                        *)
LEMMA NewestIsDone ==
  ASSUME StoreInv, NEW o \in Ops, Readable(o) \/ (Current(o) /\ ops[o].kind \in Mutations /\ ~Open(o)),
         NEW p \in Ops, Open(p)
  PROVE  ~Current(p)
  BY DEF StoreInv, Generations, Readable, Open

(* A step of a call, as the shell sees it: its answer arrives, or not yet. *)
LEMMA GoesAnswers ==
  ASSUME ShellInv, NEW p \in Ops, Goes(p), Moved(p), UNCHANGED <<shellVars, returned>>
  PROVE  AnswersHold'
<1>1. [Next]_vars
  BY DEF Goes, Next
<1>2. /\ \A o \in Ops : ops'[o].kind = ops[o].kind /\ ops'[o].gen = ops[o].gen
      /\ \A o \in Ops : ops[o].answer # "none" => ops'[o].answer = ops[o].answer
      /\ \A o \in Ops : ops[o].answer = "none" /\ ops'[o].answer # "none" => o = p
      /\ returned' = returned
  BY DEF Moved
<1>3. stored \in Ciphertexts \cup {Absent} /\ stored' \in Ciphertexts \cup {Absent}
  BY <1>1, StoreStep DEF ShellInv, StoreInv, TypeOK
<1>4. /\ \A o \in Ops : Current(o)' <=> Current(o)
      /\ \A o \in Ops : Readable(o) => Readable(o)'
  BY <1>2 DEF Moved, Readable
<1>5. ASSUME NEW o \in Ops \ returned, ops[o].kind = "load",
             ops'[o].answer \in {"missing", "error"}
      PROVE  Current(o)
  <2>1. CASE ops[o].answer = "none" /\ ops'[o].answer = "missing"
    BY <1>1, <1>5, <2>1, AnsweringReads DEF ShellInv, Answering, Readable
  <2>2. CASE ops[o].answer = "none" /\ ops'[o].answer = "error"
    BY <1>2, <1>5, <2>2 DEF Moved
  <2>3. CASE ops[o].answer # "none"
    BY <1>2, <1>5, <2>3 DEF ShellInv, AnswersHold
  <2>4. QED
    BY <1>5, <2>1, <2>2, <2>3
<1>6. ASSUME NEW o \in Ops \ returned, ops[o].kind = "status", ops'[o].answer = "ok"
      PROVE  Readable(o) /\ stored' # Absent
  <2>1. Readable(o) /\ stored # Absent
    <3>1. CASE ops[o].answer = "none"
      BY <1>1, <1>6, <3>1, AnsweringReads, AnswerIsCurrent DEF ShellInv, Answering
    <3>2. CASE ops[o].answer # "none"
      BY <1>2, <1>6, <3>2 DEF ShellInv, AnswersHold
    <3>3. QED
      BY <3>1, <3>2
  <2>2. stored'.plain = stored.plain
    BY <2>1, NewestIsDone DEF Moved, ShellInv
  <2>3. QED
    BY <1>3, <2>1, <2>2
<1>7. ASSUME NEW o \in Ops \ returned, ops[o].kind = "save", ops'[o].answer = "ok"
      PROVE  Current(o) /\ latest'.plain # NoCredential
  <2>1. CASE ops[o].answer = "none"
    <3>1. o = p /\ Open(o) /\ CallShape(ops[o])
      BY <1>2, <1>7, <2>1
         DEF ShellInv, StoreInv, CallsHaveShape, AnswersOfKind, AnswerOfKind, Open
    <3>2. Current(o) /\ latest'.plain = ops[o].cred
      BY <1>7, <3>1 DEF Moved
    <3>3. QED
      BY <1>7, <3>1, <3>2 DEF CallShape
  <2>2. CASE ops[o].answer # "none"
    <3>1. Current(o) /\ latest.plain # NoCredential /\ ~Open(o)
      BY <1>2, <1>7, <2>2
         DEF ShellInv, AnswersHold, AnswersOfKind, AnswerOfKind, Open
    <3>2. latest' = latest
      BY <1>7, <3>1, NewestIsDone DEF Moved, ShellInv
    <3>3. QED
      BY <3>1, <3>2
  <2>3. QED
    BY <2>1, <2>2
<1>8. QED
  BY <1>2, <1>4, <1>5, <1>6, <1>7 DEF AnswersHold

LEMMA GoesInv ==
  ASSUME ShellInv, NEW p \in Ops, Goes(p), UNCHANGED <<shellVars, returned>>
  PROVE  ShellInv'
<1>1. [Next]_vars
  BY DEF Goes, Next
<1>2. StoreInv'
  BY <1>1, StoreStep DEF ShellInv
<1>3. Moved(p)
  BY StepsMove DEF ShellInv
<1>4. /\ \A o \in Ops : ops'[o].kind = ops[o].kind /\ ops'[o].gen = ops[o].gen
                          /\ ops'[o].cred = ops[o].cred
      /\ \A o \in Ops : ops[o].answer # "none" => ops'[o].answer = ops[o].answer
  BY <1>3 DEF Moved
<1>5. UNCHANGED <<credentialStatus, enabled, consent, storedEnabled, storedConsent, returned>>
  BY DEF shellVars, stateVars, settingsVars
<1>6. ShellTypeOK'
  BY <1>2, <1>4, <1>5 DEF ShellInv, ShellTypeOK, StoreInv
<1>7. AnswersOfKind'
  BY <1>3 DEF Moved, ShellInv, AnswersOfKind
<1>8. AnswersHold'
  BY <1>3, GoesAnswers
<1>9. \A o \in Ops : Deleting(o)' => Deleting(o)
  <2>1. \A o \in Ops : Open(o)' => Open(o)
    BY <1>3, <1>4 DEF Moved, Open, ShellInv, AnswersOfKind, AnswerOfKind
  <2>2. QED
    BY <1>3, <1>4, <2>1 DEF Moved, Deleting
<1>10. DeletingCloses'
  BY <1>5, <1>9 DEF ShellInv, DeletingCloses
<1>11. ASSUME Open(p), ops[p].cred = NoCredential PROVE ops[p].kind = "delete"
  BY <1>11 DEF ShellInv, StoreInv, CallsHaveShape, CallShape, Open
<1>12. ConfiguredIsStored'
  <2> SUFFICES ASSUME credentialStatus = "configured" PROVE stored' # Absent
    BY <1>5 DEF ConfiguredIsStored
  <2>1. stored # Absent /\ ~Deleting(p)
    BY DEF ShellInv, ConfiguredIsStored, DeletingCloses
  <2>2. stored \in Ciphertexts \cup {Absent} /\ stored' \in Ciphertexts \cup {Absent}
    BY <1>2 DEF ShellInv, StoreInv, TypeOK
  <2>3. CASE stored'.plain = stored.plain
    BY <2>1, <2>2, <2>3
  <2>4. CASE Open(p) /\ Current(p) /\ stored'.plain = ops[p].cred
    BY <1>11, <2>1, <2>4 DEF Deleting
  <2>5. QED
    BY <1>3, <2>3, <2>4 DEF Moved
<1>13. DeletionRevokesConsent'
  <2>1. CASE Open(p) /\ ops'[p].answer = "ok"
    <3>1. Current(p) /\ latest'.plain = ops[p].cred
      BY <1>3, <2>1 DEF Moved
    <3>2. latest'.plain = NoCredential => Deleting(p)
      BY <1>11, <2>1, <3>1 DEF Deleting
    <3>3. QED
      BY <1>5, <3>2 DEF ShellInv, DeletingCloses, DeletionRevokesConsent
  <2>2. CASE ~(Open(p) /\ ops'[p].answer = "ok")
    BY <1>3, <1>5, <2>2 DEF Moved, ShellInv, DeletionRevokesConsent
  <2>3. QED
    BY <2>1, <2>2
<1>14. QED
  BY <1>2, <1>6, <1>7, <1>8, <1>10, <1>12, <1>13 DEF ShellInv

(* A save or a delete begins: nothing is left that the shell has yet to    *)
(* deal with, and older mutations can no longer touch the row.             *)
LEMMA MutationBegins ==
  ASSUME ShellInv, Drained, NEW o \in Ops, NEW kind \in Mutations, NEW cred, NEW pc \in PCs,
         pc # "done",
         BeginMutation(o, kind, cred, pc), StoreInv', ShellTypeOK',
         kind = "delete" => ~consent' /\ credentialStatus' # "configured",
         kind # "delete" => UNCHANGED <<consent, credentialStatus>>,
         UNCHANGED returned
  PROVE  ShellInv'
<1> DEFINE c == [IdleOp EXCEPT !.kind = kind, !.cred = cred, !.pc = pc,
                               !.gen = mutationGeneration + 1]
<1>1. /\ ops \in [Ops -> OpStates]
      /\ ops' = [ops EXCEPT ![o] = c]
      /\ mutationGeneration \in Nat /\ mutationGeneration' = mutationGeneration + 1
      /\ UNCHANGED <<stored, latest>>
  BY DEF ShellInv, StoreInv, TypeOK, BeginMutation
<1>2. c.kind = kind /\ c.pc = pc /\ c.answer = "none"
  BY <1>1 DEF IdleOp
<1> HIDE DEF c
<1>3. ops'[o] = c /\ \A q \in Ops \ {o} : ops'[q] = ops[q]
  BY <1>1
<1>4. AnswersOfKind'
  BY <1>2, <1>3 DEF AnswerOfKind, ShellInv, AnswersOfKind
<1>5. AnswersHold'
  BY <1>2, <1>3 DEF AnswersHold, Drained
<1>6. \A q \in Ops : Deleting(q)' => q = o
  <2>1. \A q \in Ops : ops[q].gen \in Nat /\ ops[q].gen <= mutationGeneration
    BY <1>1 DEF ShellInv, StoreInv, Generations
  <2>2. QED
    BY <1>1, <1>3, <2>1 DEF Deleting
<1>7. DeletingCloses'
  BY <1>2, <1>3, <1>6 DEF DeletingCloses, Deleting
<1>8. ConfiguredIsStored' /\ DeletionRevokesConsent'
  BY <1>1 DEF ShellInv, ConfiguredIsStored, DeletionRevokesConsent
<1>9. QED
  BY <1>4, <1>5, <1>7, <1>8 DEF ShellInv

(* A read begins: a load, or the status of a save that has been dealt      *)
(* with, which has set the consent.                                        *)
LEMMA ReadBegins ==
  ASSUME ShellInv, NEW o \in Ops, NEW kind \in Reads, BeginRead(o, kind),
         UNCHANGED <<credentialStatus, enabled, storedEnabled>>,
         consent' \in BOOLEAN, storedConsent' \in BOOLEAN,
         \/ UNCHANGED consent
         \/ latest.plain # NoCredential /\ \A p \in Ops : ~Deleting(p),
         returned' \subseteq {q \in Ops : ops[q].answer # "none"}, returned \subseteq returned'
  PROVE  ShellInv'
<1> DEFINE c == [IdleOp EXCEPT !.kind = kind, !.pc = "checking", !.gen = mutationGeneration]
<1>1. /\ ops \in [Ops -> OpStates] /\ ops' = [ops EXCEPT ![o] = c]
      /\ ops[o].pc = "idle" /\ CallShape(ops[o])
      /\ UNCHANGED <<mutationGeneration, pendingMutations, stored, latest>>
  BY DEF ShellInv, StoreInv, TypeOK, CallsHaveShape, BeginRead
<1>2. c.kind = kind /\ c.answer = "none" /\ ops[o].answer = "none"
  BY <1>1 DEF IdleOp, CallShape
<1> HIDE DEF c
<1>3. ops'[o] = c /\ \A q \in Ops \ {o} : ops'[q] = ops[q]
  BY <1>1
<1>4. StoreInv'
  BY BeginReadInv DEF ShellInv
<1>5. ShellTypeOK'
  BY <1>2, <1>3, <1>4 DEF ShellInv, ShellTypeOK, StoreInv
<1>6. AnswersOfKind'
  BY <1>2, <1>3 DEF ShellInv, AnswersOfKind, AnswerOfKind
<1>7. AnswersHold'
  BY <1>1, <1>2, <1>3 DEF ShellInv, AnswersHold, Readable
<1>8. \A q \in Ops : Deleting(q)' => Deleting(q)
  BY <1>1, <1>2, <1>3 DEF Deleting, Open
<1>9. DeletingCloses'
  BY <1>8 DEF ShellInv, DeletingCloses
<1>10. ConfiguredIsStored' /\ DeletionRevokesConsent'
  BY <1>1 DEF ShellInv, ConfiguredIsStored, DeletionRevokesConsent
<1>11. QED
  BY <1>4, <1>5, <1>6, <1>7, <1>9, <1>10 DEF ShellInv

(* The commands that call the store.                                       *)
LEMMA CommandsInv ==
  ASSUME ShellInv, Drained, NEW o \in Ops, Commands(o)
  PROVE  ShellInv'
<1>1. ops \in [Ops -> OpStates] /\ CallShape(ops[o])
  BY DEF ShellInv, StoreInv, TypeOK, CallsHaveShape
<1>2. ASSUME NEW kind \in Mutations, NEW cred, NEW pc \in PCs, BeginMutation(o, kind, cred, pc),
             UNCHANGED returned
      PROVE  returned' \subseteq {q \in Ops : ops'[q].answer # "none"}
  <2>1. o \notin returned
    BY <1>1, <1>2 DEF BeginMutation, ShellInv, ShellTypeOK, CallShape
  <2>2. \A q \in Ops \ {o} : ops'[q] = ops[q]
    BY <1>1, <1>2 DEF BeginMutation
  <2>3. QED
    BY <1>2, <2>1, <2>2 DEF ShellInv, ShellTypeOK
<1>3. ASSUME NEW c \in Credentials, SaveBaiduCredentials(o, c)
      PROVE  ShellInv'
  <2>1. /\ BeginMutation(o, "save", c, "checking") /\ UNCHANGED writeTail
        /\ UNCHANGED <<credentialStatus, enabled, consent, storedEnabled, storedConsent, returned>>
    BY <1>3 DEF SaveBaiduCredentials, Save, shellVars, stateVars, settingsVars
  <2>2. StoreInv'
    BY <2>1, BeginMutationInv DEF ShellInv
  <2>3. ShellTypeOK'
    BY <1>2, <2>1, <2>2 DEF ShellInv, ShellTypeOK, StoreInv
  <2>4. QED
    BY <2>1, <2>2, <2>3, MutationBegins
<1>4. CASE DeleteBaiduCredentials(o)
  <2>1. /\ BeginMutation(o, "delete", NoCredential, "queued")
        /\ writeTail' = Append(writeTail, o)
        /\ ~enabled' /\ ~consent' /\ credentialStatus' = "unavailable" /\ UNCHANGED returned
    BY <1>4 DEF DeleteBaiduCredentials, Delete
  <2>2. StoreInv'
    BY <2>1, BeginMutationInv DEF ShellInv
  <2>3. ShellTypeOK'
    <3>1. storedEnabled' \in BOOLEAN /\ storedConsent' \in BOOLEAN
      BY <1>4 DEF DeleteBaiduCredentials, Persist, ShellInv, ShellTypeOK
    <3>2. enabled' \in BOOLEAN /\ consent' \in BOOLEAN
      BY <1>4 DEF DeleteBaiduCredentials
    <3>3. QED
      BY <1>2, <2>1, <2>2, <3>1, <3>2 DEF ShellTypeOK, StoreInv, Statuses
  <2>4. QED
    BY <2>1, <2>2, <2>3, MutationBegins
<1>5. CASE LoadCredentials(o)
  <2>1. /\ BeginRead(o, "load")
        /\ UNCHANGED <<credentialStatus, enabled, consent, storedEnabled, storedConsent, returned>>
    BY <1>5 DEF LoadCredentials, Load, shellVars, stateVars, settingsVars
  <2>2. QED
    BY <2>1, ReadBegins DEF ShellInv, ShellTypeOK
<1>6. QED
  BY <1>3, <1>4, <1>5 DEF Commands

(* The shell alone moves: it switches translation, or deals with an        *)
(* answer.                                                                 *)
LEMMA ShellMoves ==
  ASSUME ShellInv, UNCHANGED <<vars, consent>>,
         returned \subseteq returned', returned' \subseteq {q \in Ops : ops[q].answer # "none"},
         enabled' \in BOOLEAN, storedEnabled' \in BOOLEAN, storedConsent' \in BOOLEAN,
         credentialStatus' \in Statuses, enabled' => credentialStatus' = "configured",
         credentialStatus' = "configured" => stored # Absent /\ \A p \in Ops : ~Deleting(p)
  PROVE  ShellInv'
<1>1. UNCHANGED <<mutationGeneration, pendingMutations, writeTail, stored, ops, latest>>
  BY DEF vars
<1>2. StoreInv'
  BY <1>1, StoreStep DEF ShellInv, vars
<1>3. ShellTypeOK'
  BY <1>1, <1>2 DEF ShellInv, ShellTypeOK, StoreInv
<1>4. AnswersOfKind' /\ AnswersHold'
  BY <1>1 DEF ShellInv, AnswersOfKind, AnswersHold, Readable
<1>5. DeletingCloses'
  BY <1>1 DEF ShellInv, DeletingCloses, Deleting, Open
<1>6. ConfiguredIsStored' /\ DeletionRevokesConsent'
  BY <1>1 DEF ShellInv, ConfiguredIsStored, DeletionRevokesConsent
<1>7. QED
  BY <1>2, <1>3, <1>4, <1>5, <1>6 DEF ShellInv

(* What the invariant says of a state that is left as it is.               *)
LEMMA ShellTypes ==
  ASSUME ShellInv
  PROVE  /\ enabled \in BOOLEAN /\ storedEnabled \in BOOLEAN /\ storedConsent \in BOOLEAN
         /\ consent \in BOOLEAN /\ credentialStatus \in Statuses
         /\ enabled => credentialStatus = "configured"
         /\ returned \subseteq {q \in Ops : ops[q].answer # "none"}
         /\ credentialStatus = "configured" => stored # Absent /\ \A p \in Ops : ~Deleting(p)
  BY DEF ShellInv, ShellTypeOK, ConfiguredIsStored, DeletingCloses

(* Switching translation on and off.                                       *)
LEMMA SwitchInv ==
  ASSUME ShellInv, EnableTranslation \/ DisableTranslation
  PROVE  ShellInv'
<1>1. UNCHANGED <<vars, credentialStatus, consent, storedConsent, returned>>
  BY DEF EnableTranslation, DisableTranslation
<1>2. enabled' \in BOOLEAN /\ storedEnabled' \in BOOLEAN
      /\ (enabled' => credentialStatus = "configured")
  BY ShellTypes DEF EnableTranslation, DisableTranslation, Persist
<1>3. QED
  BY <1>1, <1>2, ShellTypes, ShellMoves

(* A runtime failure can only close the state.                             *)
LEMMA ClosedRuntime ==
  ASSUME ShellInv, NEW status \in {"missing", "unavailable"},
         FailClosedRuntimeCredentials(status)
  PROVE  /\ ~enabled' /\ enabled' \in BOOLEAN /\ credentialStatus' = status
         /\ storedEnabled' \in BOOLEAN /\ UNCHANGED <<consent, storedConsent>>
  BY DEF FailClosedRuntimeCredentials, SetTranslationCredentialStatus, Persist, shellVars,
         stateVars, settingsVars, ShellInv, ShellTypeOK

LEMMA ClosedReturn ==
  ASSUME ShellInv, NEW o \in Ops, ops[o].answer # "none", returned' = returned \cup {o},
         UNCHANGED vars, NEW status \in {"missing", "unavailable"},
         FailClosedRuntimeCredentials(status)
  PROVE  ShellInv'
<1>1. /\ ~enabled' /\ enabled' \in BOOLEAN /\ credentialStatus' = status
      /\ storedEnabled' \in BOOLEAN /\ UNCHANGED <<consent, storedConsent>>
  BY ClosedRuntime
<1>2. /\ credentialStatus' \in Statuses /\ credentialStatus' # "configured"
      /\ storedConsent' \in BOOLEAN
  BY <1>1, ShellTypes DEF Statuses
<1>3. returned' \subseteq {q \in Ops : ops[q].answer # "none"}
  BY ShellTypes
<1>4. QED
  BY <1>1, <1>2, <1>3, ShellMoves

LEMMA ReturnsInv ==
  ASSUME ShellInv, NEW o \in Ops, StatusReturned(o) \/ DeleteReturned(o) \/ SaveFailed(o)
                                    \/ LoadReturned(o)
  PROVE  ShellInv'
<1>1. /\ ops[o].answer # "none" /\ o \notin returned /\ returned' = returned \cup {o}
      /\ UNCHANGED vars
  BY DEF StatusReturned, DeleteReturned, SaveFailed, LoadReturned, Answered
<1>2. returned' \subseteq {q \in Ops : ops[q].answer # "none"}
  BY <1>1, ShellTypes
<1>3. CASE UNCHANGED shellVars
  BY <1>1, <1>2, <1>3, ShellTypes, ShellMoves DEF shellVars, stateVars, settingsVars
<1>4. CASE StatusReturned(o)
  <2>1. /\ ops[o].kind = "status"
        /\ credentialStatus' = IF ops[o].answer = "ok" THEN "configured" ELSE ops[o].answer
        /\ enabled' = (enabled /\ credentialStatus' = "configured")
        /\ UNCHANGED <<consent, storedEnabled, storedConsent>>
    BY <1>4 DEF StatusReturned, Answered, SetTranslationCredentialStatus, settingsVars
  <2>2. ops[o].answer \in {"ok", "missing", "unavailable"}
    BY <1>1, <2>1 DEF ShellInv, AnswersOfKind, AnswerOfKind
  <2>3. ASSUME ops[o].answer = "ok"
        PROVE  stored # Absent /\ \A p \in Ops : ~Deleting(p)
    BY <1>1, <2>1, <2>3, NewestIsDone DEF ShellInv, AnswersHold, Deleting
  <2>4. credentialStatus' = "configured" => ops[o].answer = "ok"
    BY <2>1, <2>2
  <2>5. credentialStatus' \in Statuses /\ enabled' \in BOOLEAN
        /\ (enabled' => credentialStatus' = "configured")
    BY <2>1, <2>2, ShellTypes DEF Statuses
  <2>6. QED
    BY <1>1, <1>2, <2>1, <2>3, <2>4, <2>5, ShellTypes, ShellMoves
<1>5. CASE DeleteReturned(o)
  <2>1. /\ credentialStatus' = IF ops[o].answer = "ok" THEN "missing" ELSE "unavailable"
        /\ enabled' = (enabled /\ credentialStatus' = "configured")
        /\ UNCHANGED <<consent, storedEnabled, storedConsent>>
    BY <1>5 DEF DeleteReturned, SetTranslationCredentialStatus, settingsVars
  <2>2. credentialStatus' \in Statuses /\ enabled' \in BOOLEAN /\ ~enabled'
        /\ credentialStatus' # "configured"
    BY <2>1, ShellTypes DEF Statuses
  <2>3. QED
    BY <1>1, <1>2, <2>1, <2>2, ShellTypes, ShellMoves
<1>6. CASE SaveFailed(o) \/ LoadReturned(o)
  <2>1. \/ UNCHANGED shellVars
        \/ FailClosedRuntimeCredentials("missing")
        \/ FailClosedRuntimeCredentials("unavailable")
    BY <1>6 DEF SaveFailed, LoadReturned
  <2>2. QED
    BY <1>1, <1>3, <2>1, ClosedReturn
<1>7. QED
  BY <1>4, <1>5, <1>6

(* A save that has succeeded records consent and asks for the status: no   *)
(* deletion can be under way, and none is the newest to have succeeded.    *)
LEMMA SaveSucceededInv ==
  ASSUME ShellInv, NEW o \in Ops, SaveSucceeded(o)
  PROVE  ShellInv'
<1>1. /\ ops[o].kind = "save" /\ ops[o].answer = "ok" /\ o \notin returned
      /\ returned' = returned \cup {o}
      /\ UNCHANGED <<credentialStatus, enabled, storedEnabled>>
  BY DEF SaveSucceeded, Answered
<1>2. returned' \subseteq {q \in Ops : ops[q].answer # "none"}
  BY <1>1, ShellTypes
<1>3. Current(o) /\ latest.plain # NoCredential /\ ~Open(o)
  BY <1>1 DEF ShellInv, AnswersHold, AnswersOfKind, AnswerOfKind, Open
<1>4. \A p \in Ops : ~Deleting(p)
  BY <1>1, <1>3, NewestIsDone DEF ShellInv, Deleting
<1>5. CASE UNCHANGED <<vars, storedConsent, consent>>
  BY <1>1, <1>2, <1>5, ShellTypes, ShellMoves
<1>6. ASSUME storedConsent' = TRUE, consent' = TRUE, NEW p \in Ops, GetStatus(p)
      PROVE  ShellInv'
  <2>1. BeginRead(p, "status")
    BY <1>6 DEF GetStatus
  <2>2. QED
    BY <1>1, <1>2, <1>3, <1>4, <1>6, <2>1, ReadBegins
<1>7. QED
  BY <1>5, <1>6 DEF SaveSucceeded

LEMMA ShellInitInv == ShellInit => ShellInv
<1> SUFFICES ASSUME ShellInit PROVE ShellInv
  OBVIOUS
<1>1. StoreInv
  BY StoreInit DEF ShellInit
<1>2. /\ ops = [o \in Ops |-> IdleOp] /\ latest = [gen |-> 0, plain |-> stored.plain]
      /\ returned = {}
  BY DEF ShellInit, Init
<1>3. \A o \in Ops : ops[o].kind = "none" /\ ops[o].answer = "none"
  BY <1>2 DEF IdleOp
<1>4. ShellTypeOK
  BY <1>1, <1>2 DEF ShellInit, ShellTypeOK, StoreInv, Statuses
<1>5. AnswersOfKind /\ AnswersHold /\ DeletingCloses
  BY <1>3 DEF AnswersOfKind, AnswersHold, AnswerOfKind, DeletingCloses, Deleting
<1>6. ConfiguredIsStored /\ DeletionRevokesConsent
  BY <1>2 DEF ShellInit, ConfiguredIsStored, DeletionRevokesConsent
<1>7. QED
  BY <1>1, <1>4, <1>5, <1>6 DEF ShellInv

LEMMA ShellStep == ShellInv /\ [ShellNext]_allVars => ShellInv'
<1> SUFFICES ASSUME ShellInv, [ShellNext]_allVars PROVE ShellInv'
  OBVIOUS
<1>1. CASE UNCHANGED allVars
  <2>1. UNCHANGED <<vars, credentialStatus, enabled, consent, storedEnabled, storedConsent,
                    returned>>
    BY <1>1 DEF allVars, shellVars, stateVars, settingsVars
  <2>2. QED
    BY <2>1, ShellTypes, ShellMoves
<1>2. ASSUME NEW o \in Ops, Returns(o) PROVE ShellInv'
  BY <1>2, SaveSucceededInv, ReturnsInv DEF Returns
<1>3. ASSUME NEW o \in Ops, Repository(o) \/ ReadThrows(o) \/ StatusTimeout(o) \/ SecureStorage(o),
             UNCHANGED <<shellVars, returned>>
      PROVE  ShellInv'
  BY <1>3, GoesInv DEF Goes, SecureStorage
<1>4. ASSUME Drained, NEW o \in Ops, Commands(o) PROVE ShellInv'
  BY <1>4, CommandsInv
<1>5. CASE EnableTranslation \/ DisableTranslation
  BY <1>5, SwitchInv
<1>6. QED
  BY <1>1, <1>2, <1>3, <1>4, <1>5 DEF ShellNext, Microtasks, Tasks

LEMMA ShellInvariant == ShellSpec => []ShellInv
  BY ShellInitInv, ShellStep, PTL DEF ShellSpec

(* Online translation is only ever possible with a credential in the       *)
(* vault, and from a deletion that succeeded until the next save that does *)
(* there is no consent, however the commands overlap.                      *)
THEOREM OnlineNeedsCredentials == ShellSpec => []OnlineIsAllowed
<1>1. ShellInv => OnlineIsAllowed
  BY DEF ShellInv, OnlineIsAllowed, OnlineHasCredential, CanTranslate, ConfiguredIsStored
<1>2. QED
  BY <1>1, ShellInvariant, PTL

(* Only the step that deals with a call returns it.                        *)
LEMMA LoadsReturn ==
  ASSUME ShellNext, NEW o \in returned' \ returned, ops[o].kind = "load"
  PROVE  o \in Ops \ returned /\ LoadReturned(o)
<1>1. PICK p \in Ops : Returns(p) /\ returned' = returned \cup {p}
  BY DEF ShellNext, Microtasks, Tasks, Commands, Returns, EnableTranslation,
     DisableTranslation, SaveBaiduCredentials, DeleteBaiduCredentials, LoadCredentials,
     SaveSucceeded, SaveFailed, StatusReturned, DeleteReturned, LoadReturned, Answered
<1>2. QED
  BY <1>1 DEF Returns, SaveSucceeded, SaveFailed, StatusReturned, DeleteReturned, Answered

(* Once a newer save or delete has begun, the late answer of a load, which *)
(* may be a failure, changes nothing of what the shell shows or stores.    *)
THEOREM LateLoadsChangeNothing == ShellSpec => LateLoadChangesNothing
<1>1. ASSUME ShellInv, ShellNext, NEW o \in returned' \ returned, ops[o].kind = "load",
             ops[o].gen # mutationGeneration
      PROVE  UNCHANGED shellVars
  <2>1. o \in Ops \ returned /\ LoadReturned(o)
    BY <1>1, LoadsReturn
  <2>2. ops[o].answer \notin {"missing", "error"}
    BY <1>1, <2>1 DEF ShellInv, AnswersHold
  <2>3. QED
    BY <2>1, <2>2 DEF LoadReturned
<1>2. ShellInv /\ [ShellNext]_allVars =>
        [\A o \in returned' \ returned :
           ops[o].kind = "load" /\ ops[o].gen # mutationGeneration => UNCHANGED shellVars]_allVars
  BY <1>1
<1>3. QED
  BY <1>2, ShellInvariant, PTL DEF ShellSpec, LateLoadChangesNothing

(* The step that deals with a load that found nothing, or failed, switches *)
(* translation off.                                                        *)
THEOREM FailedLoadsClose == ShellSpec => FailedLoadCloses
<1>1. ASSUME ShellInv, ShellNext, NEW o \in returned' \ returned, ops[o].kind = "load",
             ops[o].answer \in {"missing", "error"}
      PROVE  ~enabled'
  <2>1. LoadReturned(o)
    BY <1>1, LoadsReturn
  <2>2. FailClosedRuntimeCredentials("missing") \/ FailClosedRuntimeCredentials("unavailable")
    BY <1>1, <2>1 DEF LoadReturned
  <2>3. QED
    BY <1>1, <2>2, ClosedRuntime
<1>2. ShellInv /\ [ShellNext]_allVars =>
        [\A o \in returned' \ returned :
           ops[o].kind = "load" /\ ops[o].answer \in {"missing", "error"} => ~enabled']_allVars
  BY <1>1
<1>3. QED
  BY <1>2, ShellInvariant, PTL DEF ShellSpec, FailedLoadCloses

=============================================================================
