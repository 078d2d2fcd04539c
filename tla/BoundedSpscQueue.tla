-------------------------- MODULE BoundedSpscQueue --------------------------
(***************************************************************************)
(* BoundedSpscQueue: a ring of N slots without locks, for one producer     *)
(* (the hook callback) and one consumer (the pipeline's thread).  Each     *)
(* access to head, tail or a slot is a step, so that the two sides         *)
(* interleave within TryPush and TryPop.  Every index is loaded with       *)
(* acquire and stored with release order: an index seen by the other side  *)
(* is seen after the slot it stands for.                                   *)
(***************************************************************************)
EXTENDS Naturals, Sequences

CONSTANTS N, Values, None

ASSUME QueueAssumption == N \in Nat /\ N >= 2 /\ None \notin Values

VARIABLES
  head, tail, slots,
  producer, value,    \* where TryPush is, and its argument
  consumer, taken,    \* where TryPop is, and what it has copied
  answer, popped      \* what the newest call of each has returned

producerVars == <<producer, value>>
consumerVars == <<consumer, taken>>
returns == <<answer, popped>>
ringVars == <<head, tail, slots, producerVars, consumerVars, returns>>

Index == 0..(N - 1)

RingTypeOK ==
  /\ head \in Index /\ tail \in Index
  /\ slots \in [Index -> Values \cup {None}]
  /\ producer \in {"idle", "writing", "storing"} /\ value \in Values \cup {None}
  /\ consumer \in {"idle", "reading", "storing"} /\ taken \in Values \cup {None}
  /\ answer \in BOOLEAN /\ popped \in Values \cup {None}

RingInit ==
  /\ head = 0 /\ tail = 0
  /\ slots = [i \in Index |-> None]
  /\ producer = "idle" /\ value = None
  /\ consumer = "idle" /\ taken = None
  /\ answer = TRUE /\ popped = None

Increment(i) == (i + 1) % N

-----------------------------------------------------------------------------
(* Mutant: a full queue is not recognised.                                 *)
TryPushUnchecked(v) ==
  /\ producer = "idle"
  /\ producer' = "writing" /\ value' = v
  /\ UNCHANGED <<head, tail, slots, consumerVars, returns>>

TryPush(v) ==
  /\ producer = "idle"
  /\ IF Increment(head) = tail
     THEN answer' = FALSE /\ UNCHANGED producerVars
     ELSE producer' = "writing" /\ value' = v /\ UNCHANGED answer
  /\ UNCHANGED <<head, tail, slots, consumerVars, popped>>

WriteSlot ==
  /\ producer = "writing"
  /\ slots' = [slots EXCEPT ![head] = value]
  /\ producer' = "storing"
  /\ UNCHANGED <<head, tail, value, consumerVars, returns>>

StoreHead ==
  /\ producer = "storing"
  /\ head' = Increment(head)
  /\ answer' = TRUE
  /\ producer' = "idle"
  /\ UNCHANGED <<tail, slots, value, consumerVars, popped>>

(* Mutant: an empty queue is not recognised.                               *)
TryPopUnchecked ==
  /\ consumer = "idle"
  /\ consumer' = "reading"
  /\ UNCHANGED <<head, tail, slots, taken, producerVars, returns>>

TryPop ==
  /\ consumer = "idle"
  /\ IF tail = head
     THEN popped' = None /\ UNCHANGED consumer
     ELSE consumer' = "reading" /\ UNCHANGED popped
  /\ UNCHANGED <<head, tail, slots, taken, producerVars, answer>>

ReadSlot ==
  /\ consumer = "reading"
  /\ taken' = slots[tail]
  /\ consumer' = "storing"
  /\ UNCHANGED <<head, tail, slots, producerVars, returns>>

StoreTail ==
  /\ consumer = "storing"
  /\ tail' = Increment(tail)
  /\ popped' = taken
  /\ consumer' = "idle"
  /\ UNCHANGED <<head, slots, taken, producerVars, answer>>

RingNext ==
  \/ (\E v \in Values : TryPush(v)) \/ WriteSlot \/ StoreHead
  \/ TryPop \/ ReadSlot \/ StoreTail

RingSpec == RingInit /\ [][RingNext]_ringVars

-----------------------------------------------------------------------------
(* Properties.                                                             *)

(* The producer never writes the slot that the consumer is copying: the    *)
(* plain accesses to slots_ need no lock.                                  *)
NoDataRace == ~ (producer = "writing" /\ consumer = "reading" /\ head = tail)

(* The queue is a FIFO of capacity N - 1.                                  *)
Count == IF head >= tail THEN head - tail ELSE head + N - tail

Slot(i) == IF tail + i <= N THEN tail + i - 1 ELSE tail + i - 1 - N

Contents == [i \in 1..Count |-> slots[Slot(i)]]

Fifo == INSTANCE BoundedFifo WITH fifo <- Contents, Capacity <- N - 1

ImplementsFifo == Fifo!Spec

=============================================================================
