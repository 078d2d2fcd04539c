---------------------- MODULE SelectionPipelineProofs ----------------------
(***************************************************************************)
(* What the selection host's threads promise each other and the client,    *)
(* for a queue of any capacity and any number of presses.                  *)
(*                                                                         *)
(* The argument rests on one order: the n-th press is before its release,  *)
(* and both are before the next press.  What the hook reports, what waits  *)
(* in the queue and what the client sees all keep it, and what has been    *)
(* sent or given up is behind all that is to come.  When nothing is lost   *)
(* the queue holds every event of an interval of that order, so that a     *)
(* release always meets its own press.                                     *)
(***************************************************************************)
EXTENDS SelectionPipeline, TLAPS

(* The place of an event: of a press, of a release, of the answer to it.   *)
Order(e) == 2 * e.gen + (IF e.kind = "down" THEN 0 ELSE 1)

(* The place of the event the user causes next.                            *)
NextOrder == 2 * latestGeneration + (IF pressed THEN 1 ELSE 2)

(* The events that the pipeline's thread has yet to see.                   *)
Coming == IF hook = "pushing" THEN Append(queue, hookEvent) ELSE queue

(* Where the main thread stands, what is on.                               *)
Control ==
  /\ running => pc # "off"
  /\ hook # "off" => running /\ main \in {"installed", "idle", "unhooking"}
  /\ main = "idle" => /\ hook # "off" <=> hostState = "running"
                      /\ pc # "off" <=> hostState = "running"
                      /\ running <=> hostState = "running"
  /\ main = "starting" => /\ hostState = "stopped" /\ running
                          /\ queue = <<>> /\ latestGeneration = began.gen
                          /\ pc \in {"born", "top", "popping"} /\ (pc # "born" => ~buttonDown)
  /\ main = "installed" => hostState = "stopped" /\ hook # "off" /\ running
  /\ main = "undoing" => hostState = "stopped" /\ ~running /\ hook = "off"
  /\ main = "unhooking" => (running <=> pc # "off")
  /\ main \in {"joining", "exited"} => ~running /\ hook = "off"
  /\ main = "exited" => pc = "off"

(* What is to come is in order, and later than the start of listening: but *)
(* for the release of a button that was held then.                         *)
Stream ==
  /\ \A i \in DOMAIN Coming :
       /\ Order(Coming[i]) < NextOrder
       /\ Coming[i].gen >= began.gen
       /\ Coming[i].kind = "down" => Coming[i].gen > began.gen
  /\ \A i, j \in DOMAIN Coming : i < j => Order(Coming[i]) < Order(Coming[j])
  /\ began.gen <= latestGeneration /\ began.down <= latestGeneration
  /\ began.dropped <= dropped
  /\ pc \notin {"off", "born"} /\ buttonDown =>
       /\ began.down > began.gen
       /\ \A i \in DOMAIN Coming : 2 * began.down < Order(Coming[i])

(* Nothing is lost: the events to come are the last ones there were.       *)
Unbroken ==
  dropped = began.dropped =>
    /\ \A i \in DOMAIN Coming : Order(Coming[i]) = NextOrder - Len(Coming) - 1 + i
    /\ pc \notin {"off", "born"} /\ buttonDown => 2 * began.down + 1 = NextOrder - Len(Coming)
    /\ pc = "begin" => generation = began.down

(* A place that no event to come, of this run of listening, has or is      *)
(* before.                                                                 *)
Behind(k) ==
  /\ k <= 2 * latestGeneration + 1
  /\ pressed /\ latestGeneration > began.gen => k < NextOrder
  /\ \A i \in DOMAIN Coming : Coming[i].gen > began.gen => k < Order(Coming[i])

Gesture == Waits \cup {"begin", "policy", "answering", "sending"}

(* What has been sent is behind, and so is the gesture being resolved.     *)
Past ==
  /\ \A i \in DOMAIN sent : sent[i].kind # "overflow" => Behind(Order(sent[i]))
  /\ \A g \in tooLate : Behind(2 * g + 1)
  /\ pc \in Gesture =>
       /\ generation > began.gen
       /\ Behind(2 * generation + 1)
       /\ \A i \in DOMAIN sent : sent[i].kind # "overflow" => Order(sent[i]) < 2 * generation + 1

(* A gesture that is too late will find that out before it is answered.    *)
LateIsCancelled ==
  pc \in Gesture /\ generation \in tooLate => Cancelled /\ pc \in Waits \cup {"answering"}

PipelineInv ==
  /\ TypeOK
  /\ Control
  /\ Stream
  /\ Unbroken
  /\ Past
  /\ LateIsCancelled
  /\ EventsAreInOrder
  /\ NoLateResult

-----------------------------------------------------------------------------
(* Sequences.                                                              *)

LEMMA AppendElements ==
  ASSUME NEW S, NEW s \in Seq(S), NEW e \in S
  PROVE  /\ Append(s, e) \in Seq(S)
         /\ Len(Append(s, e)) = Len(s) + 1 /\ Len(s) \in Nat
         /\ DOMAIN s = 1..Len(s) /\ DOMAIN Append(s, e) = 1..Len(s) + 1
         /\ \A i \in DOMAIN s : Append(s, e)[i] = s[i]
         /\ Append(s, e)[Len(s) + 1] = e
  OBVIOUS

LEMMA TailElements ==
  ASSUME NEW S, NEW s \in Seq(S), s # <<>>
  PROVE  /\ Tail(s) \in Seq(S) /\ Head(s) = s[1] /\ s[1] \in S
         /\ Len(Tail(s)) = Len(s) - 1 /\ Len(s) \in Nat \ {0}
         /\ DOMAIN s = 1..Len(s) /\ DOMAIN Tail(s) = 1..Len(s) - 1
         /\ \A i \in DOMAIN Tail(s) : Tail(s)[i] = s[i + 1]
  OBVIOUS

LEMMA Elements ==
  ASSUME NEW S, NEW s \in Seq(S)
  PROVE  /\ DOMAIN s = 1..Len(s) /\ Len(s) \in Nat
         /\ \A i \in DOMAIN s : s[i] \in S
  OBVIOUS

LEMMA Doubled ==
  ASSUME NEW k \in Nat, NEW m \in Nat, NEW n \in Nat, k <= 2 * m + 1, m <= n
  PROVE  k <= 2 * n + 1
  OBVIOUS

(* What is to come, and its places.                                        *)
LEMMA ComingTypes ==
  ASSUME TypeOK
  PROVE  /\ Coming \in Seq(MouseEvents)
         /\ latestGeneration \in Nat /\ generation \in Nat
         /\ began.gen \in Nat /\ began.down \in Nat /\ began.dropped \in Nat
         /\ NextOrder \in Nat
         /\ \A e \in MouseEvents : Order(e) \in Nat /\ e.gen \in Nat /\ e.kind \in {"down", "up"}
<1>1. queue \in Seq(MouseEvents) /\ hookEvent \in MouseEvents
  BY DEF TypeOK
<1>2. Coming \in Seq(MouseEvents)
  BY <1>1, AppendElements DEF Coming
<1>3. /\ latestGeneration \in Nat /\ generation \in Nat
      /\ began.gen \in Nat /\ began.down \in Nat /\ began.dropped \in Nat
  BY PipelineAssumption DEF PipelineAssumption, TypeOK, Generations
<1>4. NextOrder \in Nat
  BY <1>3 DEF NextOrder
<1>5. \A e \in MouseEvents : Order(e) \in Nat /\ e.gen \in Nat /\ e.kind \in {"down", "up"}
  BY PipelineAssumption DEF PipelineAssumption, MouseEvents, Generations, Order
<1>6. QED
  BY <1>2, <1>3, <1>4, <1>5

-----------------------------------------------------------------------------
(* How the stream of events moves.                                         *)

Issued ==
  /\ Coming' = Append(Coming, hookEvent')
  /\ hookEvent' \in MouseEvents
  /\ Order(hookEvent') = NextOrder
  /\ NextOrder' = NextOrder + 1
  /\ latestGeneration <= latestGeneration' /\ hookEvent'.gen = latestGeneration'
  /\ hookEvent'.kind = "down" <=> pressed'
  /\ pressed' <=> ~pressed
  /\ IF pressed THEN latestGeneration' = latestGeneration
                ELSE latestGeneration' = latestGeneration + 1
  /\ UNCHANGED <<began, dropped, pc, buttonDown, generation>>

LEMMA ButtonIssues ==
  ASSUME TypeOK, TypeOK', HookDown \/ HookUp
  PROVE  Issued
<1>1. hook = "idle" /\ hook' = "pushing" /\ queue' = queue /\ hookEvent' \in MouseEvents
      /\ UNCHANGED <<began, dropped, pc, buttonDown, generation>>
  BY DEF HookDown, HookUp, TypeOK, history, localVars, hookVars
<1>2. Coming' = Append(Coming, hookEvent')
  BY <1>1 DEF Coming
<1>3. latestGeneration \in Nat /\ pressed \in BOOLEAN /\ pressed' \in BOOLEAN
  BY ComingTypes DEF TypeOK
<1>4. CASE HookDown
  <2>1. /\ ~pressed /\ pressed' /\ latestGeneration' = latestGeneration + 1
        /\ hookEvent'.kind = "down" /\ hookEvent'.gen = latestGeneration + 1
    BY <1>4 DEF HookDown
  <2>2. Order(hookEvent') = NextOrder /\ NextOrder' = NextOrder + 1
    BY <1>3, <2>1 DEF Order, NextOrder
  <2>3. QED
    BY <1>1, <1>2, <1>3, <2>1, <2>2 DEF Issued
<1>5. CASE HookUp
  BY <1>1, <1>2, <1>3, <1>5 DEF HookUp, Issued, Order, NextOrder
<1>6. QED
  BY <1>4, <1>5

(* What is behind stays behind.                                            *)
LEMMA BehindIssued ==
  ASSUME TypeOK, Stream, Issued, NEW k \in Nat, Behind(k)
  PROVE  Behind(k)'
<1>1. /\ latestGeneration \in Nat /\ latestGeneration' \in Nat /\ began.gen \in Nat
      /\ NextOrder \in Nat /\ Coming \in Seq(MouseEvents) /\ hookEvent' \in MouseEvents
      /\ began.gen <= latestGeneration
  BY ComingTypes DEF Issued, Stream
<1>2. k <= 2 * latestGeneration' + 1
  <2>1. k <= 2 * latestGeneration + 1
    BY DEF Behind
  <2>2. latestGeneration <= latestGeneration'
    BY DEF Issued
  <2>3. latestGeneration \in Nat /\ latestGeneration' \in Nat
    BY <1>1
  <2>4. QED
    BY <2>1, <2>2, <2>3, Doubled
<1>3. pressed' /\ latestGeneration' > began.gen => k < NextOrder'
  BY <1>1 DEF Behind, Issued, NextOrder
<1>4. hookEvent'.gen > began.gen => k < NextOrder
  BY <1>1 DEF Behind, Issued, NextOrder
<1>5. ASSUME NEW i \in DOMAIN Coming', Coming'[i].gen > began.gen
      PROVE  k < Order(Coming'[i])
  <2>1. CASE i \in DOMAIN Coming
    BY <1>1, <1>5, <2>1, AppendElements DEF Behind, Issued
  <2>2. CASE i \notin DOMAIN Coming
    <3>1. i = Len(Coming) + 1 /\ Coming'[i] = hookEvent'
      BY <1>1, <1>5, <2>2, AppendElements DEF Issued
    <3>2. QED
      BY <1>4, <1>5, <3>1 DEF Issued
  <2>3. QED
    BY <2>1, <2>2
<1>6. QED
  BY <1>2, <1>3, <1>5 DEF Behind, Issued

LEMMA StreamIssued ==
  ASSUME TypeOK, Stream, Unbroken, Issued
  PROVE  Stream' /\ Unbroken'
<1>1. /\ latestGeneration \in Nat /\ latestGeneration' \in Nat /\ began.gen \in Nat
      /\ began.down \in Nat /\ NextOrder \in Nat
      /\ Coming \in Seq(MouseEvents) /\ hookEvent' \in MouseEvents
      /\ \A e \in MouseEvents : Order(e) \in Nat /\ e.gen \in Nat
  BY ComingTypes DEF Issued
<1>2. /\ Len(Coming') = Len(Coming) + 1 /\ Len(Coming) \in Nat
      /\ DOMAIN Coming = 1..Len(Coming) /\ DOMAIN Coming' = 1..Len(Coming) + 1
      /\ \A i \in DOMAIN Coming : Coming'[i] = Coming[i] /\ Coming[i] \in MouseEvents
      /\ Coming'[Len(Coming) + 1] = hookEvent'
  BY <1>1, AppendElements DEF Issued
<1>3. UNCHANGED <<began, dropped, pc, buttonDown, generation>>
      /\ Order(hookEvent') = NextOrder /\ NextOrder' = NextOrder + 1
      /\ latestGeneration <= latestGeneration' /\ hookEvent'.gen = latestGeneration'
  BY DEF Issued
<1>4. began.gen <= hookEvent'.gen /\ (hookEvent'.kind = "down" => began.gen < hookEvent'.gen)
  BY <1>1 DEF Issued, Stream
<1>5. 2 * began.down < NextOrder \/ ~(pc \notin {"off", "born"} /\ buttonDown)
  BY <1>1 DEF Stream, NextOrder
<1>6. \A i \in DOMAIN Coming' :
         /\ Order(Coming'[i]) < NextOrder'
         /\ Coming'[i].gen >= began.gen
         /\ Coming'[i].kind = "down" => Coming'[i].gen > began.gen
         /\ pc \notin {"off", "born"} /\ buttonDown => 2 * began.down < Order(Coming'[i])
  <2> SUFFICES ASSUME NEW i \in DOMAIN Coming'
               PROVE  /\ Order(Coming'[i]) < NextOrder'
                      /\ Coming'[i].gen >= began.gen
                      /\ Coming'[i].kind = "down" => Coming'[i].gen > began.gen
                      /\ pc \notin {"off", "born"} /\ buttonDown
                           => 2 * began.down < Order(Coming'[i])
    OBVIOUS
  <2>1. CASE i \in DOMAIN Coming
    BY SMTT(30), <1>1, <1>2, <1>3, <2>1 DEF Stream
  <2>2. CASE i = Len(Coming) + 1
    BY <1>1, <1>2, <1>3, <1>4, <1>5, <2>2
  <2>3. QED
    BY <1>2, <2>1, <2>2
<1>7. \A i, j \in DOMAIN Coming' : i < j => Order(Coming'[i]) < Order(Coming'[j])
  <2> SUFFICES ASSUME NEW i \in DOMAIN Coming', NEW j \in DOMAIN Coming', i < j
               PROVE  Order(Coming'[i]) < Order(Coming'[j])
    OBVIOUS
  <2>1. i \in DOMAIN Coming
    BY <1>2
  <2>2. CASE j \in DOMAIN Coming
    BY <1>2, <2>1, <2>2 DEF Stream
  <2>3. CASE j = Len(Coming) + 1
    BY <1>2, <1>3, <2>1, <2>3 DEF Stream
  <2>4. QED
    BY <1>2, <2>2, <2>3
<1>8. Stream'
  BY <1>1, <1>3, <1>6, <1>7 DEF Stream
<1>9. Unbroken'
  <2> SUFFICES ASSUME dropped = began.dropped
               PROVE  /\ \A i \in DOMAIN Coming' :
                           Order(Coming'[i]) = NextOrder' - Len(Coming') - 1 + i
                      /\ pc \notin {"off", "born"} /\ buttonDown
                           => 2 * began.down + 1 = NextOrder' - Len(Coming')
                      /\ pc = "begin" => generation = began.down
    BY <1>3 DEF Unbroken
  <2>1. ASSUME NEW i \in DOMAIN Coming'
        PROVE  Order(Coming'[i]) = NextOrder' - Len(Coming') - 1 + i
    <3>1. CASE i \in DOMAIN Coming
      <4>1. Order(Coming[i]) = NextOrder - Len(Coming) - 1 + i
        BY <3>1 DEF Unbroken
      <4>2. QED
        BY <1>1, <1>2, <1>3, <3>1, <4>1
    <3>2. CASE i = Len(Coming) + 1
      BY SMTT(30), <1>1, <1>2, <1>3, <3>2
    <3>3. QED
      BY <1>2, <3>1, <3>2
  <2>2. QED
    BY <1>1, <1>2, <1>3, <2>1 DEF Unbroken
<1>10. QED
  BY <1>8, <1>9

(* The callback ends: the event is in the queue, or lost.                  *)
Delivered ==
  /\ \A i \in DOMAIN Coming' : i \in DOMAIN Coming /\ Coming'[i] = Coming[i]
  /\ UNCHANGED <<pressed, latestGeneration, began, pc, buttonDown, generation>>
  /\ \/ Coming' = Coming /\ dropped' = dropped
     \/ dropped' = dropped + 1

LEMMA PushDelivers ==
  ASSUME TypeOK, HookPush
  PROVE  Delivered
<1>1. /\ queue \in Seq(MouseEvents) /\ hookEvent \in MouseEvents
      /\ Coming = Append(queue, hookEvent) /\ hook' = "idle" /\ Coming' = queue'
      /\ UNCHANGED <<pressed, latestGeneration, began, pc, buttonDown, generation>>
  BY DEF TypeOK, HookPush, Coming, localVars, history
<1>2. CASE Len(queue) < Capacity
  <2>1. queue' = Append(queue, hookEvent) /\ dropped' = dropped
    BY <1>2 DEF HookPush
  <2>2. QED
    BY <1>1, <2>1 DEF Delivered
<1>3. CASE ~(Len(queue) < Capacity)
  <2>1. queue' = queue /\ dropped' = dropped + 1
    BY <1>3 DEF HookPush
  <2>2. \A i \in DOMAIN queue : i \in DOMAIN Coming /\ Coming[i] = queue[i]
    BY <1>1, AppendElements
  <2>3. QED
    BY <1>1, <2>1, <2>2 DEF Delivered
<1>4. QED
  BY <1>2, <1>3

LEMMA BehindDelivered ==
  ASSUME Delivered, NEW k \in Nat, Behind(k)
  PROVE  Behind(k)'
  BY DEF Delivered, Behind, NextOrder

LEMMA StreamDelivered ==
  ASSUME TypeOK, Stream, Unbroken, Delivered
  PROVE  Stream' /\ Unbroken'
<1>1. NextOrder' = NextOrder
  BY DEF Delivered, NextOrder
<1>2. dropped \in Nat /\ began.dropped \in Nat /\ began.dropped <= dropped
  BY ComingTypes DEF TypeOK, Stream
<1>3. Stream'
  BY <1>1, <1>2 DEF Delivered, Stream
<1>4. Unbroken'
  BY <1>1, <1>2 DEF Delivered, Unbroken
<1>5. QED
  BY <1>3, <1>4

(* The thread takes the oldest event.                                      *)
Taken(e) ==
  /\ Coming # <<>> /\ e = Coming[1]
  /\ Coming' = Tail(Coming)
  /\ UNCHANGED <<pressed, latestGeneration, dropped>>
  /\ began'.gen = began.gen /\ began'.dropped = began.dropped

LEMMA PopTakes ==
  ASSUME TypeOK, LeftDown \/ LeftUp
  PROVE  Taken(Head(queue)) /\ Head(queue) = Coming[1]
<1>1. /\ queue \in Seq(MouseEvents) /\ hookEvent \in MouseEvents /\ queue # <<>>
      /\ queue' = Tail(queue) /\ UNCHANGED <<hook, hookEvent, pressed, latestGeneration, dropped>>
  BY DEF TypeOK, LeftDown, LeftUp, Pop, threadLeaves, hookVars
<1>2. began'.gen = began.gen /\ began'.dropped = began.dropped
  BY DEF TypeOK, LeftDown, LeftUp
<1>3. Coming # <<>> /\ Head(queue) = Coming[1]
  BY <1>1, AppendElements DEF Coming
<1>4. Coming' = Tail(Coming)
  <2>1. Tail(Append(queue, hookEvent)) = Append(Tail(queue), hookEvent)
    BY <1>1
  <2>2. QED
    BY <1>1, <2>1 DEF Coming
<1>5. QED
  BY <1>1, <1>2, <1>3, <1>4 DEF Taken

LEMMA BehindTaken ==
  ASSUME TypeOK, Stream, NEW e, Taken(e)
  PROVE  /\ \A k \in Nat : Behind(k) => Behind(k)'
         /\ Order(e) \in Nat /\ Behind(Order(e))'
         /\ \A i \in DOMAIN Coming' : Order(e) < Order(Coming'[i])
<1>1. /\ latestGeneration \in Nat /\ began.gen \in Nat /\ NextOrder \in Nat
      /\ Coming \in Seq(MouseEvents) /\ Coming # <<>>
      /\ \A d \in MouseEvents : Order(d) \in Nat /\ d.gen \in Nat
  BY ComingTypes DEF Taken
<1>2. /\ Coming[1] = e /\ e \in MouseEvents /\ 1 \in DOMAIN Coming
      /\ \A i \in DOMAIN Coming' :
           i + 1 \in DOMAIN Coming /\ Coming'[i] = Coming[i + 1] /\ 1 < i + 1
  BY <1>1, TailElements DEF Taken
<1>3. NextOrder' = NextOrder /\ latestGeneration' = latestGeneration /\ pressed' = pressed
      /\ began'.gen = began.gen
  BY DEF Taken, NextOrder
<1>4. \A i \in DOMAIN Coming' : Order(e) < Order(Coming'[i])
  BY <1>2 DEF Stream
<1>5. \A k \in Nat : Behind(k) => Behind(k)'
  BY <1>2, <1>3 DEF Behind
<1>6. Order(e) < NextOrder /\ Order(e) <= 2 * latestGeneration + 1
  BY <1>1, <1>2 DEF Stream, NextOrder
<1>7. QED
  BY <1>1, <1>2, <1>3, <1>4, <1>5, <1>6 DEF Behind

(* A press is taken: it is announced at once.                              *)
LEMMA StreamPressed ==
  ASSUME TypeOK, Stream, Unbroken, LeftDown
  PROVE  /\ Stream' /\ Unbroken'
         /\ Order(Head(queue)) = 2 * Head(queue).gen /\ Head(queue).gen > began.gen
<1> DEFINE e == Head(queue)
<1>1. /\ latestGeneration \in Nat /\ began.gen \in Nat /\ began.down \in Nat /\ NextOrder \in Nat
      /\ Coming \in Seq(MouseEvents)
      /\ \A d \in MouseEvents : Order(d) \in Nat /\ d.gen \in Nat
  BY ComingTypes
<1>2. Taken(e) /\ e = Coming[1] /\ e.kind = "down"
  BY PopTakes DEF LeftDown, Pop
<1>3. buttonDown' = TRUE /\ began'.down = e.gen /\ pc' = "top"
  BY DEF LeftDown, TypeOK
<1> HIDE DEF e
<1>4. /\ 1 \in DOMAIN Coming /\ e \in MouseEvents
      /\ Len(Coming') = Len(Coming) - 1 /\ Len(Coming) \in Nat
      /\ \A i \in DOMAIN Coming' : /\ i + 1 \in DOMAIN Coming /\ Coming'[i] = Coming[i + 1]
                                   /\ i \in Nat
  BY <1>1, <1>2, TailElements DEF Taken
<1>5. Order(e) = 2 * e.gen /\ e.gen > began.gen
  <2>1. e.gen > began.gen
    BY <1>2, <1>4 DEF Stream
  <2>2. Order(e) = 2 * e.gen + 0
    BY <1>2 DEF Order
  <2>3. e.gen \in Nat
    BY <1>1, <1>4
  <2>4. QED
    BY <2>1, <2>2, <2>3
<1>6. NextOrder' = NextOrder /\ latestGeneration' = latestGeneration /\ dropped' = dropped
      /\ began'.gen = began.gen /\ began'.dropped = began.dropped
  BY <1>2 DEF Taken, NextOrder
<1>7. e.gen <= latestGeneration
  <2>1. 2 * e.gen < NextOrder
    BY <1>2, <1>4, <1>5 DEF Stream
  <2>2. QED
    BY <1>1, <1>4, <2>1 DEF NextOrder
<1>8. Stream'
  <2>1. \A i \in DOMAIN Coming' :
          /\ Order(Coming'[i]) < NextOrder
          /\ Coming'[i].gen >= began.gen
          /\ Coming'[i].kind = "down" => Coming'[i].gen > began.gen
    BY <1>4 DEF Stream
  <2>2. \A i, j \in DOMAIN Coming' : i < j => Order(Coming'[i]) < Order(Coming'[j])
    BY <1>4 DEF Stream
  <2>3. \A i \in DOMAIN Coming' : 2 * began'.down < Order(Coming'[i])
    BY <1>2, <1>3, <1>5, BehindTaken
  <2>4. began'.gen <= latestGeneration /\ began'.down <= latestGeneration
        /\ began'.dropped <= dropped /\ began'.down > began'.gen
    BY <1>3, <1>5, <1>6, <1>7 DEF Stream
  <2>5. QED
    BY <1>6, <2>1, <2>2, <2>3, <2>4 DEF Stream
<1>9. Unbroken'
  <2> SUFFICES ASSUME dropped = began.dropped
               PROVE  /\ \A i \in DOMAIN Coming' :
                           Order(Coming'[i]) = NextOrder - Len(Coming') - 1 + i
                      /\ 2 * e.gen + 1 = NextOrder - Len(Coming')
    BY <1>3, <1>6 DEF Unbroken
  <2>1. \A i \in DOMAIN Coming : Order(Coming[i]) = NextOrder - Len(Coming) - 1 + i
    BY DEF Unbroken
  <2>2. \A i \in DOMAIN Coming' : Order(Coming'[i]) = NextOrder - Len(Coming) - 1 + (i + 1)
    BY <1>4, <2>1
  <2>3. 2 * e.gen = NextOrder - Len(Coming)
    <3>1. Order(e) = NextOrder - Len(Coming) - 1 + 1
      BY <1>2, <1>4, <2>1
    <3>2. QED
      BY <1>1, <1>4, <1>5, <3>1
  <2>4. \A i \in DOMAIN Coming' : Order(Coming'[i]) = NextOrder - Len(Coming') - 1 + i
    BY <1>1, <1>4, <2>2
  <2>5. 2 * e.gen + 1 = NextOrder - Len(Coming')
    <3>1. e.gen \in Nat
      BY <1>1, <1>4
    <3>2. QED
      BY <1>1, <1>4, <2>3, <3>1
  <2>6. QED
    BY <2>4, <2>5
<1>10. QED
  BY <1>5, <1>8, <1>9 DEF e

(* A release is taken: if a press came before it, it is a gesture's.       *)
LEMMA StreamReleased ==
  ASSUME TypeOK, Control, Stream, Unbroken, LeftUp
  PROVE  /\ Stream' /\ Unbroken'
         /\ Order(Head(queue)) = 2 * Head(queue).gen + 1
         /\ pc' = "begin" => Head(queue).gen > began.gen
<1> DEFINE e == Head(queue)
<1>1. /\ latestGeneration \in Nat /\ began.gen \in Nat /\ began.down \in Nat /\ NextOrder \in Nat
      /\ Coming \in Seq(MouseEvents)
      /\ \A d \in MouseEvents : Order(d) \in Nat /\ d.gen \in Nat
  BY ComingTypes
<1>2. Taken(e) /\ e = Coming[1] /\ e.kind = "up"
  BY PopTakes DEF LeftUp, Pop
<1>3. /\ buttonDown' = FALSE /\ began' = began /\ generation' = e.gen
      /\ pc = "popping" /\ (pc' = "begin" => buttonDown)
  BY DEF LeftUp, Pop
<1> HIDE DEF e
<1>4. /\ 1 \in DOMAIN Coming /\ e \in MouseEvents
      /\ Len(Coming') = Len(Coming) - 1 /\ Len(Coming) \in Nat
      /\ \A i \in DOMAIN Coming' : /\ i + 1 \in DOMAIN Coming /\ Coming'[i] = Coming[i + 1]
                                   /\ i \in Nat
  BY <1>1, <1>2, TailElements DEF Taken
<1>5. Order(e) = 2 * e.gen + 1
  BY <1>2 DEF Order
<1>6. NextOrder' = NextOrder /\ latestGeneration' = latestGeneration /\ dropped' = dropped
  BY <1>2 DEF Taken, NextOrder
<1>7. pc' = "begin" => e.gen > began.gen
  <2>1. pc' = "begin" => 2 * began.down < 2 * e.gen + 1 /\ began.down > began.gen
    BY <1>2, <1>3, <1>4, <1>5 DEF Stream
  <2>2. QED
    BY SMTT(30), <1>1, <1>4, <2>1
<1>8. Stream'
  <2>1. \A i \in DOMAIN Coming' :
          /\ Order(Coming'[i]) < NextOrder
          /\ Coming'[i].gen >= began.gen
          /\ Coming'[i].kind = "down" => Coming'[i].gen > began.gen
    BY <1>4 DEF Stream
  <2>2. \A i, j \in DOMAIN Coming' : i < j => Order(Coming'[i]) < Order(Coming'[j])
    BY <1>4 DEF Stream
  <2>3. QED
    BY <1>3, <1>6, <2>1, <2>2 DEF Stream
<1>9. Unbroken'
  <2> SUFFICES ASSUME dropped = began.dropped
               PROVE  /\ \A i \in DOMAIN Coming' :
                           Order(Coming'[i]) = NextOrder - Len(Coming') - 1 + i
                      /\ pc' = "begin" => e.gen = began.down
    BY <1>3, <1>6 DEF Unbroken
  <2>1. \A i \in DOMAIN Coming : Order(Coming[i]) = NextOrder - Len(Coming) - 1 + i
    BY DEF Unbroken
  <2>2. \A i \in DOMAIN Coming' : Order(Coming'[i]) = NextOrder - Len(Coming) - 1 + (i + 1)
    BY <1>4, <2>1
  <2>3. 2 * e.gen + 1 = NextOrder - Len(Coming)
    <3>1. Order(e) = NextOrder - Len(Coming) - 1 + 1
      BY <1>2, <1>4, <2>1
    <3>2. QED
      BY <1>1, <1>4, <1>5, <3>1
  <2>4. pc' = "begin" => 2 * began.down + 1 = NextOrder - Len(Coming)
    BY <1>3 DEF Unbroken
  <2>5. pc' = "begin" => e.gen = began.down
    <3>1. e.gen \in Nat
      BY <1>1, <1>4
    <3>2. QED
      BY <1>1, <2>3, <2>4, <3>1
  <2>6. \A i \in DOMAIN Coming' : Order(Coming'[i]) = NextOrder - Len(Coming') - 1 + i
    BY <1>1, <1>4, <2>2
  <2>7. QED
    BY <2>5, <2>6
<1>10. QED
  BY <1>5, <1>7, <1>8, <1>9 DEF e

-----------------------------------------------------------------------------
(* Types, and what is on.                                                  *)

MainOK ==
  /\ main \in {"idle", "starting", "installed", "undoing", "unhooking", "joining", "exited"}
  /\ purpose \in {"stop", "shutdown", "disconnect"}
  /\ hostState \in {"stopped", "running", "shutting-down"}
  /\ running \in BOOLEAN

HookOK ==
  /\ hook \in {"off", "idle", "pushing"}
  /\ hookEvent \in MouseEvents
  /\ pressed \in BOOLEAN
  /\ latestGeneration \in Generations

QueueOK ==
  /\ queue \in Seq(MouseEvents) /\ Len(queue) <= Capacity
  /\ dropped \in Nat /\ observed \in 0..dropped

ThreadOK ==
  /\ pc \in Waits \cup {"off", "born", "top", "popping", "begin", "policy", "answering", "sending"}
  /\ generation \in Generations
  /\ outcome \in {"result", "error"}
  /\ buttonDown \in BOOLEAN

PastOK ==
  /\ sent \in Seq([kind : {"down", "result", "error", "overflow"}, gen : Nat])
  /\ tooLate \subseteq Generations
  /\ began \in [gen : Generations, dropped : Nat, down : Generations]

LEMMA TypeParts == TypeOK <=> MainOK /\ HookOK /\ QueueOK /\ ThreadOK /\ PastOK
  BY DEF TypeOK, MainOK, HookOK, QueueOK, ThreadOK, PastOK

LEMMA TypePartsNext ==
  TypeOK' <=> MainOK' /\ HookOK' /\ QueueOK' /\ ThreadOK' /\ PastOK'
  BY DEF TypeOK, MainOK, HookOK, QueueOK, ThreadOK, PastOK

LEMMA HookTypes ==
  ASSUME TypeOK, HookDown \/ HookUp \/ HookPush \/ HookQuits
  PROVE  TypeOK'
<1> USE PipelineAssumption DEF PipelineAssumption
<1>1. MainOK /\ HookOK /\ QueueOK /\ ThreadOK /\ PastOK
  BY TypeParts
<1>2. UNCHANGED <<main, purpose, hostState, running, pc, generation, outcome, buttonDown, observed,
                  sent, began>>
  BY DEF HookDown, HookUp, HookPush, HookQuits, mainVars, localVars, history
<1>3. MainOK' /\ ThreadOK'
  BY <1>1, <1>2 DEF MainOK, ThreadOK
<1>4. HookOK'
  <2>1. hookEvent' \in MouseEvents /\ latestGeneration' \in Generations
    <3>1. CASE HookDown
      BY <1>1, <3>1 DEF HookOK, HookDown, Generations, MouseEvents
    <3>2. CASE HookUp
      BY <1>1, <3>2 DEF HookOK, HookUp, MouseEvents
    <3>3. QED
      BY <1>1, <3>1, <3>2 DEF HookOK, HookPush, HookQuits
  <2>2. hook' \in {"off", "idle", "pushing"} /\ pressed' \in BOOLEAN
    BY <1>1 DEF HookOK, HookDown, HookUp, HookPush, HookQuits
  <2>3. QED
    BY <2>1, <2>2 DEF HookOK
<1>5. QueueOK'
  <2>1. CASE HookPush
    <3>1. queue' \in Seq(MouseEvents) /\ Len(queue') <= Capacity
      BY <1>1, <2>1, AppendElements DEF HookPush, QueueOK, HookOK
    <3>2. dropped' \in Nat /\ observed \in 0..dropped'
      BY <1>1, <2>1 DEF HookPush, QueueOK
    <3>3. QED
      BY <1>2, <3>1, <3>2 DEF QueueOK
  <2>2. CASE HookDown \/ HookUp \/ HookQuits
    BY <1>1, <1>2, <2>2 DEF HookDown, HookUp, HookQuits, QueueOK
  <2>3. QED
    BY <2>1, <2>2
<1>6. PastOK'
  <2>1. tooLate' \subseteq Generations
    BY <1>1 DEF HookDown, HookUp, HookPush, HookQuits, Overtake, history, ThreadOK, PastOK
  <2>2. QED
    BY <1>1, <1>2, <2>1 DEF PastOK
<1>7. QED
  BY <1>3, <1>4, <1>5, <1>6, TypePartsNext

LEMMA SentTypes ==
  ASSUME TypeOK, NEW kind \in {"down", "result", "error", "overflow"}, NEW gen \in Nat, Send(kind, gen)
  PROVE  /\ sent' \in Seq([kind : {"down", "result", "error", "overflow"}, gen : Nat])
         /\ Len(sent') = Len(sent) + 1 /\ Len(sent) \in Nat
         /\ DOMAIN sent = 1..Len(sent) /\ DOMAIN sent' = 1..Len(sent) + 1
         /\ \A i \in DOMAIN sent : sent'[i] = sent[i]
         /\ sent'[Len(sent) + 1] = [kind |-> kind, gen |-> gen]
<1>1. [kind |-> kind, gen |-> gen] \in [kind : {"down", "result", "error", "overflow"}, gen : Nat]
  OBVIOUS
<1>2. QED
  BY <1>1, AppendElements DEF TypeOK, Send

LEMMA ThreadTypes ==
  ASSUME TypeOK, Thread
  PROVE  TypeOK'
<1> USE PipelineAssumption DEF PipelineAssumption
<1>1. MainOK /\ HookOK /\ QueueOK /\ ThreadOK /\ PastOK
  BY TypeParts
<1>2. ASSUME queue # <<>>
      PROVE  /\ Head(queue) \in MouseEvents
             /\ Head(queue).gen \in Generations /\ Head(queue).gen \in Nat
             /\ Tail(queue) \in Seq(MouseEvents) /\ Len(Tail(queue)) <= Capacity
  <2>1. /\ Head(queue) \in MouseEvents /\ Tail(queue) \in Seq(MouseEvents)
        /\ Len(Tail(queue)) = Len(queue) - 1 /\ Len(queue) \in Nat
    BY <1>1, <1>2, TailElements DEF QueueOK
  <2>2. Head(queue).gen \in Generations /\ Head(queue).gen \in Nat
    BY <2>1 DEF MouseEvents, Generations
  <2>3. QED
    BY <1>1, <2>1, <2>2 DEF QueueOK
<1>3. UNCHANGED <<main, purpose, hostState, running, hook, hookEvent, pressed, latestGeneration,
                  dropped, tooLate>>
  BY DEF Thread, ThreadBegins, ThreadEnds, ReportOverflow, NothingToPop, LeftDown, LeftUp, Resolve,
     Begin, Policy, Settle, Uia, Capture, Recognize, Answer, SendOutcome, GoesOnUnlessCancelled,
     GoesTo, threadLeaves, mainVars, hookVars
<1>4. MainOK' /\ HookOK'
  BY <1>1, <1>3 DEF MainOK, HookOK
<1>5. ASSUME UNCHANGED <<sent, began>> PROVE PastOK'
  BY <1>1, <1>3, <1>5 DEF PastOK
<1>6. ASSUME UNCHANGED <<queue, observed>> PROVE QueueOK'
  BY <1>1, <1>3, <1>6 DEF QueueOK
<1>7. CASE ThreadBegins \/ ThreadEnds \/ NothingToPop
  <2>1. PastOK'
    BY <1>5, <1>7 DEF ThreadBegins, ThreadEnds, NothingToPop
  <2>2. ThreadOK'
    BY <1>1, <1>7 DEF ThreadBegins, ThreadEnds, NothingToPop, localVars, ThreadOK
  <2>3. QueueOK'
    <3>1. queue' = queue /\ observed' \in {observed, dropped}
      BY <1>7 DEF ThreadBegins, ThreadEnds, NothingToPop, localVars
    <3>2. QED
      BY <1>1, <1>3, <3>1 DEF QueueOK
  <2>4. QED
    BY <1>4, <2>1, <2>2, <2>3, TypePartsNext
<1>8. CASE ReportOverflow
  <2>1. sent' \in Seq([kind : {"down", "result", "error", "overflow"}, gen : Nat])
    BY <1>1, <1>8, SentTypes DEF ReportOverflow, QueueOK, PastOK
  <2>2. PastOK' /\ QueueOK' /\ ThreadOK'
    BY <1>1, <1>3, <1>8, <2>1 DEF ReportOverflow, PastOK, QueueOK, ThreadOK
  <2>3. QED
    BY <1>4, <2>2, TypePartsNext
<1>9. CASE LeftDown
  <2>1. sent' \in Seq([kind : {"down", "result", "error", "overflow"}, gen : Nat])
    BY <1>2, <1>9, SentTypes DEF LeftDown, Pop
  <2>2. PastOK'
    BY <1>1, <1>2, <1>3, <1>9, <2>1 DEF LeftDown, Pop, PastOK
  <2>3. QueueOK' /\ ThreadOK'
    BY <1>1, <1>2, <1>3, <1>9 DEF LeftDown, Pop, QueueOK, ThreadOK
  <2>4. QED
    BY <1>4, <2>2, <2>3, TypePartsNext
<1>10. CASE LeftUp
  <2>1. PastOK' /\ QueueOK' /\ ThreadOK'
    BY <1>1, <1>2, <1>3, <1>5, <1>10 DEF LeftUp, Pop, QueueOK, ThreadOK
  <2>2. QED
    BY <1>4, <2>1, TypePartsNext
<1>11. CASE Begin \/ Policy \/ Settle \/ Uia \/ Capture \/ Recognize \/ Answer
  <2>1. PastOK' /\ QueueOK'
    BY <1>5, <1>6, <1>11 DEF Begin, Policy, Settle, Uia, Capture, Recognize, Answer,
       GoesOnUnlessCancelled, GoesTo
  <2>2. ThreadOK'
    BY <1>1, <1>11 DEF Begin, Policy, Settle, Uia, Capture, Recognize, Answer,
       GoesOnUnlessCancelled, GoesTo, ThreadOK, Waits
  <2>3. QED
    BY <1>4, <2>1, <2>2, TypePartsNext
<1>12. CASE SendOutcome
  <2>1. sent' \in Seq([kind : {"down", "result", "error", "overflow"}, gen : Nat])
    <3>1. outcome \in {"down", "result", "error", "overflow"} /\ generation \in Nat
      BY <1>1 DEF ThreadOK, Generations
    <3>2. Send(outcome, generation)
      BY <1>12 DEF SendOutcome
    <3>3. QED
      BY <3>1, <3>2, SentTypes
  <2>2. PastOK' /\ QueueOK' /\ ThreadOK'
    BY <1>1, <1>3, <1>6, <1>12, <2>1 DEF SendOutcome, localVars, PastOK, ThreadOK
  <2>3. QED
    BY <1>4, <2>2, TypePartsNext
<1>13. QED
  BY <1>7, <1>8, <1>9, <1>10, <1>11, <1>12 DEF Thread, Resolve

LEMMA MainTypes ==
  ASSUME TypeOK, Requests \/ MainGoesOn
  PROVE  TypeOK'
<1> USE PipelineAssumption DEF PipelineAssumption, TypeOK, mainLeaves, localVars, history
<1>1. CASE Start
  <2>1. began' \in [gen : Generations, dropped : Nat, down : Generations]
    BY <1>1 DEF Start
  <2>2. queue' \in Seq(MouseEvents) /\ Len(queue') <= Capacity
    BY <1>1 DEF Start
  <2>3. QED
    BY <1>1, <2>1, <2>2 DEF Start
<1>2. CASE HookInstalled \/ Started \/ StartUndone \/ Stopped
  BY <1>2 DEF HookInstalled, Started, StartUndone, Stopped
<1>3. ASSUME NEW why \in {"stop", "shutdown", "disconnect"}, StopListening(why)
      PROVE  TypeOK'
  BY <1>3 DEF StopListening
<1>4. CASE HookFails \/ StopPipeline
  BY ZenonT(60), <1>4 DEF HookFails, StopPipeline, Overtake
<1>5. QED
  BY <1>1, <1>2, <1>3, <1>4 DEF Requests, MainGoesOn

LEMMA ControlStep ==
  ASSUME TypeOK, Control, Next
  PROVE  Control'
<1> USE DEF Control
<1>1. CASE HookDown \/ HookUp \/ HookPush \/ HookQuits
  BY <1>1 DEF HookDown, HookUp, HookPush, HookQuits, mainVars, localVars
<1>2. CASE ThreadBegins \/ ThreadEnds \/ NothingToPop \/ ReportOverflow
  BY <1>2 DEF ThreadBegins, ThreadEnds, NothingToPop, ReportOverflow, threadLeaves, mainVars,
     hookVars, localVars
<1>3. CASE LeftDown \/ LeftUp
  BY <1>3 DEF LeftDown, LeftUp, Pop, threadLeaves, mainVars, hookVars
<1>4. CASE Resolve
  BY <1>4 DEF Resolve, Begin, Policy, Settle, Uia, Capture, Recognize, Answer, SendOutcome,
     GoesOnUnlessCancelled, GoesTo, threadLeaves, mainVars, hookVars, localVars
<1>5. CASE Requests
  <2>1. CASE Start
    BY <2>1 DEF Start, TypeOK, mainLeaves, localVars
  <2>2. ASSUME NEW why \in {"stop", "shutdown", "disconnect"}, StopListening(why)
        PROVE  Control'
    BY <2>2 DEF StopListening, TypeOK, mainLeaves, localVars, history
  <2>3. QED
    BY <1>5, <2>1, <2>2 DEF Requests
<1>6. CASE MainGoesOn
  BY <1>6 DEF MainGoesOn, HookInstalled, Started, HookFails, StartUndone, StopPipeline, Stopped,
     TypeOK, mainLeaves, localVars, history
<1>7. QED
  BY <1>1, <1>2, <1>3, <1>4, <1>5, <1>6 DEF Next, Thread

LEMMA TypeStep ==
  ASSUME TypeOK, Next
  PROVE  TypeOK'
  BY HookTypes, ThreadTypes, MainTypes DEF Next

-----------------------------------------------------------------------------
(* The order through every step.                                           *)

(* Steps that take nothing from the stream and add nothing to it.          *)
Still ==
  /\ UNCHANGED <<pressed, latestGeneration, dropped, began>>
  /\ Coming' = Coming
  /\ pc' \notin {"off", "born"} /\ buttonDown' => pc \notin {"off", "born"} /\ buttonDown
  /\ pc' = "begin" => pc = "begin" /\ generation' = generation

(* Listening begins: there is nothing to come.                             *)
Anew ==
  /\ Coming' = <<>> /\ latestGeneration' = latestGeneration /\ dropped' = dropped
  /\ began'.gen = latestGeneration /\ began'.down = began.down
  /\ (began' = began \/ began'.dropped = dropped)
  /\ pc' \notin {"off", "born"} => ~buttonDown'
  /\ pc' \notin Gesture

LEMMA StreamSteps ==
  ASSUME TypeOK, Control, Next
  PROVE  Issued \/ Delivered \/ LeftDown \/ LeftUp \/ Still \/ Anew
<1>1. CASE HookDown \/ HookUp
  BY <1>1, ButtonIssues, TypeStep
<1>2. CASE HookPush
  BY <1>2, PushDelivers
<1>3. CASE HookQuits
  <2>1. Coming' = Coming
    BY <1>3 DEF HookQuits, Coming
  <2>2. QED
    BY <1>3, <2>1 DEF HookQuits, Still, localVars, history
<1>4. ASSUME UNCHANGED <<hook, hookEvent, queue>> PROVE Coming' = Coming
  BY <1>4 DEF Coming
<1>5. CASE ThreadBegins \/ ThreadEnds \/ NothingToPop \/ ReportOverflow
  BY <1>4, <1>5 DEF ThreadBegins, ThreadEnds, NothingToPop, ReportOverflow, Still, threadLeaves,
     hookVars, localVars
<1>6. CASE Resolve
  BY <1>4, <1>6 DEF Resolve, Begin, Policy, Settle, Uia, Capture, Recognize, Answer, SendOutcome,
     GoesOnUnlessCancelled, GoesTo, Still, threadLeaves, hookVars, localVars
<1>7. CASE Start
  BY <1>7 DEF Start, Anew, Coming, Control, Gesture, Waits, TypeOK, mainLeaves, localVars
<1>8. CASE HookInstalled
  BY <1>8 DEF HookInstalled, Anew, Coming, Control, Gesture, Waits, mainLeaves, localVars, history
<1>9. CASE Started \/ HookFails \/ StartUndone \/ StopPipeline \/ Stopped
            \/ \E why \in {"stop", "shutdown", "disconnect"} : StopListening(why)
  BY <1>4, <1>9 DEF Started, HookFails, StartUndone, StopPipeline, Stopped, StopListening, Still,
     mainLeaves, localVars, history
<1>10. QED
  BY <1>1, <1>2, <1>3, <1>5, <1>6, <1>7, <1>8, <1>9 DEF Next, Thread, Requests, MainGoesOn

LEMMA StreamStep ==
  ASSUME TypeOK, Control, Stream, Unbroken, Next
  PROVE  Stream' /\ Unbroken'
<1>1. CASE Still
  <2>1. NextOrder' = NextOrder
    BY <1>1 DEF Still, NextOrder
  <2>2. QED
    BY <1>1, <2>1 DEF Still, Stream, Unbroken
<1>2. CASE Anew
  <2>1. /\ began.dropped <= dropped /\ began.down <= latestGeneration /\ dropped \in Nat
        /\ latestGeneration \in Nat
    BY ComingTypes DEF Stream, TypeOK
  <2>2. Stream'
    BY <1>2, <2>1 DEF Anew, Stream
  <2>3. Unbroken'
    BY <1>2 DEF Anew, Unbroken, Gesture
  <2>4. QED
    BY <2>2, <2>3
<1>3. QED
  BY <1>1, <1>2, StreamSteps, StreamIssued, StreamDelivered, StreamPressed, StreamReleased

LEMMA BehindStep ==
  ASSUME TypeOK, Control, Stream, Next, NEW k \in Nat, Behind(k)
  PROVE  Behind(k)'
<1>1. CASE Still
  BY <1>1 DEF Still, Behind, NextOrder
<1>2. CASE Anew
  <2>1. latestGeneration \in Nat
    BY ComingTypes
  <2>2. QED
    BY <1>2, <2>1 DEF Anew, Behind
<1>3. QED
  BY <1>1, <1>2, StreamSteps, BehindIssued, BehindDelivered, PopTakes, BehindTaken

-----------------------------------------------------------------------------
(* What has been sent.                                                     *)

SentOrder(k) == \A i \in DOMAIN sent : sent[i].kind # "overflow" => Order(sent[i]) < k

LEMMA SentPlaces ==
  ASSUME TypeOK
  PROVE  /\ DOMAIN sent = 1..Len(sent) /\ Len(sent) \in Nat
         /\ \A i \in DOMAIN sent : Order(sent[i]) \in Nat /\ sent[i].gen \in Nat
         /\ \A g \in tooLate : 2 * g + 1 \in Nat
<1>1. /\ sent \in Seq([kind : {"down", "result", "error", "overflow"}, gen : Nat])
      /\ tooLate \subseteq Generations
  BY DEF TypeOK
<1>2. \A i \in DOMAIN sent : sent[i].gen \in Nat
  <2>1. \A i \in DOMAIN sent :
          sent[i] \in [kind : {"down", "result", "error", "overflow"}, gen : Nat]
    BY <1>1, Elements
  <2>2. QED
    BY <2>1
<1>3. \A i \in DOMAIN sent : Order(sent[i]) \in Nat
  BY <1>2 DEF Order
<1>4. \A g \in tooLate : 2 * g + 1 \in Nat
  BY <1>1, PipelineAssumption DEF PipelineAssumption, Generations
<1>5. QED
  BY <1>1, <1>2, <1>3, <1>4

(* An event is sent: nothing, an overflow, or one later than all others.   *)
SendsLater ==
  \/ sent' = sent
  \/ \E gen \in Nat : Send("overflow", gen)
  \/ \E kind \in {"down", "result", "error"}, gen \in Nat :
       /\ Send(kind, gen)
       /\ SentOrder(Order([kind |-> kind, gen |-> gen]))
       /\ Behind(Order([kind |-> kind, gen |-> gen]))'

LEMMA Senders ==
  ASSUME Next
  PROVE  sent' = sent \/ ReportOverflow \/ LeftDown \/ SendOutcome
<1>1. CASE Thread /\ ~LeftDown /\ ~SendOutcome /\ ~ReportOverflow
  BY <1>1 DEF Thread, ThreadBegins, ThreadEnds, NothingToPop, LeftUp, Resolve, Begin, Policy,
     Settle, Uia, Capture, Recognize, Answer, GoesOnUnlessCancelled, GoesTo
<1>2. CASE HookDown \/ HookUp \/ HookPush \/ HookQuits \/ Requests \/ MainGoesOn
  BY <1>2 DEF HookDown, HookUp, HookPush, HookQuits, Requests, Start, StopListening, MainGoesOn,
     HookInstalled, Started, HookFails, StartUndone, StopPipeline, Stopped, mainLeaves
<1>3. QED
  BY <1>1, <1>2 DEF Next

LEMMA ThreadSendsLater ==
  ASSUME TypeOK, Control, Stream, Past, Next
  PROVE  SendsLater
<1>0. \A k \in Nat : Behind(k) => Behind(k)'
  BY BehindStep
<1>1. CASE LeftDown
  <2>1. PICK e : e = Head(queue)
    OBVIOUS
  <2>2. Taken(e) /\ e = Coming[1] /\ e.kind = "down" /\ Send("down", e.gen)
    BY <1>1, <2>1, PopTakes DEF LeftDown, Pop
  <2>3. e \in MouseEvents /\ 1 \in DOMAIN Coming
    BY <2>2, ComingTypes, TailElements DEF Taken
  <2>4. e.gen > began.gen /\ e.gen \in Nat /\ Order([kind |-> "down", gen |-> e.gen]) = Order(e)
    BY <2>2, <2>3, ComingTypes DEF Stream, Order
  <2>5. SentOrder(Order(e))
    BY <2>2, <2>3, <2>4 DEF SentOrder, Past, Behind
  <2>6. Behind(Order(e))'
    BY <2>2, BehindTaken
  <2>7. QED
    BY <2>2, <2>4, <2>5, <2>6 DEF SendsLater
<1>2. CASE SendOutcome
  <2>1. PICK gen \in Nat, kind \in {"result", "error"} : gen = generation /\ kind = outcome
    BY ComingTypes DEF TypeOK
  <2>2. pc \in Gesture /\ Send(kind, gen)
    BY <1>2, <2>1 DEF SendOutcome, Gesture
  <2>3. Order([kind |-> kind, gen |-> gen]) = 2 * gen + 1
    BY <2>1 DEF Order
  <2>4. SentOrder(2 * gen + 1) /\ Behind(2 * gen + 1) /\ 2 * gen + 1 \in Nat
    BY <2>1, <2>2 DEF Past, SentOrder
  <2>5. QED
    BY <1>0, <2>2, <2>3, <2>4 DEF SendsLater
<1>3. CASE ReportOverflow
  BY <1>3 DEF ReportOverflow, SendsLater, TypeOK
<1>4. QED
  BY <1>1, <1>2, <1>3, Senders DEF SendsLater

(* Orders tell presses and answers apart.                                  *)
LEMMA OrderApart ==
  ASSUME NEW a, NEW b, a.gen \in Nat, b.gen \in Nat, Order(a) < Order(b)
  PROVE  \/ a.gen < b.gen
         \/ a.kind = "down" /\ b.kind # "down" /\ a.gen = b.gen
  BY DEF Order

LEMMA InOrderStep ==
  ASSUME TypeOK, EventsAreInOrder, SendsLater
  PROVE  EventsAreInOrder'
<1>1. CASE sent' = sent
  BY <1>1 DEF EventsAreInOrder
<1>2. ASSUME NEW kind \in {"down", "result", "error", "overflow"}, NEW gen \in Nat, Send(kind, gen),
             kind # "overflow" => SentOrder(Order([kind |-> kind, gen |-> gen]))
      PROVE  EventsAreInOrder'
  <2> DEFINE e == [kind |-> kind, gen |-> gen]
  <2>1. /\ DOMAIN sent = 1..Len(sent) /\ DOMAIN sent' = 1..Len(sent) + 1 /\ Len(sent) \in Nat
        /\ \A i \in DOMAIN sent : sent'[i] = sent[i] /\ sent[i].gen \in Nat
        /\ sent'[Len(sent) + 1] = e
    BY <1>2, SentTypes, SentPlaces
  <2>2. e.gen \in Nat /\ e.kind = kind
    OBVIOUS
  <2>3. kind # "overflow" => \A i \in DOMAIN sent :
                               sent[i].kind # "overflow" => Order(sent[i]) < Order(e)
    BY <1>2 DEF SentOrder
  <2> HIDE DEF e
  <2> SUFFICES ASSUME NEW i \in DOMAIN sent', NEW j \in DOMAIN sent', i < j,
                      sent'[i].kind # "overflow", sent'[j].kind # "overflow"
               PROVE  \/ sent'[i].gen < sent'[j].gen
                      \/ /\ sent'[i].kind = "down" /\ sent'[j].kind # "down"
                         /\ sent'[i].gen = sent'[j].gen
    BY DEF EventsAreInOrder
  <2>4. i \in DOMAIN sent
    BY <2>1
  <2>5. CASE j \in DOMAIN sent
    BY <2>1, <2>4, <2>5 DEF EventsAreInOrder
  <2>6. CASE j = Len(sent) + 1
    BY <2>1, <2>2, <2>3, <2>4, <2>6, OrderApart
  <2>7. QED
    BY <2>1, <2>5, <2>6
<1>3. QED
  BY <1>1, <1>2 DEF SendsLater

(* What becomes too late, and which gesture the thread turns to.           *)
LEMMA ThreadTurns ==
  ASSUME TypeOK, Control, Next
  PROVE  /\ tooLate' = tooLate \/ (pc \in Waits /\ tooLate' = tooLate \cup {generation})
         /\ pc' \in Gesture =>
              /\ sent' = sent
              /\ \/ pc \in Gesture /\ generation' = generation /\ began'.gen = began.gen
                 \/ LeftUp /\ pc' = "begin"
<1>1. CASE HookDown \/ HookUp \/ HookPush \/ HookQuits
  BY <1>1 DEF HookDown, HookUp, HookPush, HookQuits, Overtake, localVars, history
<1>2. CASE ThreadBegins \/ ThreadEnds \/ NothingToPop \/ ReportOverflow \/ LeftDown \/ SendOutcome
  BY <1>2 DEF ThreadBegins, ThreadEnds, NothingToPop, ReportOverflow, LeftDown, SendOutcome, Gesture,
     Waits, threadLeaves
<1>3. CASE LeftUp
  BY <1>3 DEF LeftUp, Gesture, Waits, threadLeaves
<1>4. CASE Begin \/ Policy \/ Settle \/ Uia \/ Capture \/ Recognize \/ Answer
  BY <1>4 DEF Begin, Policy, Settle, Uia, Capture, Recognize, Answer, GoesOnUnlessCancelled, GoesTo,
     Gesture, Waits, threadLeaves
<1>5. CASE Start
  BY <1>5 DEF Start, Gesture, Waits
<1>6. CASE MainGoesOn
  BY <1>6 DEF MainGoesOn, HookInstalled, Started, HookFails, StartUndone, StopPipeline, Stopped,
     Overtake, mainLeaves, localVars, history
<1>7. ASSUME NEW why \in {"stop", "shutdown", "disconnect"}, StopListening(why)
      PROVE  UNCHANGED <<tooLate, pc, generation, began, sent>>
  BY <1>7 DEF StopListening, mainLeaves, localVars, history
<1>8. QED
  BY <1>1, <1>2, <1>3, <1>4, <1>5, <1>6, <1>7 DEF Next, Thread, Resolve, Requests

LEMMA PastStep ==
  ASSUME TypeOK, Control, Stream, Unbroken, Past, Next
  PROVE  Past'
<1>1. \A k \in Nat : Behind(k) => Behind(k)'
  BY BehindStep
<1>2. SendsLater
  BY ThreadSendsLater
<1>3. /\ DOMAIN sent = 1..Len(sent) /\ Len(sent) \in Nat
      /\ \A i \in DOMAIN sent : Order(sent[i]) \in Nat
      /\ \A g \in tooLate : 2 * g + 1 \in Nat
  BY SentPlaces
<1>4. PICK g0 \in Nat : g0 = generation
  BY ComingTypes
<1>5. /\ tooLate' = tooLate \/ (pc \in Waits /\ tooLate' = tooLate \cup {g0})
      /\ pc' \in Gesture =>
           /\ sent' = sent
           /\ \/ pc \in Gesture /\ generation' = g0 /\ began'.gen = began.gen
              \/ LeftUp /\ pc' = "begin"
  BY <1>4, ThreadTurns
<1>6. ASSUME NEW i \in DOMAIN sent', sent'[i].kind # "overflow", NEW k, k = Order(sent'[i])
      PROVE  Behind(k)'
  <2>1. ASSUME i \in DOMAIN sent, sent'[i] = sent[i]
        PROVE  Behind(k)'
    <3>1. k \in Nat /\ Behind(k)
      BY <1>3, <1>6, <2>1 DEF Past, Order
    <3>2. QED
      BY <1>1, <3>1
  <2>2. ASSUME NEW kind \in {"down", "result", "error", "overflow"}, NEW gen \in Nat,
               Send(kind, gen),
               kind # "overflow" => Behind(Order([kind |-> kind, gen |-> gen]))'
        PROVE  Behind(k)'
    <3>1. \/ i \in DOMAIN sent /\ sent'[i] = sent[i]
          \/ sent'[i] = [kind |-> kind, gen |-> gen]
      BY <2>2, SentTypes
    <3>2. QED
      BY <1>6, <2>1, <2>2, <3>1 DEF Order
  <2>3. QED
    BY <1>2, <2>1, <2>2 DEF SendsLater
<1>7. ASSUME NEW g \in tooLate', NEW k, k = 2 * g + 1
      PROVE  Behind(k)'
  <2>1. k \in Nat /\ Behind(k)
    BY <1>3, <1>4, <1>5, <1>7 DEF Past, Gesture
  <2>2. QED
    BY <1>1, <2>1
<1>8. ASSUME pc' \in Gesture, NEW k, k = 2 * generation' + 1
      PROVE  /\ generation' > began'.gen
             /\ Behind(k)'
             /\ \A i \in DOMAIN sent' : sent'[i].kind # "overflow" => Order(sent'[i]) < k
  <2>1. CASE pc \in Gesture /\ generation' = g0 /\ began'.gen = began.gen
    <3>1. g0 > began.gen /\ k \in Nat /\ Behind(k) /\ SentOrder(k)
      BY <1>4, <1>8, <2>1 DEF Past, SentOrder
    <3>2. QED
      BY <1>1, <1>5, <1>8, <2>1, <3>1 DEF SentOrder
  <2>2. CASE LeftUp /\ pc' = "begin"
    <3>1. PICK e : e = Head(queue)
      OBVIOUS
    <3>2. /\ Taken(e) /\ e = Coming[1] /\ sent' = sent
          /\ generation' = e.gen /\ began'.gen = began.gen
          /\ Order(e) = 2 * e.gen + 1 /\ e.gen > began.gen
      BY <2>2, <3>1, PopTakes, StreamReleased DEF LeftUp, Pop
    <3>3. Behind(Order(e))'
      BY <3>2, BehindTaken
    <3>4. 1 \in DOMAIN Coming
      BY <3>2, ComingTypes, TailElements DEF Taken
    <3>5. SentOrder(Order(e))
      BY <3>2, <3>4 DEF SentOrder, Past, Behind
    <3>6. QED
      BY <1>8, <3>2, <3>3, <3>5 DEF SentOrder
  <2>3. QED
    BY <1>5, <1>8, <2>1, <2>2
<1>9. QED
  BY <1>6, <1>7, <1>8 DEF Past, Behind, Order

(* A gesture that is given up for lost is not taken up again.              *)
LEMMA LateStep ==
  ASSUME PipelineInv, Next
  PROVE  LateIsCancelled' /\ NoLateResult'
<1>1. /\ TypeOK /\ Control /\ Stream /\ Past /\ LateIsCancelled /\ NoLateResult
      /\ generation \in Nat /\ latestGeneration \in Nat
  BY ComingTypes DEF PipelineInv
<1>2. /\ tooLate' = tooLate \/ (pc \in Waits /\ tooLate' = tooLate \cup {generation})
      /\ pc' \in Gesture =>
           /\ sent' = sent
           /\ \/ pc \in Gesture /\ generation' = generation /\ began'.gen = began.gen
              \/ LeftUp /\ pc' = "begin"
  BY <1>1, ThreadTurns
<1>3. pc \in Gesture => generation <= latestGeneration
  BY <1>1 DEF Past, Behind
<1>4. LateIsCancelled'
  <2> SUFFICES ASSUME pc' \in Gesture, generation' \in tooLate'
               PROVE  (~running' \/ generation' # latestGeneration') /\ pc' \in Waits \cup {"answering"}
    BY DEF LateIsCancelled, Cancelled
  <2>1. CASE LeftUp
    <3>1. PICK e : e = Head(queue)
      OBVIOUS
    <3>2. /\ Taken(e) /\ e = Coming[1] /\ generation' = e.gen /\ pc' = "begin"
          /\ Order(e) = 2 * e.gen + 1 /\ e.gen > began.gen /\ tooLate' = tooLate
      BY <1>1, <1>2, <2>1, <3>1, PopTakes, StreamReleased DEF LeftUp, Pop, Waits, Gesture, PipelineInv
    <3>3. 1 \in DOMAIN Coming
      BY <1>1, <3>2, ComingTypes, TailElements DEF Taken
    <3>4. e \in MouseEvents
      BY <1>1, <3>2, <3>3, ComingTypes, Elements
    <3>5. 2 * e.gen + 1 < Order(e)
      BY <1>1, <3>2, <3>3 DEF Past, Behind
    <3>6. QED
      BY <1>1, <3>2, <3>4, <3>5, ComingTypes
  <2>2. CASE pc \in Gesture /\ generation' = generation /\ ~LeftUp
    <3>1. CASE HookDown
      BY <1>1, <1>3, <2>2, <3>1 DEF HookDown, Overtake, LateIsCancelled
    <3>2. CASE HookUp \/ HookPush \/ HookQuits
      BY <1>1, <2>2, <3>2 DEF HookUp, HookPush, HookQuits, LateIsCancelled, Cancelled, history
    <3>3. CASE Thread
      <4>1. tooLate' = tooLate /\ running' = running /\ latestGeneration' = latestGeneration
        BY <1>2, <2>2, <3>3 DEF Thread, ThreadBegins, ThreadEnds, ReportOverflow, NothingToPop,
           LeftDown, Resolve, Begin, Policy, Settle, Uia, Capture, Recognize, Answer, SendOutcome,
           GoesOnUnlessCancelled, GoesTo, threadLeaves, hookVars
      <4>2. Cancelled /\ pc \in Waits \cup {"answering"}
        BY <1>1, <2>2, <4>1 DEF LateIsCancelled
      <4>3. pc' \in Waits \cup {"answering"}
        BY <2>2, <3>3, <4>2 DEF Thread, ThreadBegins, ThreadEnds, ReportOverflow, NothingToPop,
           LeftDown, Pop, Resolve, Begin, Policy, Settle, Uia, Capture, Recognize, Answer,
           SendOutcome, GoesOnUnlessCancelled, GoesTo, Gesture, Waits
      <4>4. QED
        BY <2>2, <4>1, <4>2, <4>3 DEF Cancelled
    <3>4. CASE Requests
      BY <1>1, <2>2, <3>4 DEF Requests, Start, StopListening, LateIsCancelled, Cancelled, Gesture,
         Waits, mainLeaves, history
    <3>5. CASE MainGoesOn
      BY <1>1, <2>2, <3>5 DEF MainGoesOn, HookInstalled, Started, HookFails, StartUndone,
         StopPipeline, Stopped, Overtake, LateIsCancelled, Cancelled, mainLeaves, history
    <3>6. QED
      BY <3>1, <3>2, <3>3, <3>4, <3>5, <2>2 DEF Next
  <2>3. QED
    BY <1>2, <2>1, <2>2
<1>5. NoLateResult'
  <2>1. CASE sent' = sent
    <3> SUFFICES ASSUME NEW i \in DOMAIN sent, sent[i].kind \in {"result", "error"}
                 PROVE  sent[i].gen \notin tooLate'
      BY <2>1 DEF NoLateResult
    <3>1. sent[i].gen \notin tooLate /\ sent[i].gen \in Nat
      BY <1>1, SentPlaces DEF NoLateResult
    <3>2. pc \in Waits => Order(sent[i]) < 2 * generation + 1
      BY <1>1 DEF Past, Gesture
    <3>3. Order(sent[i]) = 2 * sent[i].gen + 1
      BY DEF Order
    <3>4. pc \in Waits => sent[i].gen # generation
      BY <1>1, <3>1, <3>2, <3>3
    <3>5. QED
      BY <1>2, <3>1, <3>4
  <2>2. ASSUME NEW kind \in {"down", "result", "error", "overflow"}, NEW gen \in Nat,
               Send(kind, gen), kind \in {"result", "error"} => gen \notin tooLate,
               tooLate' = tooLate
        PROVE  NoLateResult'
    <3>1. /\ DOMAIN sent = 1..Len(sent) /\ DOMAIN sent' = 1..Len(sent) + 1 /\ Len(sent) \in Nat
          /\ \A i \in DOMAIN sent : sent'[i] = sent[i]
          /\ sent'[Len(sent) + 1] = [kind |-> kind, gen |-> gen]
      BY <1>1, <2>2, SentTypes
    <3> SUFFICES ASSUME NEW i \in DOMAIN sent', sent'[i].kind \in {"result", "error"}
                 PROVE  sent'[i].gen \notin tooLate
      BY <2>2 DEF NoLateResult
    <3>2. CASE i \in DOMAIN sent
      BY <1>1, <3>1, <3>2 DEF NoLateResult
    <3>3. CASE i \notin DOMAIN sent
      <4>1. i = Len(sent) + 1
        BY <3>1, <3>3
      <4>2. QED
        BY <2>2, <3>1, <4>1
    <3>4. QED
      BY <3>2, <3>3
  <2>3. CASE SendOutcome
    <3>1. generation \notin tooLate /\ outcome \in {"result", "error"} /\ tooLate' = tooLate
          /\ Send(outcome, generation)
      BY <1>1, <1>2, <2>3 DEF SendOutcome, LateIsCancelled, Gesture, Waits, TypeOK
    <3>2. QED
      BY <1>1, <2>2, <3>1
  <2>4. CASE LeftDown
    <3>1. queue \in Seq(MouseEvents) /\ queue # <<>> /\ \A e \in MouseEvents : e.gen \in Nat
      BY <1>1, <2>4, ComingTypes DEF LeftDown, Pop, TypeOK
    <3>2. Head(queue).gen \in Nat
      BY <3>1
    <3>3. Send("down", Head(queue).gen) /\ tooLate' = tooLate
      BY <2>4 DEF LeftDown, Pop, threadLeaves
    <3>4. QED
      BY <2>2, <3>2, <3>3
  <2>5. CASE ReportOverflow
    <3>1. tooLate' = tooLate /\ dropped \in Nat
          /\ (sent' = sent \/ Send("overflow", dropped))
      BY <1>1, <2>5 DEF ReportOverflow, threadLeaves, TypeOK
    <3>2. QED
      BY <2>1, <2>2, <3>1
  <2>6. QED
    BY <2>1, <2>3, <2>4, <2>5, Senders
<1>6. QED
  BY <1>4, <1>5

-----------------------------------------------------------------------------
(* The invariant.                                                          *)

LEMMA PipelineInit ==
  Init => PipelineInv
<1> SUFFICES ASSUME Init PROVE PipelineInv
  OBVIOUS
<1>1. /\ queue = <<>> /\ sent = <<>> /\ Coming = <<>> /\ pc = "off" /\ tooLate = {}
      /\ latestGeneration = 0 /\ dropped = 0 /\ observed = 0 /\ generation = 0 /\ pressed = FALSE
      /\ began = [gen |-> 0, dropped |-> 0, down |-> 0]
  BY DEF Init, Coming
<1>2. 0 \in Generations /\ 0 \in 0..0
  BY PipelineAssumption DEF PipelineAssumption, Generations
<1>3. hookEvent \in MouseEvents
  BY <1>2 DEF Init, MouseEvents
<1>4. queue \in Seq(MouseEvents) /\ Len(queue) <= Capacity
  BY <1>1, PipelineAssumption DEF PipelineAssumption
<1>5. sent \in Seq([kind : {"down", "result", "error", "overflow"}, gen : Nat])
  BY <1>1
<1>6. began \in [gen : Generations, dropped : Nat, down : Generations]
  BY <1>1, <1>2
<1>7. TypeOK
  <2>1. /\ main \in {"idle", "starting", "installed", "undoing", "unhooking", "joining", "exited"}
        /\ purpose \in {"stop", "shutdown", "disconnect"}
        /\ hostState \in {"stopped", "running", "shutting-down"}
        /\ hook \in {"off", "idle", "pushing"} /\ outcome \in {"result", "error"}
    BY DEF Init
  <2>2. pressed \in BOOLEAN /\ running \in BOOLEAN /\ buttonDown \in BOOLEAN
    BY DEF Init
  <2>3. /\ pc \in Waits \cup {"off", "born", "top", "popping", "begin", "policy", "answering", "sending"}
        /\ tooLate \subseteq Generations
    BY <1>1
  <2>4. /\ latestGeneration \in Generations /\ generation \in Generations
        /\ dropped \in Nat /\ observed \in 0..dropped
    BY <1>1, <1>2
  <2>5. QED
    BY <1>3, <1>4, <1>5, <1>6, <2>1, <2>2, <2>3, <2>4 DEF TypeOK
<1>8. Control
  BY DEF Init, Control
<1>9. DOMAIN Coming = {} /\ DOMAIN sent = {}
  BY <1>1
<1>10. Stream /\ Unbroken
  BY <1>1, <1>9 DEF Stream, Unbroken
<1>11. Past /\ LateIsCancelled /\ EventsAreInOrder /\ NoLateResult
  BY <1>1, <1>9 DEF Past, LateIsCancelled, EventsAreInOrder, NoLateResult, Gesture, Waits
<1>12. QED
  BY <1>7, <1>8, <1>10, <1>11 DEF PipelineInv

LEMMA PipelineStep ==
  PipelineInv /\ [Next]_vars => PipelineInv'
<1> SUFFICES ASSUME PipelineInv, [Next]_vars PROVE PipelineInv'
  OBVIOUS
<1>1. /\ TypeOK /\ Control /\ Stream /\ Unbroken /\ Past /\ LateIsCancelled
      /\ EventsAreInOrder /\ NoLateResult
  BY DEF PipelineInv
<1>2. CASE Next
  <2>1. TypeOK' /\ Control'
    BY <1>1, <1>2, TypeStep, ControlStep
  <2>2. Stream' /\ Unbroken'
    BY <1>1, <1>2, StreamStep
  <2>3. Past' /\ LateIsCancelled' /\ NoLateResult'
    BY <1>1, <1>2, PastStep, LateStep
  <2>4. EventsAreInOrder'
    BY <1>1, <1>2, ThreadSendsLater, InOrderStep
  <2>5. QED
    BY <2>1, <2>2, <2>3, <2>4 DEF PipelineInv
<1>3. CASE UNCHANGED vars
  <2>1. /\ UNCHANGED <<main, purpose, hostState, hook, hookEvent, pressed, latestGeneration, dropped>>
        /\ UNCHANGED <<queue, running, pc, generation, outcome, buttonDown, observed, sent>>
        /\ UNCHANGED <<tooLate, began>>
    BY <1>3 DEF vars, mainVars, hookVars, localVars, history
  <2>2. Coming' = Coming /\ NextOrder' = NextOrder
    BY <2>1 DEF Coming, NextOrder
  <2>3. TypeOK' /\ Control'
    BY <1>1, <2>1 DEF TypeOK, Control
  <2>4. Stream' /\ Unbroken'
    BY <1>1, <2>1, <2>2 DEF Stream, Unbroken
  <2>5. Past'
    BY <1>1, <2>1, <2>2 DEF Past, Behind
  <2>6. LateIsCancelled' /\ EventsAreInOrder' /\ NoLateResult'
    BY <1>1, <2>1 DEF LateIsCancelled, Cancelled, EventsAreInOrder, NoLateResult
  <2>7. QED
    BY <2>3, <2>4, <2>5, <2>6 DEF PipelineInv
<1>4. QED
  BY <1>2, <1>3

LEMMA PipelineHolds ==
  Spec => []PipelineInv
BY PipelineInit, PipelineStep, PTL DEF Spec

-----------------------------------------------------------------------------
(* What follows from it.                                                   *)

(* Between requests the hook and the pipeline's thread are both there or   *)
(* both not, so that "health" tells the truth: whatever failed or was      *)
(* stopped before.                                                         *)
THEOREM ListeningStaysWhole == Spec => []ListeningIsWhole
<1>1. PipelineInv => ListeningIsWhole
  BY DEF PipelineInv, Control, ListeningIsWhole
<1>2. QED
  BY <1>1, PipelineHolds, PTL

(* A release that begins a gesture ends the press the thread saw last,     *)
(* which this run of listening saw, unless the queue overflowed; and the   *)
(* client sees presses and answers in the order of what the user did, each *)
(* gesture answered at most once.                                          *)
THEOREM GesturesStayInOrder == Spec => []GesturesKeepOrder
<1>1. PipelineInv => GesturesKeepOrder
  <2> SUFFICES ASSUME PipelineInv PROVE GesturesKeepOrder
    OBVIOUS
  <2>1. GestureIsPaired
    BY DEF PipelineInv, Unbroken, Past, Gesture, GestureIsPaired
  <2>2. QED
    BY <2>1 DEF PipelineInv, GesturesKeepOrder
<1>2. QED
  BY <1>1, PipelineHolds, PTL

(* Nothing is sent for a gesture that was overtaken, or stopped, in one of *)
(* the waits for its text: neither the text nor an error.                  *)
THEOREM LateResultsAreDropped == Spec => []NoLateResult
<1>1. PipelineInv => NoLateResult
  BY DEF PipelineInv
<1>2. QED
  BY <1>1, PipelineHolds, PTL

(* Between the response to stop or shutdown and the next start nothing is  *)
(* sent, and after that start nothing of what the user did before it.      *)
THEOREM StoppedMeansSilent == Spec => SilentAfterStop
<1> DEFINE Silent ==
      sent' # sent =>
        /\ main # "exited" /\ (main = "idle" => hostState = "running")
        /\ LET event == sent'[Len(sent')] IN event.kind # "overflow" => event.gen > began.gen
<1>1. ASSUME PipelineInv, [Next]_vars, sent' # sent
      PROVE  Silent
  <2>1. TypeOK /\ Control /\ Stream /\ Past /\ Next
    BY <1>1 DEF PipelineInv, vars
  <2>2. ReportOverflow \/ LeftDown \/ SendOutcome
    BY <1>1, <2>1, Senders
  <2>3. pc # "off"
    BY <2>2 DEF ReportOverflow, LeftDown, SendOutcome, Pop
  <2>4. main # "exited" /\ (main = "idle" => hostState = "running")
    BY <2>1, <2>3 DEF Control
  <2>5. ASSUME NEW kind \in {"down", "result", "error", "overflow"}, NEW gen \in Nat,
               Send(kind, gen), kind # "overflow" => gen > began.gen
        PROVE  sent'[Len(sent')].kind # "overflow" => sent'[Len(sent')].gen > began.gen
    <3>1. sent'[Len(sent')] = [kind |-> kind, gen |-> gen]
      BY <2>1, <2>5, SentTypes
    <3>2. QED
      BY <2>5, <3>1
  <2>6. CASE ReportOverflow
    <3>1. Send("overflow", dropped) /\ dropped \in Nat
      BY <1>1, <2>1, <2>6 DEF ReportOverflow, TypeOK
    <3>2. QED
      BY <2>4, <2>5, <3>1
  <2>7. CASE LeftDown
    <3>1. PICK e : e = Head(queue)
      OBVIOUS
    <3>2. Taken(e) /\ e = Coming[1] /\ e.kind = "down" /\ Send("down", e.gen)
      BY <2>1, <2>7, <3>1, PopTakes DEF LeftDown, Pop
    <3>3. e \in MouseEvents /\ 1 \in DOMAIN Coming
      BY <2>1, <3>2, ComingTypes, TailElements DEF Taken
    <3>4. e.gen > began.gen /\ e.gen \in Nat
      BY <2>1, <3>2, <3>3, ComingTypes DEF Stream
    <3>5. QED
      BY <2>4, <2>5, <3>2, <3>4
  <2>8. CASE SendOutcome
    <3>1. Send(outcome, generation) /\ generation > began.gen
      BY <2>1, <2>8 DEF SendOutcome, Past, Gesture
    <3>2. outcome \in {"result", "error"} /\ generation \in Nat
      BY <2>1, ComingTypes DEF TypeOK
    <3>3. QED
      BY <2>4, <2>5, <3>1, <3>2
  <2>9. QED
    BY <2>2, <2>6, <2>7, <2>8
<1>2. PipelineInv /\ [Next]_vars => [Silent]_vars
  BY <1>1
<1>3. QED
  BY <1>2, PipelineHolds, PTL DEF Spec, SilentAfterStop

=============================================================================
