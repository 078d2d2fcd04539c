-------------------------- MODULE HostConversation --------------------------
(***************************************************************************)
(* One conversation over the pipe: NativeHostClient in the application,    *)
(* the named pipe and the event writer in the selection host.              *)
(*                                                                         *)
(* Requests carry an id and a timer; a response must match a request that  *)
(* is still pending, an event must have a higher number than the last one  *)
(* and a kind that was negotiated, else the client gives up the            *)
(* conversation.  In the host, responses are written by the thread that    *)
(* reads requests; events by that thread, when it refuses one, and by the  *)
(* pipeline's.  Each numbers and writes its event under one lock.          *)
(*                                                                         *)
(* A message is what isNativeMessage and the decoders tell of it: whole,   *)
(* or the prefix that an aborted write leaves, and what its content makes  *)
(* of it.  Contents are lengths and counts.  The pipe keeps the order.     *)
(* When the host disconnects, what the client has not read is lost; when   *)
(* the client gives up, it still handles what its decoder has read.        *)
(***************************************************************************)
EXTENDS Integers, Sequences, SequencesExt

CONSTANTS
  Requests,      \* ids of requests other than hello
  MaxEvents      \* bound: events numbered

ASSUME ConversationAssumption ==
  /\ MaxEvents \in Nat
  /\ {"hello", "none"} \cap Requests = {}

VARIABLES
  socket,        \* the client's connection
  failure,       \* why the client gave up, if it did
  outcome,       \* what requests have come to
  method,        \* what requests ask
  requested,     \* pointerDownEventsRequested
  negotiated,    \* pointerDownEventsNegotiated
  lastEventSeq,  \* of the client

  toHost, toClient,          \* the pipe
  pipe,                      \* the host's end of it
  shaken,                    \* handshake_complete_
  pointerEvents,             \* pointer_down_events_enabled_
  listening,                 \* the pipeline runs
  nextSequence,              \* of the event writer
  numbered                   \* events that have a number and are not yet written

clientVars == <<socket, failure, outcome, method, requested, negotiated, lastEventSeq>>
hostVars == <<pipe, shaken, pointerEvents, listening, nextSequence, numbered>>
vars == <<clientVars, toHost, toClient, hostVars>>

Ids == Requests \cup {"hello"}
Methods == {"health", "start", "stop", "shutdown"}
Threads == {"pipeline", "reader"}

NoEvent == [method |-> "none", seq |-> -1, about |-> "none", valid |-> TRUE]

EventOf(kind, about, valid) ==
  [method |-> kind, seq |-> nextSequence, about |-> about, valid |-> valid]

(* What travels to the client.                                             *)
Response(id, kind) == [kind |-> "response", id |-> id, event |-> NoEvent, method |-> kind]
EventFrame(e) == [kind |-> "event", id |-> e.about, event |-> e, method |-> e.method]
Prefix == [kind |-> "prefix", id |-> "none", event |-> NoEvent, method |-> "none"]

Failures == {"none", "closed", "malformed", "unsolicited", "mismatch", "not negotiated",
             "sequence"}

-----------------------------------------------------------------------------
(* Contents.                                                               *)

MaxSelectionTextLength == 32768
MaxSelectionRects == 256
MaxMessageLength == 1024
MaxFrameBytes == 1024 * 1024
MaxJsonNodes == 65536

(* What UI Automation or OCR may find: a text in UTF-16 units, with units  *)
(* that a message cannot carry or without, and the rectangles around it,   *)
(* that may have no area.                                                  *)
Found ==
  [units : {1, MaxSelectionTextLength, MaxSelectionTextLength + 1}, clean : BOOLEAN,
   rects : {0, MaxSelectionRects, MaxSelectionRects + 1}, width : {0, 8}]

(* The pipeline cuts both off and replaces the units.                      *)
Acquired(found) ==
  [units |-> Min({found.units, MaxSelectionTextLength}), clean |-> TRUE,
   rects |-> Min({found.rects, MaxSelectionRects}), width |-> found.width]

(* A rectangle without an area is left out.                                *)
RectArrayJson(s) == IF s.width > 0 THEN s.rects ELSE 0

SelectionResult(s) ==
  [text |-> s.units, clean |-> s.clean, rects |-> RectArrayJson(s), width |-> s.width,
   start |-> 0, end |-> s.units]

HasValidUtf16AndNoNul(p) == p.clean

IsPhysicalRect(p) == p.width > 0

(* What the client takes for a selection.                                  *)
IsSelectionResult(p) ==
  /\ p.text \in 1..MaxSelectionTextLength /\ HasValidUtf16AndNoNul(p)
  /\ p.rects <= MaxSelectionRects /\ (p.rects > 0 => IsPhysicalRect(p))
  /\ 0 <= p.start /\ p.start < p.end /\ p.end <= p.text

(* The frame is within the decoder's limits: text and rectangles are there *)
(* twice, a unit is six bytes at most and a rectangle 73, all else 4096.   *)
WithinFrame(p) == 2 * (6 * p.text + 73 * p.rects) + 4096 <= MaxFrameBytes

(* And its JSON: a rectangle is five nodes, all else less than 64.         *)
WithinJson(p) == 2 * 5 * p.rects + 64 <= MaxJsonNodes

SelectionContents ==
  {WithinFrame(p) /\ WithinJson(p) /\ IsSelectionResult(p) :
     p \in {SelectionResult(Acquired(f)) : f \in Found}}

(* An error without a message is sent with the name of its code.           *)
ErrorMessage(units) == IF units = 0 THEN 8 ELSE Min({units, MaxMessageLength})

ErrorContents ==
  {(ErrorMessage(units) \in 1..MaxMessageLength) : units \in {0, 1, MaxMessageLength + 1}}

-----------------------------------------------------------------------------
TypeOK ==
  /\ socket \in {"none", "connecting", "open", "closed"}
  /\ failure \in Failures
  /\ outcome \in [Ids -> {"unused", "pending", "resolved", "rejected", "timed out"}]
  /\ method \in [Ids -> Methods \cup {"hello"}]
  /\ requested \in BOOLEAN /\ negotiated \in BOOLEAN
  /\ lastEventSeq \in -1..MaxEvents
  /\ toHost \in Seq(Ids)
  /\ pipe \in {"open", "broken", "closed"}
  /\ shaken \in BOOLEAN /\ pointerEvents \in BOOLEAN /\ listening \in BOOLEAN
  /\ nextSequence \in 0..MaxEvents
  /\ \A t \in Threads : numbered[t] = NoEvent \/ numbered[t].seq < nextSequence

Init ==
  /\ socket = "none" /\ failure = "none"
  /\ outcome = [i \in Ids |-> "unused"]
  /\ method = [i \in Ids |-> "hello"]
  /\ requested = FALSE /\ negotiated = FALSE
  /\ lastEventSeq = -1
  /\ toHost = <<>> /\ toClient = <<>>
  /\ pipe = "open"
  /\ shaken = FALSE /\ pointerEvents = FALSE /\ listening = FALSE
  /\ nextSequence = 0
  /\ numbered = [t \in Threads |-> NoEvent]

Pending == {i \in Ids : outcome[i] = "pending"}

-----------------------------------------------------------------------------
(* The client.                                                             *)

(* Mutant: the table of pending requests is emptied, their promises left.  *)
DropPending == [i \in Ids |-> IF i \in Pending THEN "unused" ELSE outcome[i]]

RejectPending == [i \in Ids |-> IF i \in Pending THEN "rejected" ELSE outcome[i]]

Connect ==
  /\ socket = "none"
  /\ socket' = "connecting"
  /\ UNCHANGED <<failure, outcome, method, requested, negotiated, lastEventSeq,
                 toHost, toClient, hostVars>>

Connected ==
  /\ socket = "connecting" /\ pipe = "open"
  /\ socket' = "open"
  /\ UNCHANGED <<failure, outcome, method, requested, negotiated, lastEventSeq,
                 toHost, toClient, hostVars>>

(* The connection is refused, or its timer fires and destroys the socket.  *)
ConnectFails ==
  /\ socket = "connecting"
  /\ socket' = "closed"
  /\ failure' = "closed"
  /\ UNCHANGED <<outcome, method, requested, negotiated, lastEventSeq,
                 toHost, toClient, hostVars>>

(* hello comes first; the supervisor lets nothing else out before it has   *)
(* been answered.  Whether pointer events are wanted is the shell's choice. *)
Request(id) ==
  /\ socket = "open"
  /\ outcome[id] = "unused"
  /\ IF id = "hello"
     THEN requested' \in BOOLEAN /\ UNCHANGED method
     ELSE /\ outcome["hello"] = "resolved"
          /\ \E m \in Methods : method' = [method EXCEPT ![id] = m]
          /\ UNCHANGED requested
  /\ outcome' = [outcome EXCEPT ![id] = "pending"]
  /\ toHost' = Append(toHost, id)
  /\ UNCHANGED <<socket, failure, negotiated, lastEventSeq, toClient, hostVars>>

RequestTimesOut(id) ==
  /\ outcome[id] = "pending"
  /\ outcome' = [outcome EXCEPT ![id] = "timed out"]
  /\ UNCHANGED <<socket, failure, method, requested, negotiated, lastEventSeq,
                 toHost, toClient, hostVars>>

(* Of what is on its way, the decoder has read some.                       *)
Unread(frames) == \E n \in 0..Len(frames) : toClient' = SubSeq(frames, 1, n)

(* closeWithError: nothing, of a client that has closed before.            *)
CloseWithError(reason) ==
  IF socket = "open"
  THEN /\ socket' = "closed"
       /\ failure' = reason
       /\ outcome' = RejectPending
       /\ Unread(Tail(toClient))
  ELSE UNCHANGED <<socket, failure, outcome>> /\ toClient' = Tail(toClient)

Close ==
  /\ socket = "open"
  /\ socket' = "closed"
  /\ outcome' = RejectPending
  /\ Unread(toClient)
  /\ UNCHANGED <<failure, method, requested, negotiated, lastEventSeq, toHost, hostVars>>

(* The host has gone and all it left has been handled.                     *)
PipeClosed ==
  /\ socket = "open" /\ pipe = "closed" /\ toClient = <<>>
  /\ socket' = "closed"
  /\ failure' = "closed"
  /\ outcome' = RejectPending
  /\ UNCHANGED <<method, requested, negotiated, lastEventSeq, toHost, toClient, hostVars>>

Expected(id) == IF id = "hello" THEN "ready" ELSE method[id]

ReceiveResponse(f) ==
  /\ f.kind = "response"
  /\ IF outcome[f.id] # "pending" THEN CloseWithError("unsolicited") /\ UNCHANGED negotiated
     ELSE IF f.method # Expected(f.id) THEN CloseWithError("mismatch") /\ UNCHANGED negotiated
     ELSE /\ outcome' = [outcome EXCEPT ![f.id] = "resolved"]
          /\ negotiated' = IF f.method = "ready" THEN requested /\ pointerEvents ELSE negotiated
          /\ toClient' = Tail(toClient)
          /\ UNCHANGED <<socket, failure>>
  /\ UNCHANGED lastEventSeq

ReceiveEvent(f) ==
  /\ f.kind = "event"
  /\ IF ~f.event.valid
     THEN CloseWithError("malformed") /\ UNCHANGED lastEventSeq
     ELSE IF f.method = "input/pointer-down" /\ ~negotiated
     THEN CloseWithError("not negotiated") /\ UNCHANGED lastEventSeq
     ELSE IF f.event.seq <= lastEventSeq
     THEN CloseWithError("sequence") /\ UNCHANGED lastEventSeq
     ELSE /\ lastEventSeq' = f.event.seq
          /\ outcome' = [i \in Ids |-> IF i = f.event.about /\ i \in Pending
                                       THEN "rejected" ELSE outcome[i]]
          /\ toClient' = Tail(toClient)
          /\ UNCHANGED <<socket, failure>>
  /\ UNCHANGED negotiated

(* A prefix waits for the rest of its frame: what follows makes the frame  *)
(* malformed, the end of the stream makes it truncated.                    *)
ReceivePrefix(f) ==
  /\ f.kind = "prefix"
  /\ pipe = "closed" \/ Len(toClient) > 1
  /\ CloseWithError(IF Len(toClient) > 1 THEN "malformed" ELSE "closed")
  /\ UNCHANGED <<lastEventSeq, negotiated>>

Receive ==
  /\ toClient # <<>>
  /\ LET f == Head(toClient) IN ReceiveResponse(f) \/ ReceiveEvent(f) \/ ReceivePrefix(f)
  /\ UNCHANGED <<method, requested, toHost, hostVars>>

-----------------------------------------------------------------------------
(* The host.                                                               *)

Written(frame) == toClient' = IF socket = "closed" THEN toClient ELSE Append(toClient, frame)

(* NamedPipeServer.Send, under its own lock: whole, or cut off, after      *)
(* which the pipe is not used again; nothing at all once it is not.        *)
Write(frame) ==
  \/ pipe = "open" /\ Written(frame) /\ UNCHANGED pipe
  \/ pipe = "open" /\ (Written(Prefix) \/ UNCHANGED toClient) /\ pipe' = "broken"
  \/ pipe # "open" /\ UNCHANGED <<toClient, pipe>>

(* The thread that reads requests is not at writing an error of the last.  *)
ReaderFree == pipe = "open" /\ numbered["reader"] = NoEvent

Holder == {t \in Threads : numbered[t] # NoEvent}

(* Mutant: numbers are given out without the lock.                         *)
NumberUnlocked(t, kind, about, valid) ==
  /\ numbered[t] = NoEvent
  /\ nextSequence < MaxEvents
  /\ numbered' = [numbered EXCEPT ![t] = EventOf(kind, about, valid)]
  /\ nextSequence' = nextSequence + 1

(* SequencedEventWriter.Send, with the lock taken: the number first.       *)
Number(t, kind, about, valid) ==
  /\ Holder = {}
  /\ nextSequence < MaxEvents
  /\ numbered' = [numbered EXCEPT ![t] = EventOf(kind, about, valid)]
  /\ nextSequence' = nextSequence + 1

(* And the frame under the same lock; a number whose frame could not be    *)
(* encoded is lost.                                                        *)
WriteEvent(t) ==
  /\ numbered[t] # NoEvent
  /\ numbered' = [numbered EXCEPT ![t] = NoEvent]
  /\ Write(EventFrame(numbered[t])) \/ UNCHANGED <<toClient, pipe>>
  /\ UNCHANGED <<clientVars, toHost, shaken, pointerEvents, listening, nextSequence>>

HandlePointerDown ==
  /\ listening /\ pointerEvents
  /\ Number("pipeline", "input/pointer-down", "none", TRUE)
  /\ UNCHANGED <<clientVars, toHost, toClient, pipe, shaken, pointerEvents, listening>>

SendSelection ==
  /\ listening
  /\ \/ \E valid \in SelectionContents : Number("pipeline", "selection/result", "none", valid)
     \/ \E valid \in ErrorContents : Number("pipeline", "host/error", "none", valid)
  /\ UNCHANGED <<clientVars, toHost, toClient, pipe, shaken, pointerEvents, listening>>

Rest == toHost' = Tail(toHost)

(* hello, answered; the host then knows whether pointer events are wanted. *)
HandleHello ==
  /\ ReaderFree /\ toHost # <<>> /\ Head(toHost) = "hello"
  /\ ~shaken
  /\ Rest
  /\ pointerEvents' = requested
  /\ shaken' = TRUE
  /\ Write(Response("hello", "ready"))
  /\ UNCHANGED <<clientVars, listening, nextSequence, numbered>>

(* health, start, stop: the state changes first, then the answer is sent.  *)
HandleRequest ==
  /\ ReaderFree /\ toHost # <<>> /\ shaken
  /\ LET id == Head(toHost)
     IN /\ method[id] # "shutdown"
        /\ Rest
        /\ listening' = CASE method[id] = "start" -> TRUE
                          [] method[id] = "stop" -> FALSE
                          [] OTHER -> listening
        /\ Write(Response(id, method[id]))
  /\ UNCHANGED <<clientVars, shaken, pointerEvents, nextSequence, numbered>>

(* A request that is refused is answered by an error event that names it.  *)
RefuseRequest ==
  /\ ReaderFree /\ toHost # <<>>
  /\ \E valid \in ErrorContents : Number("reader", "host/error", Head(toHost), valid)
  /\ Rest
  /\ UNCHANGED <<clientVars, toClient, pipe, shaken, pointerEvents, listening>>

(* shutdown: the answer, and the end of the loop: the pipe is disconnected *)
(* and what the client has not read is gone.                               *)
HandleShutdown ==
  /\ ReaderFree /\ toHost # <<>> /\ shaken
  /\ method[Head(toHost)] = "shutdown"
  /\ Rest
  /\ listening' = FALSE
  /\ pipe' = "closed"
  /\ Unread(Append(toClient, Response(Head(toHost), "shutdown")))
  /\ UNCHANGED <<clientVars, shaken, pointerEvents, nextSequence, numbered>>

(* The loop ends after a broken write, when the client has closed, when    *)
(* hello was refused, or with the process.                                 *)
HostCloses ==
  /\ pipe # "closed"
  /\ pipe' = "closed"
  /\ listening' = FALSE
  /\ Unread(toClient)
  /\ UNCHANGED <<clientVars, toHost, shaken, pointerEvents, nextSequence, numbered>>

Host ==
  \/ \E t \in Threads : WriteEvent(t)
  \/ HandlePointerDown \/ SendSelection
  \/ HandleHello \/ HandleRequest \/ RefuseRequest \/ HandleShutdown \/ HostCloses

Client ==
  \/ Connect \/ Connected \/ ConnectFails \/ Close \/ PipeClosed \/ Receive
  \/ \E id \in Ids : Request(id) \/ RequestTimesOut(id)

Next == Host \/ Client

(* Timers fire.  Neither the host nor the pipe need do anything.           *)
Fairness == \A id \in Ids : WF_vars(RequestTimesOut(id))

Spec == Init /\ [][Next]_vars /\ Fairness

-----------------------------------------------------------------------------
(* Properties.                                                             *)

(* The two ends keep to one protocol: whatever the threads of the host and *)
(* the timers of the client do, the client finds no event out of order or  *)
(* not negotiated, no answer of another kind, no garbage after a write     *)
(* that was cut off, and no selection that its validation refuses.  It     *)
(* gives up only with the pipe, or because an answer came after its        *)
(* request had timed out.                                                  *)
ConversationIsInProtocol ==
  /\ failure \in {"none", "closed", "unsolicited"}
  /\ failure = "unsolicited" => \E i \in Ids : outcome[i] = "timed out"

(* Every request comes to an end, whatever ends the conversation.          *)
RequestsSettle ==
  \A i \in Ids : outcome[i] = "pending" ~> outcome[i] \in {"resolved", "rejected", "timed out"}

(* What a run checks in every state.                                       *)
ProtocolIsKept == TypeOK /\ ConversationIsInProtocol

=============================================================================
