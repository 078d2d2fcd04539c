----------------------- MODULE HostConversationProofs -----------------------
(***************************************************************************)
(* The two ends of the pipe keep to one protocol, for any set of requests  *)
(* and any number of events.                                               *)
(*                                                                         *)
(* ConversationIsInProtocol is not inductive: it says what the client has  *)
(* found, not what it will find.  The invariant says what is on its way.   *)
(* A request is with one of the pipe to the host, its reader or the pipe   *)
(* back, and is awaited there or has timed out; frames are whole but the   *)
(* last of a pipe that broke; the answer to hello comes before any pointer *)
(* event; and the numbers of events grow along the pipe, up to that of the *)
(* thread that holds the lock.  All this holds until the client closes: it *)
(* then takes no notice of what its decoder still finds.                   *)
(***************************************************************************)
EXTENDS HostConversation, TLAPS

(* What the host has to tell.                                              *)
Kinds == {"none", "input/pointer-down", "selection/result", "host/error"}

(* Events that are valid: the host cuts off what a message cannot carry.   *)
Events == [method : Kinds, seq : -1..(MaxEvents - 1), about : Ids \cup {"none"}, valid : {TRUE}]

Frames == [kind : {"response", "event", "prefix"}, id : Ids \cup {"none"}, event : Events,
           method : Methods \cup Kinds \cup {"ready", "hello"}]

(* TypeOK, and what the frames and the numbered events are.                *)
Typed ==
  /\ TypeOK
  /\ toClient \in Seq(Frames)
  /\ numbered \in [Threads -> Events]

IsReady(f) == f.kind = "response" /\ f.id = "hello"

(* A request, by its id, is in one place: on its way to the host, with the *)
(* reader that refuses it, or answered on its way back.                    *)
OneAnswer ==
  /\ \A i, j \in DOMAIN toHost : i # j => toHost[i] # toHost[j]
  /\ \A i, j \in DOMAIN toClient :
       i # j /\ toClient[i].id # "none" => toClient[i].id # toClient[j].id
  /\ \A i \in DOMAIN toHost : /\ toHost[i] # numbered["reader"].about
                              /\ \A j \in DOMAIN toClient : toClient[j].id # toHost[i]
  /\ \A j \in DOMAIN toClient :
       toClient[j].id # "none" => toClient[j].id # numbered["reader"].about
  /\ numbered["pipeline"].about = "none"

(* And the client has asked: it awaits the answer, or did.                 *)
Awaited(id) == outcome[id] \in {"pending", "timed out"}

AnswersAreAwaited ==
  /\ \A i \in DOMAIN toHost : Awaited(toHost[i])
  /\ \A j \in DOMAIN toClient : toClient[j].id # "none" => Awaited(toClient[j].id)
  /\ numbered["reader"].about # "none" => Awaited(numbered["reader"].about)

(* An answer is of the kind that was asked for; only the last frame of a   *)
(* pipe that broke is cut off.                                             *)
FramesFit ==
  \A j \in DOMAIN toClient :
    /\ toClient[j].kind = "response" =>
         toClient[j].id # "none" /\ toClient[j].method = Expected(toClient[j].id)
    /\ toClient[j].kind = "event" => toClient[j].id = toClient[j].event.about
    /\ toClient[j].kind = "prefix" =>
         j = Len(toClient) /\ pipe # "open" /\ toClient[j].id = "none"

(* What the host knows after hello is what the client has asked for.       *)
HelloIsFirst ==
  /\ pointerEvents => shaken
  /\ shaken => /\ outcome["hello"] # "unused"
               /\ pointerEvents <=> requested
               /\ \A i \in DOMAIN toHost : toHost[i] # "hello"

(* A pointer event comes behind the answer to hello, if the client has not *)
(* read that yet.                                                          *)
Negotiation ==
  /\ \A t \in Threads : numbered[t].method = "input/pointer-down" => pointerEvents
  /\ pipe = "open" /\ pointerEvents /\ ~negotiated => \E i \in DOMAIN toClient : IsReady(toClient[i])
  /\ \A j \in DOMAIN toClient :
       toClient[j].kind = "event" /\ toClient[j].method = "input/pointer-down" =>
         /\ pointerEvents
         /\ negotiated \/ \E i \in DOMAIN toClient : i < j /\ IsReady(toClient[i])

(* One thread at a time has a number, the highest; those on their way grow *)
(* from the client's to the host's.                                        *)
Numbering ==
  /\ lastEventSeq < nextSequence
  /\ \A t, u \in Threads : numbered[t] # NoEvent /\ numbered[u] # NoEvent => t = u
  /\ \A t \in Threads : numbered[t] # NoEvent =>
       /\ lastEventSeq < numbered[t].seq
       /\ \A j \in DOMAIN toClient :
            toClient[j].kind = "event" => toClient[j].event.seq < numbered[t].seq
  /\ \A j \in DOMAIN toClient : toClient[j].kind = "event" =>
       lastEventSeq < toClient[j].event.seq /\ toClient[j].event.seq < nextSequence
  /\ \A i, j \in DOMAIN toClient :
       i < j /\ toClient[i].kind = "event" /\ toClient[j].kind = "event" =>
         toClient[i].event.seq < toClient[j].event.seq

(* Of a client that has not closed.                                        *)
InProtocol ==
  /\ failure = "none"
  /\ OneAnswer /\ AnswersAreAwaited /\ FramesFit /\ HelloIsFirst /\ Negotiation /\ Numbering

(* Until the client has connected, nobody says anything.                   *)
Silence ==
  socket \in {"none", "connecting"} =>
    /\ toHost = <<>> /\ toClient = <<>> /\ ~listening
    /\ \A t \in Threads : numbered[t] = NoEvent

ConversationInv ==
  /\ Typed /\ Silence
  /\ IF socket = "closed" THEN ConversationIsInProtocol ELSE InProtocol

LEMMA StillInProtocol ==
  ASSUME failure' = "none", OneAnswer', AnswersAreAwaited', FramesFit', HelloIsFirst', Negotiation',
         Numbering'
  PROVE  InProtocol'
BY DEF InProtocol

-----------------------------------------------------------------------------
(* Sequences.                                                              *)

LEMMA AppendElements ==
  ASSUME NEW S, NEW s \in Seq(S), NEW e \in S
  PROVE  /\ Append(s, e) \in Seq(S)
         /\ Len(Append(s, e)) = Len(s) + 1 /\ Len(s) \in Nat
         /\ DOMAIN s = 1..Len(s) /\ DOMAIN Append(s, e) = 1..Len(s) + 1
         /\ \A i \in DOMAIN s : Append(s, e)[i] = s[i]
         /\ Append(s, e)[Len(s) + 1] = e
  OBVIOUS

LEMMA TailElements ==
  ASSUME NEW S, NEW s \in Seq(S), s # <<>>
  PROVE  /\ Tail(s) \in Seq(S) /\ Head(s) = s[1] /\ s[1] \in S
         /\ Len(Tail(s)) = Len(s) - 1 /\ Len(s) \in Nat \ {0}
         /\ DOMAIN s = 1..Len(s) /\ DOMAIN Tail(s) = 1..Len(s) - 1
         /\ \A i \in DOMAIN Tail(s) : Tail(s)[i] = s[i + 1]
  OBVIOUS

LEMMA PrefixElements ==
  ASSUME NEW S, NEW s \in Seq(S), NEW n \in 0..Len(s)
  PROVE  /\ SubSeq(s, 1, n) \in Seq(S)
         /\ Len(SubSeq(s, 1, n)) = n /\ Len(s) \in Nat
         /\ DOMAIN s = 1..Len(s) /\ DOMAIN SubSeq(s, 1, n) = 1..n
         /\ \A i \in 1..n : SubSeq(s, 1, n)[i] = s[i]
  OBVIOUS

LEMMA UnreadElements ==
  ASSUME NEW s \in Seq(Frames), Unread(s)
  PROVE  /\ toClient' \in Seq(Frames)
         /\ DOMAIN toClient' \subseteq DOMAIN s
         /\ \A i \in DOMAIN toClient' : toClient'[i] = s[i]
         /\ Len(s) \in DOMAIN toClient' => Len(toClient') = Len(s)
<1>1. PICK n \in 0..Len(s) : toClient' = SubSeq(s, 1, n)
  BY DEF Unread
<1> QED BY <1>1, PrefixElements

-----------------------------------------------------------------------------
(* Contents are cut off at the limits, and what is sent is within them.    *)

LEMMA MinOfTwo ==
  ASSUME NEW a \in Int, NEW b \in Int
  PROVE  Min({a, b}) = IF a <= b THEN a ELSE b
<1>1. \E x \in {a, b} : \A y \in {a, b} : x <= y
  <2>1. CASE a <= b
    BY <2>1
  <2>2. CASE b <= a
    BY <2>2
  <2> QED BY <2>1, <2>2
<1>2. Min({a, b}) \in {a, b} /\ \A y \in {a, b} : Min({a, b}) <= y
  BY <1>1 DEF Min
<1> QED BY <1>2

LEMMA Limits ==
  /\ MaxSelectionTextLength \in Nat \ {0} /\ MaxSelectionRects \in Nat
  /\ \A text \in 1..MaxSelectionTextLength, rects \in 0..MaxSelectionRects :
       /\ 2 * (6 * text + 73 * rects) + 4096 <= MaxFrameBytes
       /\ 2 * 5 * rects + 64 <= MaxJsonNodes
<1>1. MaxSelectionTextLength \in Nat \ {0} /\ MaxSelectionRects \in Nat
  BY DEF MaxSelectionTextLength, MaxSelectionRects
<1>2. ASSUME NEW text \in Int, NEW rects \in Int, text <= 32768, rects <= 256
      PROVE  2 * (6 * text + 73 * rects) + 4096 <= 1024 * 1024 /\ 2 * 5 * rects + 64 <= 65536
  BY <1>2
<1>3. /\ \A text \in 1..MaxSelectionTextLength : text \in Int /\ text <= 32768
      /\ \A rects \in 0..MaxSelectionRects : rects \in Int /\ rects <= 256
  BY DEF MaxSelectionTextLength, MaxSelectionRects
<1> QED BY <1>1, <1>2, <1>3 DEF MaxFrameBytes, MaxJsonNodes

(* What UI Automation or OCR finds is cut off at the limits.               *)
LEMMA AcquiredIsLimited ==
  ASSUME NEW f \in Found
  PROVE  /\ Acquired(f).units \in 1..MaxSelectionTextLength
         /\ Acquired(f).rects \in 0..MaxSelectionRects
<1>1. Acquired(f).units \in 1..MaxSelectionTextLength
  <2>1. PICK units \in Nat \ {0} : f.units = units
    BY Limits DEF Found
  <2>2. Min({units, MaxSelectionTextLength})
          = IF units <= MaxSelectionTextLength THEN units ELSE MaxSelectionTextLength
    BY Limits, MinOfTwo
  <2>3. Min({units, MaxSelectionTextLength}) \in 1..MaxSelectionTextLength
    BY <2>2, Limits
  <2>4. Acquired(f).units = Min({units, MaxSelectionTextLength})
    BY <2>1 DEF Acquired
  <2> QED BY <2>3, <2>4
<1>2. Acquired(f).rects \in 0..MaxSelectionRects
  <2>1. PICK found \in Nat : f.rects = found
    BY Limits DEF Found
  <2>2. Min({found, MaxSelectionRects}) = IF found <= MaxSelectionRects THEN found ELSE MaxSelectionRects
    BY Limits, MinOfTwo
  <2>3. Min({found, MaxSelectionRects}) \in 0..MaxSelectionRects
    BY <2>2, Limits
  <2>4. Acquired(f).rects = Min({found, MaxSelectionRects})
    BY <2>1 DEF Acquired
  <2> QED BY <2>3, <2>4
<1> QED BY <1>1, <1>2

LEMMA SelectionIsValid ==
  ASSUME NEW f \in Found
  PROVE  LET p == SelectionResult(Acquired(f))
         IN  WithinFrame(p) /\ WithinJson(p) /\ IsSelectionResult(p)
<1> DEFINE s == Acquired(f)
<1> DEFINE p == SelectionResult(s)
<1>1. PICK text \in 1..MaxSelectionTextLength : s.units = text
  BY AcquiredIsLimited
<1>2. PICK rects \in 0..MaxSelectionRects : RectArrayJson(s) = rects /\ (rects > 0 => s.width > 0)
  <2>1. CASE s.width > 0
    BY <2>1, AcquiredIsLimited DEF RectArrayJson
  <2>2. CASE ~ (s.width > 0)
    <3>1. RectArrayJson(s) = 0 /\ 0 \in 0..MaxSelectionRects /\ ~ (0 > 0)
      BY <2>2, Limits DEF RectArrayJson
    <3> QED BY <3>1
  <2> QED BY <2>1, <2>2
<1>3. p.text = text /\ p.end = text
  BY <1>1 DEF SelectionResult
<1>4. p.rects = rects
  BY <1>2 DEF SelectionResult
<1>5. p.start = 0 /\ p.width = s.width
  BY DEF SelectionResult
<1>6. p.clean
  BY DEF SelectionResult, Acquired
<1> HIDE DEF s, p
<1>7. WithinFrame(p)
  BY <1>3, <1>4, Limits DEF WithinFrame
<1>8. WithinJson(p)
  BY <1>1, <1>4, Limits DEF WithinJson
<1>9. IsSelectionResult(p)
  <2>1. 0 < text /\ text <= text /\ rects <= MaxSelectionRects /\ 0 <= 0
    BY Limits
  <2>2. p.rects > 0 => p.width > 0
    BY <1>2, <1>4, <1>5, Zenon
  <2> QED
    BY <1>3, <1>4, <1>5, <1>6, <2>1, <2>2, Zenon
       DEF IsSelectionResult, HasValidUtf16AndNoNul, IsPhysicalRect
<1> QED BY <1>7, <1>8, <1>9 DEF s, p

LEMMA SelectionsAreValid == \A valid \in SelectionContents : valid = TRUE
<1> SUFFICES ASSUME NEW f \in Found
             PROVE  LET p == SelectionResult(Acquired(f))
                    IN  WithinFrame(p) /\ WithinJson(p) /\ IsSelectionResult(p)
  BY DEF SelectionContents
<1> QED BY SelectionIsValid

LEMMA ErrorsAreValid == \A valid \in ErrorContents : valid = TRUE
<1> SUFFICES ASSUME NEW units \in {0, 1, MaxMessageLength + 1}
             PROVE  ErrorMessage(units) \in 1..MaxMessageLength
  BY DEF ErrorContents
<1>1. Min({units, MaxMessageLength}) = IF units <= MaxMessageLength THEN units ELSE MaxMessageLength
  BY MinOfTwo DEF MaxMessageLength
<1> QED BY <1>1 DEF ErrorMessage, MaxMessageLength

-----------------------------------------------------------------------------
(* Types.                                                                  *)

LEMMA NothingIsTyped == NoEvent \in Events /\ Prefix \in Frames
<1>1. NoEvent \in Events
  BY ConversationAssumption DEF NoEvent, Events, Kinds
<1> QED BY <1>1 DEF Prefix, Frames, Kinds

LEMMA ResponsesAreTyped ==
  ASSUME NEW id \in Ids, NEW kind \in Methods \cup {"ready", "hello"}
  PROVE  /\ Response(id, kind) \in Frames
         /\ Response(id, kind).kind = "response" /\ Response(id, kind).id = id
         /\ Response(id, kind).method = kind
BY NothingIsTyped DEF Response, Frames

LEMMA EventsAreTyped ==
  ASSUME NEW e \in Events
  PROVE  /\ EventFrame(e) \in Frames
         /\ EventFrame(e).kind = "event" /\ EventFrame(e).id = e.about
         /\ EventFrame(e).event = e /\ EventFrame(e).method = e.method
BY DEF EventFrame, Frames, Events

LEMMA NumbersAreTyped ==
  ASSUME Typed, NEW t \in Threads, NEW kind \in Kinds, NEW about \in Ids \cup {"none"},
         Number(t, kind, about, TRUE)
  PROVE  /\ numbered' \in [Threads -> Events] /\ nextSequence' \in 0..MaxEvents
         /\ nextSequence' = nextSequence + 1
         /\ \A u \in Threads : numbered[u] = NoEvent
         /\ \A u \in Threads \ {t} : numbered'[u] = NoEvent
         /\ numbered'[t].seq = nextSequence /\ numbered'[t].about = about
         /\ numbered'[t].method = kind /\ numbered'[t] # NoEvent
<1>0. nextSequence \in 0..MaxEvents /\ nextSequence < MaxEvents /\ MaxEvents \in Nat
  BY ConversationAssumption DEF Number, Typed, TypeOK
<1>1. nextSequence \in 0..(MaxEvents - 1) /\ MaxEvents \in Nat
  BY <1>0
<1> DEFINE e == EventOf(kind, about, TRUE)
<1>2. e \in Events
  BY <1>1 DEF EventOf, Events
<1>3. e.seq = nextSequence /\ e.about = about /\ e.method = kind
  BY DEF EventOf
<1>5. numbered' = [numbered EXCEPT ![t] = e] /\ nextSequence' = nextSequence + 1
      /\ \A u \in Threads : numbered[u] = NoEvent
  BY DEF Number, Holder
<1> HIDE DEF e
<1>4. e # NoEvent
  <2>1. NoEvent.seq = -1
    BY DEF NoEvent
  <2> QED BY <1>1, <1>3, <2>1
<1> QED BY <1>1, <1>2, <1>3, <1>4, <1>5 DEF Typed

LEMMA WritesAreTyped ==
  ASSUME Typed, NEW frame \in Frames, Write(frame)
  PROVE  toClient' \in Seq(Frames) /\ pipe' \in {"open", "broken", "closed"}
<1>1. toClient \in Seq(Frames) /\ pipe \in {"open", "broken", "closed"}
  BY DEF Typed, TypeOK
<1>2. /\ Append(toClient, frame) \in Seq(Frames) /\ Append(toClient, Prefix) \in Seq(Frames)
  BY <1>1, NothingIsTyped, AppendElements
<1> QED BY <1>1, <1>2 DEF Write, Written

Outcomes == {"unused", "pending", "resolved", "rejected", "timed out"}

ClientTyped ==
  /\ socket \in {"none", "connecting", "open", "closed"} /\ failure \in Failures
  /\ outcome \in [Ids -> Outcomes] /\ method \in [Ids -> Methods \cup {"hello"}]
  /\ requested \in BOOLEAN /\ negotiated \in BOOLEAN
  /\ lastEventSeq \in -1..MaxEvents

HostTyped ==
  /\ toHost \in Seq(Ids)
  /\ pipe \in {"open", "broken", "closed"}
  /\ shaken \in BOOLEAN /\ pointerEvents \in BOOLEAN /\ listening \in BOOLEAN
  /\ nextSequence \in 0..MaxEvents
  /\ numbered \in [Threads -> Events]
  /\ \A t \in Threads : numbered[t] = NoEvent \/ numbered[t].seq < nextSequence

LEMMA TypedParts == Typed <=> ClientTyped /\ HostTyped /\ toClient \in Seq(Frames)
BY DEF Typed, TypeOK, ClientTyped, HostTyped, Outcomes

LEMMA TypedNext == ClientTyped' /\ HostTyped' /\ toClient' \in Seq(Frames) => Typed'
BY DEF Typed, TypeOK, ClientTyped, HostTyped, Outcomes

LEMMA RejectedIsTyped ==
  ASSUME ClientTyped
  PROVE  /\ RejectPending \in [Ids -> Outcomes]
         /\ \A i \in Ids : outcome[i] = "timed out" => RejectPending[i] = "timed out"
BY DEF ClientTyped, RejectPending, Pending, Outcomes

(* closeWithError, of a client that is open and of one that is not.        *)
LEMMA ClosingIsTyped ==
  ASSUME Typed, toClient # <<>>, NEW reason \in Failures, CloseWithError(reason)
  PROVE  /\ socket' \in {"none", "connecting", "open", "closed"} /\ failure' \in Failures
         /\ outcome' \in [Ids -> Outcomes] /\ toClient' \in Seq(Frames)
<1>1. ClientTyped /\ toClient \in Seq(Frames)
  BY TypedParts
<1>2. Tail(toClient) \in Seq(Frames)
  BY <1>1, TailElements
<1>3. CASE socket = "open"
  <2>1. socket' = "closed" /\ failure' = reason /\ outcome' = RejectPending /\ Unread(Tail(toClient))
    BY <1>3 DEF CloseWithError
  <2>2. toClient' \in Seq(Frames)
    BY <1>2, <2>1, UnreadElements
  <2> QED BY <1>1, <2>1, <2>2, RejectedIsTyped
<1>4. CASE socket # "open"
  BY <1>1, <1>2, <1>4 DEF CloseWithError, ClientTyped
<1> QED BY <1>3, <1>4

LEMMA ReceivingIsTyped ==
  ASSUME Typed, Receive PROVE Typed'
<1>1. ClientTyped /\ HostTyped /\ toClient \in Seq(Frames) /\ toClient # <<>>
      /\ UNCHANGED <<method, requested, toHost, hostVars>>
  BY TypedParts DEF Receive
<1>2. HostTyped'
  BY <1>1 DEF HostTyped, hostVars
<1> DEFINE f == Head(toClient)
<1>3. f \in Frames /\ Tail(toClient) \in Seq(Frames)
  BY <1>1, TailElements
<1>4. ASSUME NEW reason \in Failures, CloseWithError(reason)
      PROVE  /\ socket' \in {"none", "connecting", "open", "closed"} /\ failure' \in Failures
             /\ outcome' \in [Ids -> Outcomes] /\ toClient' \in Seq(Frames)
  BY <1>1, <1>4, ClosingIsTyped
<1>5. {"closed", "malformed", "unsolicited", "mismatch", "not negotiated", "sequence"}
        \subseteq Failures
  BY DEF Failures
<1>6. ReceiveResponse(f) \/ ReceiveEvent(f) \/ ReceivePrefix(f)
  BY DEF Receive
<1> HIDE DEF f
<1>7. CASE ReceiveResponse(f)
  <2>0. UNCHANGED lastEventSeq
    BY <1>7 DEF ReceiveResponse
  <2>1. CASE (CloseWithError("unsolicited") \/ CloseWithError("mismatch")) /\ UNCHANGED negotiated
    <3>1. ClientTyped' /\ toClient' \in Seq(Frames)
      BY <1>1, <1>4, <1>5, <2>0, <2>1 DEF ClientTyped
    <3> QED BY <1>2, <3>1, TypedNext
  <2>2. CASE /\ outcome' = [outcome EXCEPT ![f.id] = "resolved"]
             /\ negotiated' = IF f.method = "ready" THEN requested /\ pointerEvents ELSE negotiated
             /\ toClient' = Tail(toClient)
             /\ UNCHANGED <<socket, failure>>
    <3>1. negotiated' \in BOOLEAN
      BY <1>1, <2>2 DEF ClientTyped, HostTyped
    <3>2. outcome' \in [Ids -> Outcomes]
      BY <1>1, <2>2 DEF ClientTyped, Outcomes
    <3>3. ClientTyped' /\ toClient' \in Seq(Frames)
      BY <1>1, <1>3, <2>0, <2>2, <3>1, <3>2 DEF ClientTyped
    <3> QED BY <1>2, <3>3, TypedNext
  <2> QED BY <1>7, <2>1, <2>2 DEF ReceiveResponse
<1>8. CASE ReceiveEvent(f)
  <2>0. UNCHANGED negotiated
    BY <1>8 DEF ReceiveEvent
  <2>1. CASE /\ CloseWithError("malformed") \/ CloseWithError("not negotiated")
                  \/ CloseWithError("sequence")
             /\ UNCHANGED lastEventSeq
    <3>1. ClientTyped' /\ toClient' \in Seq(Frames)
      BY <1>1, <1>4, <1>5, <2>0, <2>1 DEF ClientTyped
    <3> QED BY <1>2, <3>1, TypedNext
  <2>2. CASE /\ lastEventSeq' = f.event.seq
             /\ outcome' = [i \in Ids |-> IF i = f.event.about /\ i \in Pending
                                         THEN "rejected" ELSE outcome[i]]
             /\ toClient' = Tail(toClient)
             /\ UNCHANGED <<socket, failure>>
    <3>1. lastEventSeq' \in -1..MaxEvents
      <4>1. f.event.seq \in -1..(MaxEvents - 1) /\ MaxEvents \in Nat
        BY <1>3, ConversationAssumption DEF Frames, Events
      <4> QED BY <2>2, <4>1
    <3>2. outcome' \in [Ids -> Outcomes]
      BY <1>1, <2>2 DEF ClientTyped, Outcomes
    <3>3. ClientTyped' /\ toClient' \in Seq(Frames)
      BY <1>1, <1>3, <2>0, <2>2, <3>1, <3>2 DEF ClientTyped
    <3> QED BY <1>2, <3>3, TypedNext
  <2> QED BY <1>8, <2>1, <2>2 DEF ReceiveEvent
<1>9. CASE ReceivePrefix(f)
  <2>1. (CloseWithError("malformed") \/ CloseWithError("closed")) /\ UNCHANGED <<lastEventSeq, negotiated>>
    BY <1>9 DEF ReceivePrefix
  <2>2. ClientTyped' /\ toClient' \in Seq(Frames)
    BY <1>1, <1>4, <1>5, <2>1 DEF ClientTyped
  <2> QED BY <1>2, <2>2, TypedNext
<1> QED BY <1>6, <1>7, <1>8, <1>9

LEMMA ClientIsTyped ==
  ASSUME Typed, Client PROVE Typed'
<1>0. ClientTyped /\ HostTyped /\ toClient \in Seq(Frames) /\ "closed" \in Failures
  BY TypedParts DEF Failures
<1>1. CASE Connect \/ Connected \/ ConnectFails
  <2>1. HostTyped' /\ ClientTyped' /\ toClient' = toClient
    BY <1>0, <1>1 DEF Connect, Connected, ConnectFails, ClientTyped, HostTyped, hostVars
  <2> QED BY <1>0, <2>1, TypedNext
<1>2. CASE Close
  <2>1. HostTyped' /\ ClientTyped'
    BY <1>0, <1>2, RejectedIsTyped DEF Close, ClientTyped, HostTyped, hostVars
  <2>2. toClient' \in Seq(Frames)
    BY <1>0, <1>2, UnreadElements DEF Close
  <2> QED BY <2>1, <2>2, TypedNext
<1>3. CASE PipeClosed
  <2>1. HostTyped' /\ ClientTyped' /\ toClient' = toClient
    BY <1>0, <1>3, RejectedIsTyped DEF PipeClosed, ClientTyped, HostTyped, hostVars
  <2> QED BY <1>0, <2>1, TypedNext
<1>4. ASSUME NEW id \in Ids, Request(id) PROVE Typed'
  <2>1. HostTyped'
    <3>1. Append(toHost, id) \in Seq(Ids)
      BY <1>0, AppendElements DEF HostTyped
    <3> QED BY <1>0, <1>4, <3>1 DEF Request, HostTyped, hostVars
  <2>2. requested' \in BOOLEAN /\ method' \in [Ids -> Methods \cup {"hello"}]
    BY <1>0, <1>4 DEF Request, ClientTyped
  <2>3. outcome' \in [Ids -> Outcomes]
    BY <1>0, <1>4 DEF Request, ClientTyped, Outcomes
  <2>4. ClientTyped' /\ toClient' = toClient
    BY <1>0, <1>4, <2>2, <2>3 DEF Request, ClientTyped
  <2> QED BY <1>0, <2>1, <2>4, TypedNext
<1>5. ASSUME NEW id \in Ids, RequestTimesOut(id) PROVE Typed'
  <2>1. outcome' \in [Ids -> Outcomes]
    BY <1>0, <1>5 DEF RequestTimesOut, ClientTyped, Outcomes
  <2>2. HostTyped' /\ ClientTyped' /\ toClient' = toClient
    BY <1>0, <1>5, <2>1 DEF RequestTimesOut, ClientTyped, HostTyped, hostVars
  <2> QED BY <1>0, <2>2, TypedNext
<1> QED BY <1>1, <1>2, <1>3, <1>4, <1>5, ReceivingIsTyped DEF Client

LEMMA HostIsTyped ==
  ASSUME Typed, Host PROVE Typed'
<1>0. ClientTyped /\ HostTyped /\ toClient \in Seq(Frames)
  BY TypedParts
<1>a. ASSUME NEW t \in Threads, NEW kind \in Kinds, NEW about \in Ids \cup {"none"},
             Number(t, kind, about, TRUE),
             UNCHANGED <<clientVars, toClient, pipe, shaken, pointerEvents, listening>>,
             toHost' \in Seq(Ids)
      PROVE  Typed'
  <2>1. ClientTyped'
    BY <1>0, <1>a DEF ClientTyped, clientVars
  <2>2. /\ numbered' \in [Threads -> Events] /\ nextSequence' \in 0..MaxEvents
        /\ \A u \in Threads : numbered'[u] = NoEvent \/ numbered'[u].seq < nextSequence'
    <3>1. numbered' \in [Threads -> Events] /\ nextSequence' \in 0..MaxEvents
          /\ nextSequence' = nextSequence + 1 /\ numbered'[t].seq = nextSequence
          /\ \A u \in Threads \ {t} : numbered'[u] = NoEvent
      BY <1>a, NumbersAreTyped
    <3>2. nextSequence \in Int
      BY <1>0 DEF HostTyped
    <3> QED BY <3>1, <3>2
  <2>3. HostTyped'
    BY <1>0, <1>a, <2>2 DEF HostTyped
  <2> QED BY <1>0, <1>a, <2>1, <2>3, TypedNext
<1>b. {"pipeline", "reader"} \subseteq Threads
      /\ {"input/pointer-down", "selection/result", "host/error"} \subseteq Kinds
  BY DEF Threads, Kinds
<1>c. toHost # <<>> => Head(toHost) \in Ids /\ Tail(toHost) \in Seq(Ids)
  BY <1>0, TailElements DEF HostTyped
<1>1. ASSUME NEW t \in Threads, WriteEvent(t) PROVE Typed'
  <2>1. /\ numbered' = [numbered EXCEPT ![t] = NoEvent] /\ numbered[t] \in Events
        /\ Write(EventFrame(numbered[t])) \/ UNCHANGED <<toClient, pipe>>
        /\ UNCHANGED <<clientVars, toHost, shaken, pointerEvents, listening, nextSequence>>
    BY <1>0, <1>1 DEF WriteEvent, HostTyped
  <2>2. toClient' \in Seq(Frames) /\ pipe' \in {"open", "broken", "closed"}
    BY <1>0, <2>1, EventsAreTyped, WritesAreTyped DEF HostTyped
  <2>3. numbered' \in [Threads -> Events]
        /\ \A u \in Threads : numbered'[u] = NoEvent \/ numbered'[u].seq < nextSequence
    BY <1>0, <2>1, NothingIsTyped DEF HostTyped
  <2>4. HostTyped' /\ ClientTyped'
    BY <1>0, <2>1, <2>2, <2>3 DEF HostTyped, ClientTyped, clientVars
  <2> QED BY <2>2, <2>4, TypedNext
<1>2. CASE HandlePointerDown
  BY <1>0, <1>a, <1>b, <1>2 DEF HandlePointerDown, HostTyped
<1>3. CASE SendSelection
  <2>1. \E kind \in {"selection/result", "host/error"} : Number("pipeline", kind, "none", TRUE)
    BY <1>3, SelectionsAreValid, ErrorsAreValid DEF SendSelection
  <2>2. UNCHANGED <<clientVars, toHost, toClient, pipe, shaken, pointerEvents, listening>>
    BY <1>3 DEF SendSelection
  <2> QED BY <1>0, <1>a, <1>b, <2>1, <2>2 DEF HostTyped
<1>4. CASE HandleHello
  <2>1. Response("hello", "ready") \in Frames
    BY ResponsesAreTyped DEF Ids
  <2>2. toClient' \in Seq(Frames) /\ pipe' \in {"open", "broken", "closed"}
    BY <1>4, <2>1, WritesAreTyped DEF HandleHello
  <2>3. toHost' \in Seq(Ids) /\ pointerEvents' \in BOOLEAN /\ shaken' = TRUE
        /\ UNCHANGED <<clientVars, listening, nextSequence, numbered>>
    BY <1>0, <1>c, <1>4 DEF HandleHello, Rest, ClientTyped
  <2>4. HostTyped' /\ ClientTyped'
    BY <1>0, <2>2, <2>3 DEF HostTyped, ClientTyped, clientVars
  <2> QED BY <2>2, <2>4, TypedNext
<1>5. CASE HandleRequest
  <2>0. PICK id \in Ids : Write(Response(id, method[id]))
    BY <1>c, <1>5 DEF HandleRequest
  <2>1. Response(id, method[id]) \in Frames
    BY <1>0, ResponsesAreTyped DEF ClientTyped
  <2>2. toClient' \in Seq(Frames) /\ pipe' \in {"open", "broken", "closed"}
    BY <2>0, <2>1, WritesAreTyped
  <2>3. toHost' \in Seq(Ids) /\ listening' \in BOOLEAN
        /\ UNCHANGED <<clientVars, shaken, pointerEvents, nextSequence, numbered>>
    BY <1>0, <1>c, <1>5 DEF HandleRequest, Rest, HostTyped
  <2>4. HostTyped' /\ ClientTyped'
    BY <1>0, <2>2, <2>3 DEF HostTyped, ClientTyped, clientVars
  <2> QED BY <2>2, <2>4, TypedNext
<1>6. CASE RefuseRequest
  <2>1. Number("reader", "host/error", Head(toHost), TRUE)
    BY <1>6, ErrorsAreValid DEF RefuseRequest
  <2>2. toHost' \in Seq(Ids) /\ Head(toHost) \in Ids
        /\ UNCHANGED <<clientVars, toClient, pipe, shaken, pointerEvents, listening>>
    BY <1>c, <1>6 DEF RefuseRequest, Rest
  <2> QED BY <1>a, <1>b, <2>1, <2>2
<1>7. CASE HandleShutdown
  <2>1. Append(toClient, Response(Head(toHost), "shutdown")) \in Seq(Frames)
    <3>1. Response(Head(toHost), "shutdown") \in Frames
      BY <1>c, <1>7, ResponsesAreTyped DEF HandleShutdown, Methods
    <3> QED BY <1>0, <3>1, AppendElements
  <2>2. toClient' \in Seq(Frames)
    BY <1>7, <2>1, UnreadElements DEF HandleShutdown
  <2>3. HostTyped' /\ ClientTyped'
    BY <1>0, <1>c, <1>7 DEF HandleShutdown, Rest, HostTyped, ClientTyped, clientVars
  <2> QED BY <2>2, <2>3, TypedNext
<1>8. CASE HostCloses
  <2>1. HostTyped' /\ ClientTyped'
    BY <1>0, <1>8 DEF HostCloses, HostTyped, ClientTyped, clientVars
  <2>2. toClient' \in Seq(Frames)
    BY <1>0, <1>8, UnreadElements DEF HostCloses
  <2> QED BY <2>1, <2>2, TypedNext
<1> QED BY <1>1, <1>2, <1>3, <1>4, <1>5, <1>6, <1>7, <1>8 DEF Host

LEMMA TypedStep == Typed /\ [Next]_vars => Typed'
<1> SUFFICES ASSUME Typed, [Next]_vars PROVE Typed'
  OBVIOUS
<1>1. CASE UNCHANGED vars
  BY <1>1 DEF vars, clientVars, hostVars, Typed, TypeOK
<1> QED BY <1>1, ClientIsTyped, HostIsTyped DEF Next

(* What the client still has to read is what it had to read, from the      *)
(* front, and behind it at most the frame g, on a pipe that was open.      *)
Extended(g) ==
  \A j \in DOMAIN toClient' :
    \/ j \in DOMAIN toClient /\ toClient'[j] = toClient[j]
    \/ j = Len(toClient) + 1 /\ toClient'[j] = g /\ pipe = "open"

(* As long as the pipe is open, nothing has gone.                          *)
Complete ==
  pipe' = "open" => \A j \in DOMAIN toClient : j \in DOMAIN toClient' /\ toClient'[j] = toClient[j]

Indices ==
  /\ Len(toClient) \in Nat /\ DOMAIN toClient = 1..Len(toClient)
  /\ \A j \in DOMAIN toClient : toClient[j] \in Frames
  /\ Len(toHost) \in Nat /\ DOMAIN toHost = 1..Len(toHost)
  /\ \A i \in DOMAIN toHost : toHost[i] \in Ids

LEMMA SequenceIndices ==
  ASSUME NEW S, NEW s \in Seq(S)
  PROVE  Len(s) \in Nat /\ DOMAIN s = 1..Len(s) /\ \A i \in DOMAIN s : s[i] \in S
  OBVIOUS

LEMMA TypedIndices == Typed => Indices
<1> SUFFICES ASSUME Typed PROVE Indices
  OBVIOUS
<1>1. toClient \in Seq(Frames) /\ toHost \in Seq(Ids)
  BY DEF Typed, TypeOK
<1> QED BY <1>1, SequenceIndices, Zenon DEF Indices

LEMMA TypedIndicesNext == Typed' => Indices'
<1> SUFFICES ASSUME Typed' PROVE Indices'
  OBVIOUS
<1>1. toClient' \in Seq(Frames) /\ toHost' \in Seq(Ids)
  BY DEF Typed, TypeOK
<1> QED BY <1>1, SequenceIndices, Zenon DEF Indices

LEMMA SameIsExtended ==
  ASSUME Typed, toClient' = toClient, NEW g
  PROVE  Extended(g)
BY DEF Extended

LEMMA CutIsExtended ==
  ASSUME Typed, Unread(toClient), NEW g
  PROVE  Extended(g)
BY UnreadElements DEF Extended, Typed

(* NamedPipeServer.Send, of a client that listens.                         *)
LEMMA WritingExtends ==
  ASSUME Typed, socket # "closed", NEW frame \in Frames, Write(frame)
  PROVE  /\ Complete
         /\ pipe' = "open" => \E j \in DOMAIN toClient' : toClient'[j] = frame
         /\ pipe' = "open" => pipe = "open"
         /\ pipe # "open" => pipe' = pipe
         /\ \/ Extended(frame)
            \/ Extended(Prefix) /\ pipe' # "open"
<1>1. Indices /\ toClient \in Seq(Frames)
  BY TypedIndices DEF Typed
<1>2. CASE pipe = "open" /\ Written(frame) /\ UNCHANGED pipe
  <2>1. toClient' = Append(toClient, frame)
    BY <1>2 DEF Written
  <2>2. /\ \A j \in DOMAIN toClient : j \in DOMAIN toClient' /\ toClient'[j] = toClient[j]
        /\ Len(toClient) + 1 \in DOMAIN toClient' /\ toClient'[Len(toClient) + 1] = frame
        /\ DOMAIN toClient' = 1..Len(toClient) + 1
    BY <1>1, <2>1, AppendElements DEF Indices
  <2>3. Extended(frame)
    <3>1. \A j \in DOMAIN toClient' : j \in DOMAIN toClient \/ j = Len(toClient) + 1
      BY <1>1, <2>2 DEF Indices
    <3> QED BY <1>2, <2>2, <3>1 DEF Extended
  <2> QED BY <1>2, <2>2, <2>3 DEF Complete
<1>3. CASE pipe = "open" /\ (Written(Prefix) \/ UNCHANGED toClient) /\ pipe' = "broken"
  <2>1. CASE UNCHANGED toClient
    BY <1>3, <2>1, SameIsExtended DEF Complete
  <2>2. CASE Written(Prefix)
    <3>1. toClient' = Append(toClient, Prefix) /\ Prefix \in Frames
      BY <2>2, NothingIsTyped DEF Written
    <3>2. /\ \A j \in DOMAIN toClient : toClient'[j] = toClient[j]
          /\ toClient'[Len(toClient) + 1] = Prefix
          /\ DOMAIN toClient' = 1..Len(toClient) + 1
      BY <1>1, <3>1, AppendElements
    <3>3. \A j \in DOMAIN toClient' : j \in DOMAIN toClient \/ j = Len(toClient) + 1
      BY <1>1, <3>2 DEF Indices
    <3>4. Extended(Prefix)
      BY <1>3, <3>2, <3>3 DEF Extended
    <3> QED BY <1>3, <3>4 DEF Complete
  <2> QED BY <1>3, <2>1, <2>2
<1>4. CASE pipe # "open" /\ UNCHANGED <<toClient, pipe>>
  BY <1>4, SameIsExtended DEF Complete
<1> QED BY <1>2, <1>3, <1>4 DEF Write

(* The answer to shutdown, of which what was read remains.                 *)
LEMMA LastAnswerExtends ==
  ASSUME Typed, NEW frame \in Frames, pipe = "open", Unread(Append(toClient, frame))
  PROVE  Extended(frame)
<1>1. Indices /\ toClient \in Seq(Frames)
  BY TypedIndices DEF Typed
<1> DEFINE s == Append(toClient, frame)
<1>2. /\ s \in Seq(Frames) /\ DOMAIN s = 1..Len(toClient) + 1
      /\ \A j \in DOMAIN toClient : s[j] = toClient[j]
      /\ s[Len(toClient) + 1] = frame
  BY <1>1, AppendElements
<1> HIDE DEF s
<1>3. DOMAIN toClient' \subseteq DOMAIN s /\ \A j \in DOMAIN toClient' : toClient'[j] = s[j]
  BY <1>2, UnreadElements DEF s
<1>4. \A j \in DOMAIN toClient' : j \in DOMAIN toClient \/ j = Len(toClient) + 1
  BY <1>1, <1>2, <1>3 DEF Indices
<1> QED BY <1>2, <1>3, <1>4 DEF Extended

(* What has been read from the pipe by the host.                           *)
LEMMA RestElements ==
  ASSUME Typed, toHost # <<>>, Rest
  PROVE  /\ Head(toHost) = toHost[1] /\ 1 \in DOMAIN toHost /\ Head(toHost) \in Ids
         /\ \A i \in DOMAIN toHost' : i # 0 /\ i \in Int /\ i + 1 \in DOMAIN toHost /\ toHost'[i] = toHost[i + 1]
<1>1. toHost \in Seq(Ids) /\ toHost' = Tail(toHost)
  BY DEF Typed, TypeOK, Rest
<1>2. /\ Head(toHost) = toHost[1] /\ toHost[1] \in Ids /\ Len(toHost) \in Nat \ {0}
      /\ DOMAIN toHost = 1..Len(toHost) /\ DOMAIN toHost' = 1..Len(toHost) - 1
      /\ \A i \in DOMAIN toHost' : toHost'[i] = toHost[i + 1]
  BY <1>1, TailElements
<1> QED BY <1>2

(* What the client has received.                                           *)
LEMMA ReceivedElements ==
  ASSUME Typed, toClient # <<>>, toClient' = Tail(toClient)
  PROVE  /\ Head(toClient) = toClient[1] /\ 1 \in DOMAIN toClient /\ toClient[1] \in Frames
         /\ Len(toClient') = Len(toClient) - 1
         /\ \A j \in DOMAIN toClient' : j \in Int /\ 0 < j /\ j + 1 \in DOMAIN toClient /\ toClient'[j] = toClient[j + 1]
         /\ \A j \in DOMAIN toClient : j # 1 => j - 1 \in DOMAIN toClient' /\ toClient'[j - 1] = toClient[j]
<1>1. toClient \in Seq(Frames)
  BY DEF Typed
<1>2. /\ Head(toClient) = toClient[1] /\ toClient[1] \in Frames /\ Len(toClient) \in Nat \ {0}
      /\ DOMAIN toClient = 1..Len(toClient) /\ DOMAIN toClient' = 1..Len(toClient) - 1
      /\ Len(toClient') = Len(toClient) - 1
      /\ \A i \in DOMAIN toClient' : toClient'[i] = toClient[i + 1]
  BY <1>1, TailElements
<1>3. \A j \in DOMAIN toClient : j # 1 => j - 1 \in DOMAIN toClient' /\ (j - 1) + 1 = j
  BY <1>2
<1> QED BY <1>2, <1>3

-----------------------------------------------------------------------------
(* The frames that a step of the host leaves.                              *)

LEMMA FramesStayFit ==
  ASSUME Typed, Typed', FramesFit, UNCHANGED method, pipe # "open" => pipe' # "open",
         NEW g \in Frames, Extended(g),
         g.kind = "response" => g.id # "none" /\ g.method = Expected(g.id),
         g.kind = "event" => g.id = g.event.about,
         g.kind = "prefix" => pipe' # "open" /\ g.id = "none"
  PROVE  FramesFit'
<1>1. Indices /\ Indices'
  BY TypedIndices, TypedIndicesNext
<1>2. ASSUME NEW j \in DOMAIN toClient'
      PROVE  /\ toClient'[j].kind = "response" =>
                  toClient'[j].id # "none" /\ toClient'[j].method = Expected(toClient'[j].id)
             /\ toClient'[j].kind = "event" => toClient'[j].id = toClient'[j].event.about
             /\ toClient'[j].kind = "prefix" =>
                  j = Len(toClient') /\ pipe' # "open" /\ toClient'[j].id = "none"
  <2>1. CASE j \in DOMAIN toClient /\ toClient'[j] = toClient[j]
    <3>1. ASSUME toClient'[j].kind = "prefix" PROVE j = Len(toClient') /\ pipe' # "open"
      <4>1. j = Len(toClient) /\ pipe # "open"
        BY <2>1, <3>1 DEF FramesFit
      <4>2. \A k \in DOMAIN toClient' : k \in DOMAIN toClient
        BY <4>1 DEF Extended
      <4>3. j = Len(toClient')
        <5>1. Len(toClient') \in DOMAIN toClient' /\ j <= Len(toClient') /\ Len(toClient') \in Nat
          BY <1>1 DEF Indices
        <5>2. Len(toClient') <= Len(toClient)
          BY <1>1, <4>2, <5>1 DEF Indices
        <5>3. Len(toClient) \in Nat
          BY <1>1 DEF Indices
        <5> QED BY <4>1, <5>1, <5>2, <5>3
      <4> QED BY <4>1, <4>3
    <3> QED BY <2>1, <3>1 DEF FramesFit
  <2>2. CASE j = Len(toClient) + 1 /\ toClient'[j] = g
    <3>1. j = Len(toClient')
      <4>1. Len(toClient') \in DOMAIN toClient' /\ j <= Len(toClient') /\ Len(toClient') \in Nat
        BY <1>1 DEF Indices
      <4>2. Len(toClient') <= Len(toClient) + 1
        BY <1>1, <4>1 DEF Indices, Extended
      <4>3. Len(toClient) \in Nat
        BY <1>1 DEF Indices
      <4> QED BY <2>2, <4>1, <4>2, <4>3
    <3> QED BY <2>2, <3>1
  <2> QED BY <2>1, <2>2 DEF Extended
<1>3. \A id : Expected(id)' = Expected(id)
  BY DEF Expected
<1> QED BY <1>2, <1>3 DEF FramesFit

LEMMA NumberingStays ==
  ASSUME Typed, Typed', Numbering, UNCHANGED <<lastEventSeq, nextSequence, numbered>>,
         NEW g \in Frames, Extended(g), g.kind # "event"
  PROVE  Numbering'
<1>1. \A j \in DOMAIN toClient' :
        toClient'[j].kind = "event" => j \in DOMAIN toClient /\ toClient'[j] = toClient[j]
  BY DEF Extended
<1>2. /\ lastEventSeq' < nextSequence'
      /\ \A t, u \in Threads : numbered'[t] # NoEvent /\ numbered'[u] # NoEvent => t = u
  BY DEF Numbering
<1>3. \A t \in Threads : numbered'[t] # NoEvent =>
        /\ lastEventSeq' < numbered'[t].seq
        /\ \A j \in DOMAIN toClient' :
             toClient'[j].kind = "event" => toClient'[j].event.seq < numbered'[t].seq
  BY <1>1 DEF Numbering
<1>4. \A j \in DOMAIN toClient' : toClient'[j].kind = "event" =>
        lastEventSeq' < toClient'[j].event.seq /\ toClient'[j].event.seq < nextSequence'
  BY <1>1 DEF Numbering
<1>5. \A i, j \in DOMAIN toClient' :
        i < j /\ toClient'[i].kind = "event" /\ toClient'[j].kind = "event" =>
          toClient'[i].event.seq < toClient'[j].event.seq
  BY <1>1 DEF Numbering
<1> QED BY <1>2, <1>3, <1>4, <1>5, Zenon DEF Numbering

(* The event of the thread that holds the lock has the highest number.     *)
LEMMA NumberingOfEvent ==
  ASSUME Typed, Typed', Numbering, NEW t \in Threads, numbered[t] # NoEvent,
         numbered' = [numbered EXCEPT ![t] = NoEvent], UNCHANGED <<lastEventSeq, nextSequence>>,
         NEW g \in Frames, Extended(g), g.kind # "event" \/ g.event = numbered[t]
  PROVE  Numbering'
<1>1. Indices /\ Indices'
  BY TypedIndices, TypedIndicesNext
<1>2. \A u \in Threads : numbered'[u] = NoEvent
  BY DEF Numbering, Typed
<1>3. \A j \in DOMAIN toClient' : toClient'[j].kind = "event" =>
        \/ j \in DOMAIN toClient /\ toClient'[j] = toClient[j]
        \/ j = Len(toClient) + 1 /\ toClient'[j].event = numbered[t]
  BY DEF Extended
<1>4. /\ lastEventSeq < numbered[t].seq /\ numbered[t].seq < nextSequence
      /\ \A j \in DOMAIN toClient :
           toClient[j].kind = "event" => toClient[j].event.seq < numbered[t].seq
  BY DEF Numbering, Typed, TypeOK
<1>5. \A j \in DOMAIN toClient' : toClient'[j].kind = "event" =>
        lastEventSeq' < toClient'[j].event.seq /\ toClient'[j].event.seq < nextSequence'
  BY <1>3, <1>4 DEF Numbering
<1>6. ASSUME NEW i \in DOMAIN toClient', NEW j \in DOMAIN toClient', i < j,
             toClient'[i].kind = "event", toClient'[j].kind = "event"
      PROVE  toClient'[i].event.seq < toClient'[j].event.seq
  <2>1. i \in DOMAIN toClient /\ toClient'[i] = toClient[i]
    <3>1. i # Len(toClient) + 1
      BY <1>1, <1>3, <1>6 DEF Indices
    <3> QED BY <1>3, <1>6, <3>1
  <2>2. CASE j \in DOMAIN toClient /\ toClient'[j] = toClient[j]
    BY <1>6, <2>1, <2>2 DEF Numbering
  <2>3. CASE toClient'[j].event = numbered[t]
    BY <1>4, <1>6, <2>1, <2>3
  <2> QED BY <1>3, <1>6, <2>2, <2>3
<1>7. lastEventSeq' < nextSequence'
  BY DEF Numbering
<1> QED BY <1>2, <1>5, <1>6, <1>7, Zenon DEF Numbering

LEMMA NumberingOfNumber ==
  ASSUME Typed, Typed', Numbering, NEW t \in Threads, NEW kind \in Kinds,
         NEW about \in Ids \cup {"none"}, Number(t, kind, about, TRUE),
         UNCHANGED <<lastEventSeq, toClient>>
  PROVE  Numbering'
<1>1. /\ nextSequence' = nextSequence + 1
      /\ \A u \in Threads \ {t} : numbered'[u] = NoEvent
      /\ numbered'[t].seq = nextSequence
  BY NumbersAreTyped
<1>2. nextSequence \in Int /\ lastEventSeq \in Int
  <2>1. nextSequence \in 0..MaxEvents /\ lastEventSeq \in -1..MaxEvents
    BY DEF Typed, TypeOK
  <2> QED BY <2>1
<1>3. \A j \in DOMAIN toClient : toClient[j].event.seq \in Int
  <2>1. Indices
    BY TypedIndices
  <2>2. \A f \in Frames : f.event.seq \in -1..(MaxEvents - 1)
    BY DEF Frames, Events
  <2> QED BY <2>1, <2>2 DEF Indices
<1>4. lastEventSeq' < nextSequence'
  BY <1>1, <1>2 DEF Numbering
<1>5. \A u, v \in Threads : numbered'[u] # NoEvent /\ numbered'[v] # NoEvent => u = v
  BY <1>1
<1>6. \A u \in Threads : numbered'[u] # NoEvent =>
       /\ lastEventSeq' < numbered'[u].seq
       /\ \A j \in DOMAIN toClient' :
            toClient'[j].kind = "event" => toClient'[j].event.seq < numbered'[u].seq
  BY <1>1 DEF Numbering
<1>7. \A j \in DOMAIN toClient' : toClient'[j].kind = "event" =>
       lastEventSeq' < toClient'[j].event.seq /\ toClient'[j].event.seq < nextSequence'
  BY <1>1, <1>2, <1>3 DEF Numbering
<1>8. \A i, j \in DOMAIN toClient' :
       i < j /\ toClient'[i].kind = "event" /\ toClient'[j].kind = "event" =>
         toClient'[i].event.seq < toClient'[j].event.seq
  BY DEF Numbering
<1> QED BY <1>4, <1>5, <1>6, <1>7, <1>8, Zenon DEF Numbering

-----------------------------------------------------------------------------
(* Pointer events are told to a client that will know it has asked for     *)
(* them.                                                                   *)
LEMMA NegotiationStays ==
  ASSUME Typed, Typed', Negotiation, UNCHANGED <<negotiated, pointerEvents>>,
         \A t \in Threads : numbered'[t] = numbered[t] \/ numbered'[t] = NoEvent,
         pipe' = "open" => pipe = "open",
         Complete, NEW g \in Frames, Extended(g),
         g.kind = "event" /\ g.method = "input/pointer-down" => pointerEvents
  PROVE  Negotiation'
<1>1. Indices /\ Indices'
  BY TypedIndices, TypedIndicesNext
<1>2. \A t \in Threads : numbered'[t].method = "input/pointer-down" => pointerEvents'
  BY DEF Negotiation, NoEvent
<1>3. pipe' = "open" /\ pointerEvents' /\ ~negotiated'
        => \E i \in DOMAIN toClient' : IsReady(toClient'[i])
  BY DEF Negotiation, Complete
<1>4. ASSUME NEW i \in DOMAIN toClient, NEW j \in DOMAIN toClient', i < j
      PROVE  i \in DOMAIN toClient' /\ toClient'[i] = toClient[i]
  <2>1. i \in DOMAIN toClient' /\ i # Len(toClient) + 1
    BY <1>1, <1>4 DEF Indices
  <2> QED BY <2>1 DEF Extended
<1>5. ASSUME NEW j \in DOMAIN toClient', toClient'[j].kind = "event",
             toClient'[j].method = "input/pointer-down"
      PROVE  /\ pointerEvents
             /\ negotiated \/ \E i \in DOMAIN toClient' : i < j /\ IsReady(toClient'[i])
  <2>1. CASE j \in DOMAIN toClient /\ toClient'[j] = toClient[j]
    <3>1. /\ pointerEvents
          /\ negotiated \/ \E i \in DOMAIN toClient : i < j /\ IsReady(toClient[i])
      BY <1>5, <2>1 DEF Negotiation
    <3>2. ASSUME NEW i \in DOMAIN toClient, i < j, IsReady(toClient[i])
          PROVE  i \in DOMAIN toClient' /\ IsReady(toClient'[i])
      <4>1. i \in DOMAIN toClient' /\ toClient'[i] = toClient[i]
        BY <1>4, <3>2
      <4> QED BY <3>2, <4>1
    <3> QED BY <3>1, <3>2
  <2>2. CASE j = Len(toClient) + 1 /\ toClient'[j] = g /\ pipe = "open"
    <3>1. pointerEvents
      BY <1>5, <2>2
    <3>2. ASSUME ~negotiated PROVE \E i \in DOMAIN toClient' : i < j /\ IsReady(toClient'[i])
      <4>1. PICK i \in DOMAIN toClient : IsReady(toClient[i])
        BY <2>2, <3>1, <3>2 DEF Negotiation
      <4>2. i < j
        BY <1>1, <2>2 DEF Indices
      <4>3. i \in DOMAIN toClient' /\ toClient'[i] = toClient[i]
        BY <1>4, <4>2
      <4> QED BY <4>1, <4>2, <4>3
    <3> QED BY <3>1, <3>2
  <2> QED BY <2>1, <2>2 DEF Extended
<1> QED BY <1>2, <1>3, <1>5 DEF Negotiation

-----------------------------------------------------------------------------
(* Who has a request: the pipe to the host, its reader, or the pipe back.  *)

LEMMA NoneIsNoRequest == "none" \notin Ids /\ NoEvent.about = "none" /\ Prefix.id = "none"
  BY ConversationAssumption DEF Ids, NoEvent, Prefix

LEMMA RestIsDistinct ==
  ASSUME Typed, OneAnswer, AnswersAreAwaited, toHost # <<>>, Rest, UNCHANGED outcome
  PROVE  /\ \A i, j \in DOMAIN toHost' : i # j => toHost'[i] # toHost'[j]
         /\ \A i \in DOMAIN toHost' :
              /\ toHost'[i] # Head(toHost) /\ toHost'[i] # numbered["reader"].about
              /\ \A j \in DOMAIN toClient : toClient[j].id # toHost'[i]
              /\ Awaited(toHost'[i])
         /\ Head(toHost) \in Ids /\ Awaited(Head(toHost)) /\ Head(toHost) # numbered["reader"].about
         /\ \A j \in DOMAIN toClient : toClient[j].id # Head(toHost)
<1>1. /\ Head(toHost) = toHost[1] /\ 1 \in DOMAIN toHost /\ Head(toHost) \in Ids
      /\ \A i \in DOMAIN toHost' : i # 0 /\ i \in Int /\ i + 1 \in DOMAIN toHost /\ toHost'[i] = toHost[i + 1]
  BY RestElements
<1>2. ASSUME NEW i \in DOMAIN toHost', NEW j \in DOMAIN toHost', i # j
      PROVE  toHost'[i] # toHost'[j]
  <2>1. i + 1 # j + 1 /\ i + 1 \in DOMAIN toHost /\ j + 1 \in DOMAIN toHost
    BY <1>1, <1>2
  <2> QED BY <1>1, <2>1 DEF OneAnswer
<1>3. ASSUME NEW i \in DOMAIN toHost'
      PROVE  \E k \in DOMAIN toHost : k # 1 /\ toHost'[i] = toHost[k]
  <2>1. i + 1 \in DOMAIN toHost /\ i + 1 # 1 /\ toHost'[i] = toHost[i + 1]
    BY <1>1
  <2> QED BY <2>1
<1>4. ASSUME NEW i \in DOMAIN toHost'
      PROVE  /\ toHost'[i] # Head(toHost) /\ toHost'[i] # numbered["reader"].about
             /\ \A j \in DOMAIN toClient : toClient[j].id # toHost'[i]
             /\ Awaited(toHost'[i])
  <2>1. PICK k \in DOMAIN toHost : k # 1 /\ toHost'[i] = toHost[k]
    BY <1>3
  <2>2. toHost[k] # toHost[1] /\ toHost[k] # numbered["reader"].about
        /\ \A j \in DOMAIN toClient : toClient[j].id # toHost[k]
    BY <1>1, <2>1 DEF OneAnswer
  <2>3. Awaited(toHost[k])
    BY DEF AnswersAreAwaited
  <2> QED BY <1>1, <2>1, <2>2, <2>3
<1> QED BY <1>1, <1>2, <1>4 DEF OneAnswer, AnswersAreAwaited

LEMMA AnswerIsWritten ==
  ASSUME Typed, OneAnswer, AnswersAreAwaited, toHost # <<>>, Rest, numbered["reader"] = NoEvent,
         UNCHANGED <<numbered, outcome>>,
         NEW g \in Frames, Extended(g), g.id = "none" \/ g.id = Head(toHost)
  PROVE  OneAnswer' /\ AnswersAreAwaited'
<1>1. /\ \A i, j \in DOMAIN toHost' : i # j => toHost'[i] # toHost'[j]
      /\ \A i \in DOMAIN toHost' :
           /\ toHost'[i] # Head(toHost) /\ toHost'[i] # numbered["reader"].about
           /\ \A j \in DOMAIN toClient : toClient[j].id # toHost'[i]
           /\ Awaited(toHost'[i]) /\ toHost'[i] # "none"
      /\ Awaited(Head(toHost))
      /\ \A j \in DOMAIN toClient : toClient[j].id # Head(toHost)
  BY RestIsDistinct, NoneIsNoRequest
<1>2. \A i, j \in DOMAIN toClient' :
        i # j /\ toClient'[i].id # "none" => toClient'[i].id # toClient'[j].id
  BY <1>1 DEF Extended, OneAnswer
<1>3. \A i \in DOMAIN toHost' : \A j \in DOMAIN toClient' : toClient'[j].id # toHost'[i]
  BY <1>1 DEF Extended
<1>4. \A j \in DOMAIN toClient' : toClient'[j].id # "none" => Awaited(toClient'[j].id)
  BY <1>1 DEF Extended, AnswersAreAwaited
<1>5. OneAnswer'
  BY <1>1, <1>2, <1>3, NoneIsNoRequest DEF OneAnswer
<1>6. AnswersAreAwaited'
  BY <1>1, <1>4, NoneIsNoRequest DEF AnswersAreAwaited, Awaited
<1> QED BY <1>5, <1>6

LEMMA EventIsWritten ==
  ASSUME Typed, OneAnswer, AnswersAreAwaited, UNCHANGED <<toHost, outcome>>,
         \A t \in Threads : numbered'[t] = numbered[t] \/ numbered'[t] = NoEvent,
         NEW g \in Frames, Extended(g),
         \/ g.id = "none"
         \/ g.id = numbered["reader"].about /\ numbered'["reader"] = NoEvent
  PROVE  OneAnswer' /\ AnswersAreAwaited'
<1>1. \A t \in Threads : numbered'[t].about = numbered[t].about \/ numbered'[t].about = "none"
  BY NoneIsNoRequest
<1>2. {"pipeline", "reader"} = Threads
  BY DEF Threads
<1>3. \A i, j \in DOMAIN toClient' :
        i # j /\ toClient'[i].id # "none" => toClient'[i].id # toClient'[j].id
  BY DEF Extended, OneAnswer
<1>4. \A i \in DOMAIN toHost : toHost[i] # "none"
  BY TypedIndices, NoneIsNoRequest DEF Indices
<1>5. \A i \in DOMAIN toHost' :
        /\ toHost'[i] # numbered'["reader"].about
        /\ \A j \in DOMAIN toClient' : toClient'[j].id # toHost'[i]
  BY <1>1, <1>2, <1>4 DEF Extended, OneAnswer
<1>6. \A j \in DOMAIN toClient' :
        toClient'[j].id # "none" => toClient'[j].id # numbered'["reader"].about
  <2>1. ASSUME NEW j \in DOMAIN toClient', toClient'[j].id # "none", numbered'["reader"].about # "none"
        PROVE  toClient'[j].id # numbered'["reader"].about
    <3>1. numbered'["reader"].about = numbered["reader"].about /\ g.id = "none"
      BY <1>1, <1>2, <2>1, NoneIsNoRequest
    <3> QED BY <2>1, <3>1 DEF Extended, OneAnswer
  <2> QED BY <2>1
<1>7. OneAnswer'
  BY <1>1, <1>2, <1>3, <1>5, <1>6 DEF OneAnswer
<1>8. \A j \in DOMAIN toClient' : toClient'[j].id # "none" => Awaited(toClient'[j].id)
  BY DEF Extended, AnswersAreAwaited
<1>9. AnswersAreAwaited'
  BY <1>1, <1>2, <1>8 DEF AnswersAreAwaited, Awaited
<1> QED BY <1>7, <1>9

(* The reader takes a request that it refuses.                             *)
LEMMA RequestIsRefused ==
  ASSUME Typed, OneAnswer, AnswersAreAwaited, toHost # <<>>, Rest, numbered["reader"] = NoEvent,
         UNCHANGED <<toClient, outcome>>,
         numbered'["reader"].about = Head(toHost),
         \A t \in Threads \ {"reader"} : numbered'[t] = NoEvent
  PROVE  OneAnswer' /\ AnswersAreAwaited'
<1>1. /\ \A i, j \in DOMAIN toHost' : i # j => toHost'[i] # toHost'[j]
      /\ \A i \in DOMAIN toHost' :
           /\ toHost'[i] # Head(toHost)
           /\ \A j \in DOMAIN toClient : toClient[j].id # toHost'[i]
           /\ Awaited(toHost'[i])
      /\ Awaited(Head(toHost))
      /\ \A j \in DOMAIN toClient : toClient[j].id # Head(toHost)
  BY RestIsDistinct
<1>2. OneAnswer'
  BY <1>1, NoneIsNoRequest DEF OneAnswer, Threads
<1>3. AnswersAreAwaited'
  BY <1>1 DEF AnswersAreAwaited, Awaited
<1> QED BY <1>2, <1>3

(* Another thread has something to tell.                                   *)
LEMMA EventIsNumbered ==
  ASSUME Typed, OneAnswer, AnswersAreAwaited, UNCHANGED <<toHost, toClient, outcome>>,
         \A t \in Threads : numbered[t] = NoEvent,
         \A t \in Threads : numbered'[t].about = "none"
  PROVE  OneAnswer' /\ AnswersAreAwaited'
<1>1. \A t \in Threads : numbered[t].about = "none" /\ numbered'[t].about = "none"
  BY NoneIsNoRequest
<1>2. {"pipeline", "reader"} = Threads
  BY DEF Threads
<1>3. OneAnswer'
  BY <1>1, <1>2 DEF OneAnswer
<1>4. AnswersAreAwaited'
  BY <1>1, <1>2 DEF AnswersAreAwaited, Awaited
<1> QED BY <1>3, <1>4

-----------------------------------------------------------------------------
(* The steps of the host.                                                  *)

LEMMA HelloStaysFirst ==
  ASSUME Typed, HelloIsFirst, UNCHANGED <<shaken, pointerEvents, outcome, requested>>,
         UNCHANGED toHost \/ (toHost # <<>> /\ Rest)
  PROVE  HelloIsFirst'
<1>1. \A i \in DOMAIN toHost' : \E k \in DOMAIN toHost : toHost'[i] = toHost[k]
  BY RestElements
<1> QED BY <1>1 DEF HelloIsFirst

(* A step that writes a frame, loses it or leaves all as it is.            *)
LEMMA FrameIsWritten ==
  ASSUME Typed, Typed', FramesFit, Negotiation, UNCHANGED <<clientVars, pointerEvents>>,
         \A t \in Threads : numbered'[t] = numbered[t] \/ numbered'[t] = NoEvent,
         Complete, pipe' = "open" => pipe = "open",
         NEW frame \in Frames, frame.kind # "prefix",
         frame.kind = "response" => frame.id # "none" /\ frame.method = Expected(frame.id),
         frame.kind = "event" =>
           frame.id = frame.event.about /\ (frame.method = "input/pointer-down" => pointerEvents),
         Extended(frame) \/ (Extended(Prefix) /\ pipe' # "open")
  PROVE  FramesFit' /\ Negotiation'
<1>1. PICK g \in Frames : Extended(g) /\ (g = frame \/ (g = Prefix /\ pipe' # "open"))
  BY NothingIsTyped
<1>2. /\ g.kind = "response" => g.id # "none" /\ g.method = Expected(g.id)
      /\ g.kind = "event" => g.id = g.event.about /\ (g.method = "input/pointer-down" => pointerEvents)
      /\ g.kind = "prefix" => pipe' # "open" /\ g.id = "none"
  <2>1. Prefix.kind = "prefix" /\ Prefix.id = "none"
    BY DEF Prefix
  <2> QED BY <1>1, <2>1
<1>3. UNCHANGED <<method, negotiated>>
  BY DEF clientVars
<1> QED BY <1>1, <1>2, <1>3, FramesStayFit, NegotiationStays

LEMMA WriteEventStep ==
  ASSUME Typed, Typed', InProtocol, socket # "closed", NEW t \in Threads, WriteEvent(t)
  PROVE  InProtocol'
<1>1. /\ numbered[t] # NoEvent /\ numbered[t] \in Events
      /\ numbered' = [numbered EXCEPT ![t] = NoEvent]
      /\ Write(EventFrame(numbered[t])) \/ UNCHANGED <<toClient, pipe>>
      /\ UNCHANGED <<clientVars, toHost, shaken, pointerEvents, listening, nextSequence>>
  BY DEF WriteEvent, Typed
<1> DEFINE frame == EventFrame(numbered[t])
<1>2. /\ frame \in Frames /\ frame.kind = "event" /\ frame.id = numbered[t].about
      /\ frame.event = numbered[t] /\ frame.method = numbered[t].method
  BY <1>1, EventsAreTyped
<1>3. /\ Complete /\ (pipe' = "open" => pipe = "open")
      /\ Extended(frame) \/ (Extended(Prefix) /\ pipe' # "open")
  <2>1. CASE Write(frame)
    BY <1>2, <2>1, WritingExtends
  <2>2. CASE UNCHANGED <<toClient, pipe>>
    BY <2>2, SameIsExtended DEF Complete
  <2> QED BY <1>1, <2>1, <2>2
<1> HIDE DEF frame
<1>4. /\ failure = "none" /\ OneAnswer /\ AnswersAreAwaited /\ FramesFit /\ HelloIsFirst /\ Negotiation
      /\ Numbering
  BY DEF InProtocol
<1>5. UNCHANGED <<failure, outcome, method, requested, negotiated, lastEventSeq>>
  BY <1>1 DEF clientVars
<1>6. \A u \in Threads : numbered'[u] = numbered[u] \/ numbered'[u] = NoEvent
  BY <1>1 DEF Typed
<1>7. PICK g \in Frames : Extended(g) /\ (g = frame \/ g = Prefix)
  BY <1>2, <1>3, NothingIsTyped
<1>8. OneAnswer' /\ AnswersAreAwaited'
  <2>1. numbered'[t] = NoEvent /\ (t # "reader" => numbered[t].about = "none")
    BY <1>1, <1>4 DEF Typed, OneAnswer, Threads
  <2>2. g.id = "none" \/ (g.id = numbered["reader"].about /\ numbered'["reader"] = NoEvent)
    BY <1>2, <1>7, <2>1, NoneIsNoRequest
  <2> QED BY <1>1, <1>4, <1>5, <1>6, <1>7, <2>2, EventIsWritten
<1>9. FramesFit' /\ Negotiation'
  <2>1. numbered[t].method = "input/pointer-down" => pointerEvents
    BY <1>4 DEF Negotiation
  <2> QED BY <1>1, <1>2, <1>3, <1>4, <1>6, <2>1, FrameIsWritten
<1>10. HelloIsFirst'
  BY <1>1, <1>4, <1>5, HelloStaysFirst
<1>11. Numbering'
  <2>1. g.kind # "event" \/ g.event = numbered[t]
    BY <1>2, <1>7 DEF Prefix
  <2> QED BY <1>1, <1>4, <1>5, <1>7, <2>1, NumberingOfEvent
<1> QED BY <1>4, <1>5, <1>8, <1>9, <1>10, <1>11 DEF InProtocol

LEMMA NumberStep ==
  ASSUME Typed, Typed', InProtocol,
         NEW t \in Threads, NEW kind \in Kinds, NEW about \in Ids \cup {"none"},
         Number(t, kind, about, TRUE),
         UNCHANGED <<clientVars, toClient, pipe, shaken, pointerEvents, listening>>,
         kind = "input/pointer-down" => pointerEvents,
         \/ about = "none" /\ UNCHANGED toHost
         \/ about = Head(toHost) /\ t = "reader" /\ toHost # <<>> /\ Rest
  PROVE  InProtocol'
<1>1. /\ \A u \in Threads : numbered[u] = NoEvent
      /\ \A u \in Threads \ {t} : numbered'[u] = NoEvent
      /\ numbered'[t].about = about /\ numbered'[t].method = kind
  BY NumbersAreTyped
<1>2. /\ failure = "none" /\ OneAnswer /\ AnswersAreAwaited /\ FramesFit /\ HelloIsFirst /\ Negotiation
      /\ Numbering
  BY DEF InProtocol
<1>3. UNCHANGED <<failure, outcome, method, requested, negotiated, lastEventSeq>>
  BY DEF clientVars
<1>4. OneAnswer' /\ AnswersAreAwaited'
  <2>1. CASE about = "none" /\ UNCHANGED toHost
    <3>1. \A u \in Threads : numbered'[u].about = "none"
      BY <1>1, <2>1, NoneIsNoRequest
    <3> QED BY <1>1, <1>2, <1>3, <2>1, <3>1, EventIsNumbered
  <2>2. CASE about = Head(toHost) /\ t = "reader" /\ toHost # <<>> /\ Rest
    BY <1>1, <1>2, <1>3, <2>2, RequestIsRefused
  <2> QED BY <2>1, <2>2
<1>5. FramesFit'
  <2>1. \A id : Expected(id)' = Expected(id)
    BY <1>3 DEF Expected
  <2> QED BY <1>2, <2>1 DEF FramesFit
<1>6. HelloIsFirst'
  BY <1>2, <1>3, HelloStaysFirst
<1>7. Negotiation'
  <2>1. \A u \in Threads : numbered'[u].method = "input/pointer-down" => pointerEvents'
    BY <1>1 DEF NoEvent
  <2> QED BY <1>2, <1>3, <2>1 DEF Negotiation
<1>8. Numbering'
  BY <1>2, <1>3, NumberingOfNumber
<1> QED BY <1>2, <1>3, <1>4, <1>5, <1>6, <1>7, <1>8 DEF InProtocol

(* A response, whole or cut off, to the request that the reader has taken. *)
LEMMA ResponseStep ==
  ASSUME Typed, Typed', InProtocol, toHost # <<>>, Rest, numbered["reader"] = NoEvent,
         UNCHANGED <<clientVars, nextSequence, numbered>>,
         Complete, pipe' = "open" => pipe = "open",
         NEW kind \in Methods \cup {"ready", "hello"},
         kind = Expected(Head(toHost)),
         \/ Extended(Response(Head(toHost), kind))
         \/ (Extended(Prefix) /\ pipe' # "open")
  PROVE  /\ failure' = "none" /\ OneAnswer' /\ AnswersAreAwaited' /\ Numbering'
         /\ FramesFit' /\ (UNCHANGED pointerEvents => Negotiation')
<1> DEFINE frame == Response(Head(toHost), kind)
<1>1. Head(toHost) \in Ids
  BY RestElements
<1>2. frame \in Frames /\ frame.kind = "response" /\ frame.id = Head(toHost) /\ frame.method = kind
  BY <1>1, ResponsesAreTyped
<1> HIDE DEF frame
<1>3. /\ failure = "none" /\ OneAnswer /\ AnswersAreAwaited /\ FramesFit /\ HelloIsFirst /\ Negotiation
      /\ Numbering
  BY DEF InProtocol
<1>4. UNCHANGED <<failure, outcome, method, requested, negotiated, lastEventSeq>>
  BY DEF clientVars
<1>5. PICK g \in Frames : Extended(g) /\ (g = frame \/ g = Prefix)
  BY <1>2, NothingIsTyped DEF frame
<1>6. (g.id = "none" \/ g.id = Head(toHost)) /\ g.kind # "event"
  BY <1>2, <1>5 DEF Prefix
<1>7. OneAnswer' /\ AnswersAreAwaited'
  BY <1>3, <1>4, <1>5, <1>6, AnswerIsWritten
<1>8. Numbering'
  BY <1>3, <1>4, <1>5, <1>6, NumberingStays
<1>f. FramesFit'
  <2>1. PICK h \in Frames : Extended(h) /\ (h = frame \/ (h = Prefix /\ pipe' # "open"))
    BY <1>2, NothingIsTyped DEF frame
  <2>2. /\ h.kind = "response" => h.id # "none" /\ h.method = Expected(h.id)
        /\ h.kind = "event" => h.id = h.event.about
        /\ h.kind = "prefix" => pipe' # "open" /\ h.id = "none"
    BY <1>1, <1>2, <2>1, NoneIsNoRequest DEF Prefix
  <2> QED BY <1>3, <1>4, <2>1, <2>2, FramesStayFit
<1>9. ASSUME UNCHANGED pointerEvents PROVE Negotiation'
  <2>1. Extended(frame) \/ (Extended(Prefix) /\ pipe' # "open")
    BY DEF frame
  <2> QED BY <1>1, <1>2, <1>3, <1>9, <2>1, FrameIsWritten, NoneIsNoRequest
<1> QED BY <1>3, <1>4, <1>7, <1>8, <1>9, <1>f

LEMMA HandleHelloStep ==
  ASSUME Typed, Typed', InProtocol, socket # "closed", HandleHello
  PROVE  InProtocol'
<1>1. /\ toHost # <<>> /\ Head(toHost) = "hello" /\ Rest /\ ~shaken /\ shaken'
      /\ pointerEvents' = requested /\ pipe = "open" /\ numbered["reader"] = NoEvent
      /\ Write(Response(Head(toHost), "ready"))
      /\ UNCHANGED <<clientVars, nextSequence, numbered>>
  BY DEF HandleHello, ReaderFree
<1>2. /\ OneAnswer /\ AnswersAreAwaited /\ HelloIsFirst /\ Negotiation
      /\ UNCHANGED <<outcome, requested, negotiated>>
  BY <1>1 DEF InProtocol, clientVars
<1> DEFINE frame == Response(Head(toHost), "ready")
<1>3. frame \in Frames /\ frame.kind = "response" /\ frame.id = "hello"
  BY <1>1, ResponsesAreTyped DEF Ids
<1>4. /\ Complete /\ (pipe' = "open" => pipe = "open")
      /\ pipe' = "open" => \E j \in DOMAIN toClient' : toClient'[j] = frame
      /\ Extended(frame) \/ (Extended(Prefix) /\ pipe' # "open")
  BY <1>1, <1>3, WritingExtends
<1>5. /\ failure' = "none" /\ OneAnswer' /\ AnswersAreAwaited' /\ Numbering' /\ FramesFit'
  <2>1. "ready" = Expected(Head(toHost))
    BY <1>1 DEF Expected
  <2> QED BY <1>1, <1>4, <2>1, ResponseStep
<1> HIDE DEF frame
<1>6. HelloIsFirst'
  <2>1. Awaited("hello") /\ \A i \in DOMAIN toHost' : toHost'[i] # "hello"
    BY <1>1, <1>2, RestIsDistinct
  <2> QED BY <1>1, <1>2, <2>1 DEF HelloIsFirst, Awaited
<1>7. Negotiation'
  <2>1. ~pointerEvents
    BY <1>1, <1>2 DEF HelloIsFirst
  <2>2. \A t \in Threads : numbered'[t].method # "input/pointer-down"
    BY <1>1, <1>2, <2>1 DEF Negotiation
  <2>3. pipe' = "open" => \E i \in DOMAIN toClient' : IsReady(toClient'[i])
    BY <1>3, <1>4 DEF IsReady
  <2>4. \A j \in DOMAIN toClient' :
          ~ (toClient'[j].kind = "event" /\ toClient'[j].method = "input/pointer-down")
    <3>1. PICK g : Extended(g) /\ g.kind # "event"
      BY <1>3, <1>4 DEF Prefix
    <3> QED BY <1>2, <2>1, <3>1 DEF Extended, Negotiation
  <2> QED BY <2>2, <2>3, <2>4 DEF Negotiation
<1> QED BY <1>5, <1>6, <1>7 DEF InProtocol

LEMMA HeadIsNotHello ==
  ASSUME Typed, HelloIsFirst, shaken, toHost # <<>>, Rest
  PROVE  Head(toHost) \in Ids /\ Head(toHost) # "hello" /\ Expected(Head(toHost)) = method[Head(toHost)]
<1>1. Head(toHost) = toHost[1] /\ 1 \in DOMAIN toHost /\ Head(toHost) \in Ids
  BY RestElements
<1> QED BY <1>1 DEF HelloIsFirst, Expected

LEMMA HandleRequestStep ==
  ASSUME Typed, Typed', InProtocol, socket # "closed", HandleRequest
  PROVE  InProtocol'
<1> DEFINE kind == method[Head(toHost)]
<1>1. /\ toHost # <<>> /\ Rest /\ shaken
      /\ pipe = "open" /\ numbered["reader"] = NoEvent
      /\ Write(Response(Head(toHost), kind))
      /\ UNCHANGED <<clientVars, shaken, pointerEvents, nextSequence, numbered>>
  BY DEF HandleRequest, ReaderFree
<1>2. HelloIsFirst /\ UNCHANGED <<outcome, requested>>
  BY <1>1 DEF InProtocol, clientVars
<1>3. Head(toHost) \in Ids /\ Expected(Head(toHost)) = kind /\ kind \in Methods \cup {"ready", "hello"}
  BY <1>1, <1>2, HeadIsNotHello DEF Typed, TypeOK
<1> HIDE DEF kind
<1>4. Response(Head(toHost), kind) \in Frames
  BY <1>3, ResponsesAreTyped
<1>5. /\ Complete /\ (pipe' = "open" => pipe = "open")
      /\ Extended(Response(Head(toHost), kind)) \/ (Extended(Prefix) /\ pipe' # "open")
  BY <1>1, <1>4, WritingExtends
<1>6. /\ failure' = "none" /\ OneAnswer' /\ AnswersAreAwaited' /\ Numbering' /\ FramesFit' /\ Negotiation'
  BY <1>1, <1>3, <1>5, ResponseStep
<1>7. HelloIsFirst'
  BY <1>1, <1>2, HelloStaysFirst
<1> QED BY <1>6, <1>7 DEF InProtocol

LEMMA HandleShutdownStep ==
  ASSUME Typed, Typed', InProtocol, socket # "closed", HandleShutdown
  PROVE  InProtocol'
<1>1. /\ toHost # <<>> /\ Rest /\ shaken /\ method[Head(toHost)] = "shutdown"
      /\ pipe = "open" /\ pipe' = "closed" /\ numbered["reader"] = NoEvent
      /\ Unread(Append(toClient, Response(Head(toHost), "shutdown")))
      /\ UNCHANGED <<clientVars, shaken, pointerEvents, nextSequence, numbered>>
  BY DEF HandleShutdown, ReaderFree
<1>2. HelloIsFirst /\ UNCHANGED <<outcome, requested>>
  BY <1>1 DEF InProtocol, clientVars
<1>3. /\ Head(toHost) \in Ids /\ Expected(Head(toHost)) = "shutdown"
      /\ "shutdown" \in Methods \cup {"ready", "hello"}
  BY <1>1, <1>2, HeadIsNotHello DEF Methods
<1>4. Response(Head(toHost), "shutdown") \in Frames
  BY <1>3, ResponsesAreTyped
<1>5. Complete /\ Extended(Response(Head(toHost), "shutdown"))
  BY <1>1, <1>4, LastAnswerExtends DEF Complete
<1>6. /\ failure' = "none" /\ OneAnswer' /\ AnswersAreAwaited' /\ Numbering' /\ FramesFit' /\ Negotiation'
  BY <1>1, <1>3, <1>5, ResponseStep
<1>7. HelloIsFirst'
  BY <1>1, <1>2, HelloStaysFirst
<1> QED BY <1>6, <1>7 DEF InProtocol

LEMMA HostClosesStep ==
  ASSUME Typed, Typed', InProtocol, HostCloses
  PROVE  InProtocol'
<1>1. /\ pipe' = "closed" /\ Unread(toClient)
      /\ UNCHANGED <<clientVars, toHost, shaken, pointerEvents, nextSequence, numbered>>
  BY DEF HostCloses
<1>2. /\ failure = "none" /\ OneAnswer /\ AnswersAreAwaited /\ FramesFit /\ HelloIsFirst /\ Negotiation
      /\ Numbering
      /\ UNCHANGED <<failure, outcome, method, requested, negotiated, lastEventSeq>>
  BY <1>1 DEF InProtocol, clientVars
<1>3. /\ Extended(Prefix) /\ Complete
      /\ Prefix \in Frames /\ Prefix.kind = "prefix" /\ Prefix.id = "none"
  BY <1>1, CutIsExtended, NothingIsTyped DEF Complete, Prefix
<1>4. OneAnswer' /\ AnswersAreAwaited'
  BY <1>1, <1>2, <1>3, EventIsWritten
<1>5. FramesFit'
  BY <1>1, <1>2, <1>3, FramesStayFit
<1>6. Negotiation'
  BY <1>1, <1>2, <1>3, NegotiationStays
<1>7. Numbering'
  BY <1>1, <1>2, <1>3, NumberingStays
<1>8. HelloIsFirst'
  BY <1>1, <1>2, HelloStaysFirst
<1> QED BY <1>2, <1>4, <1>5, <1>6, <1>7, <1>8 DEF InProtocol

LEMMA HostStep ==
  ASSUME Typed, Typed', InProtocol, socket # "closed", Host
  PROVE  InProtocol'
<1>1. CASE HandlePointerDown
  <2>1. /\ Number("pipeline", "input/pointer-down", "none", TRUE) /\ pointerEvents
        /\ UNCHANGED <<clientVars, toHost, toClient, pipe, shaken, pointerEvents, listening>>
    BY <1>1 DEF HandlePointerDown
  <2> QED BY <2>1, NumberStep DEF Threads, Kinds
<1>2. CASE SendSelection
  <2>1. PICK kind \in {"selection/result", "host/error"} : Number("pipeline", kind, "none", TRUE)
    BY <1>2, SelectionsAreValid, ErrorsAreValid DEF SendSelection
  <2>2. UNCHANGED <<clientVars, toHost, toClient, pipe, shaken, pointerEvents, listening>>
    BY <1>2 DEF SendSelection
  <2> QED BY <2>1, <2>2, NumberStep DEF Threads, Kinds
<1>3. CASE RefuseRequest
  <2>1. /\ Number("reader", "host/error", Head(toHost), TRUE) /\ toHost # <<>> /\ Rest
        /\ UNCHANGED <<clientVars, toClient, pipe, shaken, pointerEvents, listening>>
    BY <1>3, ErrorsAreValid DEF RefuseRequest
  <2>2. Head(toHost) \in Ids
    BY <2>1, RestElements
  <2> QED BY <2>1, <2>2, NumberStep DEF Threads, Kinds
<1> QED
  BY <1>1, <1>2, <1>3, WriteEventStep, HandleHelloStep, HandleRequestStep, HandleShutdownStep,
     HostClosesStep DEF Host

-----------------------------------------------------------------------------
(* The steps of the client.                                                *)

(* A frame that the client takes.                                          *)
LEMMA FrameIsTaken ==
  ASSUME Typed, Typed', InProtocol, toClient # <<>>, toClient' = Tail(toClient),
         NEW f \in Frames, f = Head(toClient),
         UNCHANGED <<failure, method, requested, toHost, hostVars>>,
         \A i \in Ids : i # f.id => outcome'[i] = outcome[i],
         outcome["hello"] # "unused" => outcome'["hello"] # "unused",
         lastEventSeq' = IF f.kind = "event" THEN f.event.seq ELSE lastEventSeq,
         pointerEvents /\ (negotiated \/ IsReady(f)) => negotiated'
  PROVE  InProtocol'
<1>0. UNCHANGED <<pipe, shaken, pointerEvents, listening, nextSequence, numbered>>
  BY DEF hostVars
<1>1. /\ failure = "none" /\ OneAnswer /\ AnswersAreAwaited /\ FramesFit /\ HelloIsFirst /\ Negotiation
      /\ Numbering
  BY DEF InProtocol
<1>2. /\ f = toClient[1] /\ 1 \in DOMAIN toClient /\ Len(toClient') = Len(toClient) - 1
      /\ \A j \in DOMAIN toClient' : j \in Int /\ 0 < j /\ j + 1 \in DOMAIN toClient /\ toClient'[j] = toClient[j + 1]
      /\ \A j \in DOMAIN toClient : j # 1 => j - 1 \in DOMAIN toClient' /\ toClient'[j - 1] = toClient[j]
  BY ReceivedElements
<1>3. Indices /\ Indices'
  BY TypedIndices, TypedIndicesNext
<1>4. \A i, j \in DOMAIN toClient' :
        i # j /\ toClient'[i].id # "none" => toClient'[i].id # toClient'[j].id
  <2>1. ASSUME NEW i \in DOMAIN toClient', NEW j \in DOMAIN toClient', i # j
        PROVE  i + 1 # j + 1
    BY <1>2, <2>1
  <2> QED BY <1>1, <1>2, <2>1 DEF OneAnswer
<1>5. OneAnswer'
  <2>1. \A i \in DOMAIN toHost' : /\ toHost'[i] # numbered'["reader"].about
                                  /\ \A j \in DOMAIN toClient' : toClient'[j].id # toHost'[i]
    BY <1>0, <1>1, <1>2 DEF OneAnswer
  <2>2. \A j \in DOMAIN toClient' :
          toClient'[j].id # "none" => toClient'[j].id # numbered'["reader"].about
    BY <1>0, <1>1, <1>2 DEF OneAnswer
  <2> QED BY <1>0, <1>1, <1>4, <2>1, <2>2 DEF OneAnswer
<1>6. AnswersAreAwaited'
  <2>1. \A i \in DOMAIN toHost' : outcome'[toHost'[i]] \in {"pending", "timed out"}
    <3>1. \A i \in DOMAIN toHost : toHost[i] \in Ids /\ toHost[i] # f.id
      BY <1>1, <1>2, <1>3 DEF OneAnswer, Indices
    <3> QED BY <1>1, <3>1 DEF AnswersAreAwaited, Awaited
  <2>2. ASSUME NEW j \in DOMAIN toClient', toClient'[j].id # "none"
        PROVE  outcome'[toClient'[j].id] \in {"pending", "timed out"}
    <3>1. j + 1 \in DOMAIN toClient /\ j + 1 # 1 /\ toClient'[j] = toClient[j + 1]
      BY <1>2
    <3>2. toClient[j + 1].id # f.id
      BY <1>1, <1>2, <2>2, <3>1 DEF OneAnswer
    <3>3. toClient[j + 1].id \in Ids
      BY <1>3, <2>2, <3>1 DEF Indices, Frames
    <3>4. outcome[toClient[j + 1].id] \in {"pending", "timed out"}
      BY <1>1, <2>2, <3>1 DEF AnswersAreAwaited, Awaited
    <3> QED BY <3>1, <3>2, <3>3, <3>4
  <2>3. ASSUME numbered'["reader"].about # "none"
        PROVE  outcome'[numbered'["reader"].about] \in {"pending", "timed out"}
    <3>1. numbered["reader"].about \in Ids
      BY <1>0, <2>3 DEF Typed, Threads, Events
    <3>2. f.id # numbered["reader"].about
      BY <1>0, <1>1, <1>2, <2>3 DEF OneAnswer
    <3> QED BY <1>0, <1>1, <2>3, <3>1, <3>2 DEF AnswersAreAwaited, Awaited
  <2> QED BY <2>1, <2>2, <2>3 DEF AnswersAreAwaited, Awaited
<1>7. FramesFit'
  <2>1. \A id : Expected(id)' = Expected(id)
    BY DEF Expected
  <2>2. ASSUME NEW j \in DOMAIN toClient', toClient'[j].kind = "prefix"
        PROVE  j = Len(toClient') /\ pipe' # "open" /\ toClient'[j].id = "none"
    <3>1. j \in Int /\ j + 1 = Len(toClient) /\ pipe # "open" /\ toClient'[j].id = "none"
      BY <1>1, <1>2, <2>2 DEF FramesFit
    <3>2. Len(toClient) \in Nat
      BY <1>3 DEF Indices
    <3> QED BY <1>0, <1>2, <3>1, <3>2
  <2>3. \A j \in DOMAIN toClient' :
          /\ toClient'[j].kind = "response" =>
               toClient'[j].id # "none" /\ toClient'[j].method = Expected(toClient'[j].id)
          /\ toClient'[j].kind = "event" => toClient'[j].id = toClient'[j].event.about
    BY <1>1, <1>2 DEF FramesFit
  <2> QED BY <2>1, <2>2, <2>3 DEF FramesFit
<1>8. HelloIsFirst'
  BY <1>0, <1>1 DEF HelloIsFirst
<1>9. Negotiation'
  <2>1. ASSUME pipe' = "open", pointerEvents', ~negotiated'
        PROVE  \E i \in DOMAIN toClient' : IsReady(toClient'[i])
    <3>1. PICK i \in DOMAIN toClient : IsReady(toClient[i])
      BY <1>0, <1>1, <2>1 DEF Negotiation
    <3>2. i # 1
      BY <1>0, <1>2, <2>1, <3>1
    <3> QED BY <1>2, <3>1, <3>2
  <2>2. ASSUME NEW j \in DOMAIN toClient', toClient'[j].kind = "event",
               toClient'[j].method = "input/pointer-down"
        PROVE  /\ pointerEvents'
               /\ negotiated' \/ \E i \in DOMAIN toClient' : i < j /\ IsReady(toClient'[i])
    <3>1. j \in Int /\ j + 1 \in DOMAIN toClient /\ toClient'[j] = toClient[j + 1]
      BY <1>2
    <3>2. /\ pointerEvents
          /\ negotiated \/ \E i \in DOMAIN toClient : i < j + 1 /\ IsReady(toClient[i])
      BY <1>1, <2>2, <3>1 DEF Negotiation
    <3>3. ASSUME NEW i \in DOMAIN toClient, i < j + 1, IsReady(toClient[i]), ~negotiated'
          PROVE  \E k \in DOMAIN toClient' : k < j /\ IsReady(toClient'[k])
      <4>1. i # 1
        BY <1>2, <3>2, <3>3
      <4>2. i \in Int
        BY <1>3 DEF Indices
      <4>3. i - 1 \in DOMAIN toClient' /\ i - 1 < j /\ IsReady(toClient'[i - 1])
        BY <1>2, <3>1, <3>3, <4>1, <4>2
      <4> QED BY <4>3
    <3> QED BY <1>0, <3>2, <3>3
  <2> QED BY <1>0, <1>1, <2>1, <2>2 DEF Negotiation
<1>10. Numbering'
  <2>1. lastEventSeq' < nextSequence'
    BY <1>0, <1>1, <1>2 DEF Numbering
  <2>2. \A t \in Threads : numbered'[t] # NoEvent =>
          /\ lastEventSeq' < numbered'[t].seq
          /\ \A j \in DOMAIN toClient' :
               toClient'[j].kind = "event" => toClient'[j].event.seq < numbered'[t].seq
    BY <1>0, <1>1, <1>2 DEF Numbering
  <2>3. \A j \in DOMAIN toClient' : toClient'[j].kind = "event" =>
          lastEventSeq' < toClient'[j].event.seq /\ toClient'[j].event.seq < nextSequence'
    <3>1. ASSUME NEW j \in DOMAIN toClient', toClient'[j].kind = "event"
          PROVE  lastEventSeq' < toClient'[j].event.seq /\ toClient'[j].event.seq < nextSequence'
      <4>1. j + 1 \in DOMAIN toClient /\ 1 < j + 1 /\ toClient'[j] = toClient[j + 1]
        BY <1>2
      <4> QED BY <1>0, <1>1, <1>2, <3>1, <4>1 DEF Numbering
    <3> QED BY <3>1
  <2>4. ASSUME NEW i \in DOMAIN toClient', NEW j \in DOMAIN toClient', i < j,
               toClient'[i].kind = "event", toClient'[j].kind = "event"
        PROVE  toClient'[i].event.seq < toClient'[j].event.seq
    <3>1. i + 1 < j + 1 /\ i + 1 \in DOMAIN toClient /\ j + 1 \in DOMAIN toClient
      BY <1>2, <2>4
    <3> QED BY <1>1, <1>2, <2>4, <3>1 DEF Numbering
  <2>5. \A t, u \in Threads : numbered'[t] # NoEvent /\ numbered'[u] # NoEvent => t = u
    BY <1>0, <1>1 DEF Numbering
  <2> QED BY <2>1, <2>2, <2>3, <2>4, <2>5 DEF Numbering
<1> QED BY <1>1, <1>5, <1>6, <1>7, <1>8, <1>9, <1>10 DEF InProtocol

(* What the client finds is not against the protocol: it takes the frame,  *)
(* or it closes, with the pipe or for an answer to what has timed out.     *)
LEMMA ReceiveStep ==
  ASSUME Typed, Typed', InProtocol, Silence, socket # "closed", Receive
  PROVE  IF socket' = "closed" THEN ConversationIsInProtocol' ELSE InProtocol'
<1>1. /\ toClient # <<>> /\ UNCHANGED <<method, requested, toHost, hostVars>>
      /\ FramesFit /\ AnswersAreAwaited /\ HelloIsFirst /\ Negotiation /\ Numbering /\ failure = "none"
  BY DEF Receive, InProtocol
<1>2. socket = "open"
  BY <1>1 DEF Silence, Typed, TypeOK
<1> DEFINE f == Head(toClient)
<1>3. f \in Frames /\ f = toClient[1] /\ 1 \in DOMAIN toClient /\ Indices
  <2>1. toClient \in Seq(Frames)
    BY DEF Typed
  <2> QED BY <1>1, <2>1, TailElements, TypedIndices DEF Indices
<1>4. ReceiveResponse(f) \/ ReceiveEvent(f) \/ ReceivePrefix(f)
  BY DEF Receive
<1> HIDE DEF f
<1>5. outcome \in [Ids -> Outcomes] /\ "hello" \in Ids
  BY DEF Typed, TypeOK, Outcomes, Ids
<1>6. CASE ReceiveResponse(f)
  <2>1. /\ f.kind = "response" /\ f.id \in Ids /\ f.method = Expected(f.id) /\ Awaited(f.id)
        /\ UNCHANGED lastEventSeq
    BY <1>1, <1>3, <1>6 DEF ReceiveResponse, FramesFit, AnswersAreAwaited, Frames
  <2>2. CASE outcome[f.id] # "pending"
    <3>1. CloseWithError("unsolicited") /\ outcome[f.id] = "timed out"
      BY <1>6, <2>1, <2>2 DEF ReceiveResponse, Awaited
    <3>2. socket' = "closed" /\ failure' = "unsolicited" /\ outcome' = RejectPending
      BY <1>2, <3>1 DEF CloseWithError
    <3>3. outcome'[f.id] = "timed out"
      BY <2>1, <3>1, <3>2 DEF RejectPending, Pending
    <3> QED BY <2>1, <3>2, <3>3 DEF ConversationIsInProtocol
  <2>3. CASE outcome[f.id] = "pending"
    <3>1. /\ outcome' = [outcome EXCEPT ![f.id] = "resolved"]
          /\ negotiated' = IF f.method = "ready" THEN requested /\ pointerEvents ELSE negotiated
          /\ toClient' = Tail(toClient)
          /\ UNCHANGED <<socket, failure>>
      BY <1>6, <2>1, <2>3 DEF ReceiveResponse
    <3>2. /\ \A i \in Ids : i # f.id => outcome'[i] = outcome[i]
          /\ outcome["hello"] # "unused" => outcome'["hello"] # "unused"
      BY <1>5, <3>1
    <3>3. pointerEvents /\ (negotiated \/ IsReady(f)) => negotiated'
      <4>1. f.id = "hello" => f.method = "ready"
        BY <2>1 DEF Expected
      <4>2. pointerEvents => requested
        BY <1>1 DEF HelloIsFirst
      <4> QED BY <3>1, <4>1, <4>2 DEF IsReady
    <3>4. lastEventSeq' = IF f.kind = "event" THEN f.event.seq ELSE lastEventSeq
      BY <2>1
    <3>5. InProtocol'
      BY <1>1, <1>3, <3>1, <3>2, <3>3, <3>4, FrameIsTaken DEF f
    <3> QED BY <1>2, <3>1, <3>5
  <2> QED BY <2>2, <2>3
<1>7. CASE ReceiveEvent(f)
  <2>1. f.kind = "event" /\ f.id = f.event.about /\ f.event.valid /\ f.event.about \in Ids \cup {"none"}
    BY <1>1, <1>3, <1>7 DEF ReceiveEvent, FramesFit, Frames, Events
  <2>2. f.method = "input/pointer-down" => negotiated
    <3>1. \A i \in DOMAIN toClient : ~ (i < 1)
      BY <1>3 DEF Indices
    <3> QED BY <1>1, <1>3, <2>1, <3>1 DEF Negotiation
  <2>3. ~ (f.event.seq <= lastEventSeq)
    <3>1. lastEventSeq < f.event.seq
      BY <1>1, <1>3, <2>1 DEF Numbering
    <3>2. lastEventSeq \in -1..MaxEvents /\ f.event.seq \in -1..(MaxEvents - 1)
      BY <1>3 DEF Frames, Events, Typed, TypeOK
    <3> QED BY <3>1, <3>2
  <2>4. /\ lastEventSeq' = f.event.seq
        /\ outcome' = [i \in Ids |-> IF i = f.event.about /\ i \in Pending THEN "rejected" ELSE outcome[i]]
        /\ toClient' = Tail(toClient)
        /\ UNCHANGED <<socket, failure, negotiated>>
    BY <1>7, <2>1, <2>2, <2>3 DEF ReceiveEvent
  <2>5. /\ \A i \in Ids : i # f.id => outcome'[i] = outcome[i]
        /\ outcome["hello"] # "unused" => outcome'["hello"] # "unused"
    BY <1>5, <2>1, <2>4
  <2>6. pointerEvents /\ (negotiated \/ IsReady(f)) => negotiated'
    BY <2>1, <2>4 DEF IsReady
  <2>7. InProtocol'
    BY <1>1, <1>3, <2>1, <2>4, <2>5, <2>6, FrameIsTaken DEF f
  <2> QED BY <1>2, <2>4, <2>7
<1>8. CASE ReceivePrefix(f)
  <2>1. f.kind = "prefix" /\ (pipe = "closed" \/ Len(toClient) > 1) /\ Len(toClient) = 1
    BY <1>1, <1>3, <1>8 DEF ReceivePrefix, FramesFit
  <2>2. CloseWithError("closed")
    BY <1>8, <2>1 DEF ReceivePrefix
  <2>3. socket' = "closed" /\ failure' = "closed"
    BY <1>2, <2>2 DEF CloseWithError
  <2> QED BY <2>3 DEF ConversationIsInProtocol
<1> QED BY <1>4, <1>6, <1>7, <1>8

(* A request that nobody has heard of is sent.                             *)
LEMMA RequestStep ==
  ASSUME Typed, Typed', InProtocol, NEW id \in Ids, Request(id)
  PROVE  InProtocol'
<1>1. /\ failure = "none" /\ OneAnswer /\ AnswersAreAwaited /\ FramesFit /\ HelloIsFirst /\ Negotiation
      /\ Numbering
  BY DEF InProtocol
<1>2. /\ outcome[id] = "unused" /\ outcome' = [outcome EXCEPT ![id] = "pending"]
      /\ toHost' = Append(toHost, id)
      /\ UNCHANGED <<failure, negotiated, lastEventSeq, toClient>>
      /\ UNCHANGED <<pipe, shaken, pointerEvents, listening, nextSequence, numbered>>
  BY DEF Request, hostVars
<1>3. /\ outcome \in [Ids -> Outcomes] /\ method \in [Ids -> Methods \cup {"hello"}]
      /\ toHost \in Seq(Ids)
  BY DEF Typed, TypeOK, Outcomes
<1>4. /\ id = "hello" => UNCHANGED method
      /\ id # "hello" => UNCHANGED requested /\ \E m \in Methods : method' = [method EXCEPT ![id] = m]
  BY DEF Request
<1>5. /\ Len(toHost) \in Nat /\ DOMAIN toHost = 1..Len(toHost) /\ DOMAIN toHost' = 1..Len(toHost) + 1
      /\ \A i \in DOMAIN toHost : toHost'[i] = toHost[i]
      /\ toHost'[Len(toHost) + 1] = id
  BY <1>2, <1>3, AppendElements
<1>6. \A i \in DOMAIN toHost' : \/ i \in DOMAIN toHost /\ toHost'[i] = toHost[i]
                                \/ i = Len(toHost) + 1 /\ toHost'[i] = id
  BY <1>5
<1>7. /\ \A i \in DOMAIN toHost : toHost[i] # id
      /\ \A j \in DOMAIN toClient : toClient[j].id # id
      /\ numbered["reader"].about # id
  BY <1>1, <1>2, NoneIsNoRequest DEF AnswersAreAwaited, Awaited
<1>8. OneAnswer'
  <2>1. \A i, j \in DOMAIN toHost' : i # j => toHost'[i] # toHost'[j]
    BY <1>1, <1>6, <1>7 DEF OneAnswer
  <2>2. \A i \in DOMAIN toHost' : /\ toHost'[i] # numbered'["reader"].about
                                  /\ \A j \in DOMAIN toClient' : toClient'[j].id # toHost'[i]
    BY <1>1, <1>2, <1>6, <1>7 DEF OneAnswer
  <2> QED BY <1>1, <1>2, <2>1, <2>2 DEF OneAnswer
<1>9. AnswersAreAwaited'
  <2>1. \A i \in Ids : Awaited(i) => outcome'[i] \in {"pending", "timed out"}
    BY <1>2, <1>3 DEF Awaited
  <2>2. \A i \in DOMAIN toHost' : outcome'[toHost'[i]] \in {"pending", "timed out"}
    <3>1. \A i \in DOMAIN toHost : toHost[i] \in Ids /\ Awaited(toHost[i])
      BY <1>1, TypedIndices DEF AnswersAreAwaited, Indices
    <3>2. outcome'[id] = "pending"
      BY <1>2, <1>3
    <3> QED BY <1>6, <2>1, <3>1, <3>2
  <2>3. \A j \in DOMAIN toClient' :
          toClient'[j].id # "none" => outcome'[toClient'[j].id] \in {"pending", "timed out"}
    <3>1. \A j \in DOMAIN toClient : toClient[j].id \in Ids \cup {"none"}
      BY TypedIndices DEF Indices, Frames
    <3> QED BY <1>1, <1>2, <2>1, <3>1 DEF AnswersAreAwaited
  <2>4. numbered'["reader"].about # "none" => outcome'[numbered'["reader"].about] \in {"pending", "timed out"}
    <3>1. numbered["reader"].about \in Ids \cup {"none"}
      BY DEF Typed, Threads, Events
    <3> QED BY <1>1, <1>2, <2>1, <3>1 DEF AnswersAreAwaited
  <2> QED BY <2>2, <2>3, <2>4 DEF AnswersAreAwaited, Awaited
<1>10. FramesFit'
  <2>1. \A i \in Ids : i # id => Expected(i)' = Expected(i)
    BY <1>3, <1>4 DEF Expected
  <2>2. \A j \in DOMAIN toClient : toClient[j].id # id /\ toClient[j].id \in Ids \cup {"none"}
    BY <1>7, TypedIndices DEF Indices, Frames
  <2> QED BY <1>1, <1>2, <2>1, <2>2 DEF FramesFit
<1>11. HelloIsFirst'
  <2>1. shaken => id # "hello"
    BY <1>1, <1>2 DEF HelloIsFirst
  <2>2. outcome["hello"] # "unused" => outcome'["hello"] # "unused"
    BY <1>2, <1>3
  <2> QED BY <1>1, <1>2, <1>4, <1>6, <2>1, <2>2 DEF HelloIsFirst
<1>12. Negotiation'
  BY <1>1, <1>2 DEF Negotiation
<1>13. Numbering'
  BY <1>1, <1>2 DEF Numbering
<1>14. failure' = "none"
  BY <1>1, <1>2
<1> QED BY <1>8, <1>9, <1>10, <1>11, <1>12, <1>13, <1>14, StillInProtocol

(* Nothing of all this depends on the socket's state.                      *)
LEMMA UntouchedStep ==
  ASSUME InProtocol,
         UNCHANGED <<failure, outcome, method, requested, negotiated, lastEventSeq>>,
         UNCHANGED <<toHost, toClient, pipe, shaken, pointerEvents, listening, nextSequence, numbered>>
  PROVE  InProtocol'
<1>1. OneAnswer' /\ AnswersAreAwaited' /\ HelloIsFirst'
  <2>1. OneAnswer'
    BY DEF InProtocol, OneAnswer
  <2>2. AnswersAreAwaited'
    BY DEF InProtocol, AnswersAreAwaited, Awaited
  <2>3. HelloIsFirst'
    BY DEF InProtocol, HelloIsFirst
  <2> QED BY <2>1, <2>2, <2>3
<1>2. FramesFit'
  <2>1. \A id : Expected(id)' = Expected(id)
    BY DEF Expected
  <2> QED BY <2>1 DEF InProtocol, FramesFit
<1>3. Negotiation' /\ Numbering'
  BY DEF InProtocol, Negotiation, Numbering
<1> QED BY <1>1, <1>2, <1>3 DEF InProtocol

(* One that is not answered in time is still awaited.                      *)
LEMMA RequestTimesOutStep ==
  ASSUME Typed, InProtocol, NEW id \in Ids, RequestTimesOut(id)
  PROVE  InProtocol'
<1>1. /\ failure = "none" /\ OneAnswer /\ AnswersAreAwaited /\ FramesFit /\ HelloIsFirst /\ Negotiation
      /\ Numbering
  BY DEF InProtocol
<1>2. /\ outcome[id] = "pending" /\ outcome' = [outcome EXCEPT ![id] = "timed out"]
      /\ UNCHANGED <<failure, method, requested, negotiated, lastEventSeq, toHost, toClient>>
      /\ UNCHANGED <<pipe, shaken, pointerEvents, listening, nextSequence, numbered>>
  BY DEF RequestTimesOut, hostVars
<1>3. outcome \in [Ids -> Outcomes]
  BY DEF Typed, TypeOK, Outcomes
<1>4. \A i \in Ids : Awaited(i) => outcome'[i] \in {"pending", "timed out"}
  BY <1>2, <1>3 DEF Awaited
<1>5. AnswersAreAwaited'
  <2>1. /\ \A i \in DOMAIN toHost : toHost[i] \in Ids
        /\ \A j \in DOMAIN toClient : toClient[j].id \in Ids \cup {"none"}
    BY TypedIndices DEF Indices, Frames
  <2>2. numbered["reader"].about \in Ids \cup {"none"}
    BY DEF Typed, Threads, Events
  <2>3. /\ \A i \in DOMAIN toHost' : outcome'[toHost'[i]] \in {"pending", "timed out"}
        /\ \A j \in DOMAIN toClient' :
             toClient'[j].id # "none" => outcome'[toClient'[j].id] \in {"pending", "timed out"}
    BY <1>1, <1>2, <1>4, <2>1 DEF AnswersAreAwaited
  <2>4. numbered'["reader"].about # "none" => outcome'[numbered'["reader"].about] \in {"pending", "timed out"}
    BY <1>1, <1>2, <1>4, <2>2 DEF AnswersAreAwaited
  <2> QED BY <2>3, <2>4 DEF AnswersAreAwaited, Awaited
<1>6. HelloIsFirst'
  <2>1. outcome["hello"] # "unused" => outcome'["hello"] # "unused"
    BY <1>2, <1>3 DEF Ids
  <2> QED BY <1>1, <1>2, <2>1 DEF HelloIsFirst
<1>7. FramesFit'
  BY <1>1, <1>2 DEF FramesFit, Expected
<1>8. OneAnswer' /\ Negotiation' /\ Numbering'
  <2>1. OneAnswer'
    <3>1. OneAnswer /\ toHost' = toHost /\ toClient' = toClient /\ numbered' = numbered
      BY <1>1, <1>2
    <3> QED BY <3>1 DEF OneAnswer
  <2>2. Negotiation'
    BY <1>1, <1>2 DEF Negotiation
  <2>3. Numbering'
    BY <1>1, <1>2 DEF Numbering
  <2> QED BY <2>1, <2>2, <2>3
<1>9. failure' = "none"
  BY <1>1, <1>2
<1> QED BY <1>5, <1>6, <1>7, <1>8, <1>9, StillInProtocol

(* A client that was not closed keeps to the protocol, whether it closes   *)
(* or not.                                                                 *)
LEMMA ClientStep ==
  ASSUME Typed, Typed', InProtocol, Silence, socket # "closed", Client
  PROVE  IF socket' = "closed" THEN ConversationIsInProtocol' ELSE InProtocol'
<1>0. failure = "none"
  BY DEF InProtocol
<1>1. CASE Connect \/ Connected
  <2>1. /\ UNCHANGED <<failure, outcome, method, requested, negotiated, lastEventSeq>>
        /\ UNCHANGED <<toHost, toClient, pipe, shaken, pointerEvents, listening, nextSequence, numbered>>
        /\ socket' # "closed"
    BY <1>1 DEF Connect, Connected, hostVars
  <2>2. InProtocol'
    BY <2>1, UntouchedStep
  <2> QED BY <2>1, <2>2
<1>2. CASE ConnectFails \/ Close \/ PipeClosed
  <2>1. socket' = "closed" /\ failure' \in {"none", "closed"}
    BY <1>0, <1>2 DEF ConnectFails, Close, PipeClosed
  <2> QED BY <2>1 DEF ConversationIsInProtocol
<1>3. ASSUME NEW id \in Ids, Request(id)
      PROVE  IF socket' = "closed" THEN ConversationIsInProtocol' ELSE InProtocol'
  <2>1. socket' # "closed"
    BY <1>3 DEF Request
  <2> QED BY <1>3, <2>1, RequestStep
<1>4. ASSUME NEW id \in Ids, RequestTimesOut(id)
      PROVE  IF socket' = "closed" THEN ConversationIsInProtocol' ELSE InProtocol'
  <2>1. socket' # "closed"
    BY <1>4 DEF RequestTimesOut
  <2> QED BY <1>4, <2>1, RequestTimesOutStep
<1> QED BY <1>1, <1>2, <1>3, <1>4, ReceiveStep DEF Client

(* A client that has closed finds nothing more.                            *)
LEMMA ClosedStep ==
  ASSUME Typed, ConversationIsInProtocol, socket = "closed", [Next]_vars
  PROVE  socket' = "closed" /\ ConversationIsInProtocol'
<1>0. outcome \in [Ids -> Outcomes]
  BY DEF Typed, TypeOK, Outcomes
<1>1. /\ socket' = "closed" /\ failure' = failure
      /\ \A i \in Ids : outcome[i] = "timed out" => outcome'[i] = "timed out"
  <2>1. CASE Host \/ UNCHANGED vars
    <3>1. UNCHANGED clientVars
      BY <2>1 DEF Host, WriteEvent, HandlePointerDown, SendSelection, HandleHello, HandleRequest,
         RefuseRequest, HandleShutdown, HostCloses, vars
    <3> QED BY <3>1 DEF clientVars
  <2>2. CASE Connect \/ Connected \/ ConnectFails \/ Close \/ PipeClosed \/ \E id \in Ids : Request(id)
    BY <2>2 DEF Connect, Connected, ConnectFails, Close, PipeClosed, Request
  <2>3. ASSUME NEW id \in Ids, RequestTimesOut(id)
        PROVE  /\ socket' = "closed" /\ failure' = failure
               /\ \A i \in Ids : outcome[i] = "timed out" => outcome'[i] = "timed out"
    BY <1>0, <2>3 DEF RequestTimesOut
  <2>4. CASE Receive
    <3> DEFINE f == Head(toClient)
    <3>1. ReceiveResponse(f) \/ ReceiveEvent(f) \/ ReceivePrefix(f)
      BY <2>4 DEF Receive
    <3> HIDE DEF f
    <3>2. \A reason : CloseWithError(reason) => UNCHANGED <<socket, failure, outcome>>
      BY DEF CloseWithError
    <3>3. CASE ReceiveResponse(f)
      <4>1. \/ UNCHANGED <<socket, failure, outcome>>
            \/ /\ outcome[f.id] = "pending" /\ outcome' = [outcome EXCEPT ![f.id] = "resolved"]
               /\ UNCHANGED <<socket, failure>>
        BY <3>2, <3>3 DEF ReceiveResponse
      <4> QED BY <1>0, <4>1
    <3>4. CASE ReceiveEvent(f)
      <4>1. \/ UNCHANGED <<socket, failure, outcome>>
            \/ /\ outcome' = [i \in Ids |-> IF i = f.event.about /\ i \in Pending
                                            THEN "rejected" ELSE outcome[i]]
               /\ UNCHANGED <<socket, failure>>
        BY <3>2, <3>4 DEF ReceiveEvent
      <4> QED BY <1>0, <4>1 DEF Pending
    <3>5. CASE ReceivePrefix(f)
      BY <3>2, <3>5 DEF ReceivePrefix
    <3> QED BY <3>1, <3>3, <3>4, <3>5
  <2> QED BY <2>1, <2>2, <2>3, <2>4 DEF Next, Client
<1> QED BY <1>1 DEF ConversationIsInProtocol

(* Nobody speaks before the client has connected.                          *)
LEMMA SilenceStep ==
  ASSUME Typed, Silence, [Next]_vars
  PROVE  Silence'
<1> SUFFICES ASSUME socket' \in {"none", "connecting"}
             PROVE  /\ toHost' = <<>> /\ toClient' = <<>> /\ ~listening'
                    /\ \A t \in Threads : numbered'[t] = NoEvent
  BY DEF Silence
<1>1. CASE socket \notin {"none", "connecting"}
  <2>1. socket' = socket \/ socket' = "closed"
    <3>1. CASE Host \/ UNCHANGED vars
      BY <3>1 DEF Host, WriteEvent, HandlePointerDown, SendSelection, HandleHello, HandleRequest,
         RefuseRequest, HandleShutdown, HostCloses, vars, clientVars
    <3>2. CASE Client
      BY <1>1, <3>2 DEF Client, Connect, Connected, ConnectFails, Close, PipeClosed, Request,
         RequestTimesOut, Receive, ReceiveResponse, ReceiveEvent, ReceivePrefix, CloseWithError
    <3> QED BY <3>1, <3>2 DEF Next
  <2> QED BY <1>1, <2>1
<1>2. CASE socket \in {"none", "connecting"}
  <2>1. /\ toHost = <<>> /\ toClient = <<>> /\ ~listening
        /\ \A t \in Threads : numbered[t] = NoEvent
    BY <1>2 DEF Silence
  <2>2. CASE Client
    <3>1. ~Close /\ ~PipeClosed /\ ~Receive /\ \A id \in Ids : ~Request(id)
      BY <1>2, <2>1 DEF Close, PipeClosed, Receive, Request
    <3>2. UNCHANGED <<toHost, toClient, hostVars>>
      BY <2>2, <3>1 DEF Client, Connect, Connected, ConnectFails, RequestTimesOut
    <3> QED BY <2>1, <3>2 DEF hostVars
  <2>3. CASE HostCloses
    <3>1. Unread(toClient) /\ ~listening' /\ UNCHANGED <<toHost, numbered>>
      BY <2>3, Zenon DEF HostCloses
    <3>2. toClient' = <<>>
      <4>1. PICK n \in 0..Len(<<>>) : toClient' = SubSeq(<<>>, 1, n)
        BY <2>1, <3>1 DEF Unread
      <4> QED BY <4>1
    <3> QED BY <2>1, <3>1, <3>2
  <2>4. CASE Host /\ ~HostCloses
    BY <2>1, <2>4 DEF Host, WriteEvent, HandlePointerDown, SendSelection, HandleHello, HandleRequest,
       RefuseRequest, HandleShutdown
  <2>5. CASE UNCHANGED vars
    BY <2>1, <2>5 DEF vars, hostVars
  <2> QED BY <2>2, <2>3, <2>4, <2>5 DEF Next
<1> QED BY <1>1, <1>2

-----------------------------------------------------------------------------
LEMMA ConversationStarts == Init => ConversationInv
<1> SUFFICES ASSUME Init PROVE ConversationInv
  OBVIOUS
<1>1. Typed
  <2>1. NoEvent \in Events /\ ConversationAssumption /\ "none" \in Failures
    BY NothingIsTyped, ConversationAssumption DEF Failures
  <2>2. toHost \in Seq(Ids) /\ toClient \in Seq(Frames)
    BY DEF Init
  <2>3. -1 \in -1..MaxEvents /\ 0 \in 0..MaxEvents
    BY ConversationAssumption
  <2>4. ClientTyped
    BY <2>1, <2>3 DEF Init, ClientTyped, Outcomes
  <2>5. HostTyped
    BY <2>1, <2>2, <2>3 DEF Init, HostTyped
  <2> QED BY <2>2, <2>4, <2>5, TypedParts
<1>2. InProtocol
  <2>1. toHost = <<>> /\ toClient = <<>> /\ DOMAIN toHost = {} /\ DOMAIN toClient = {}
    BY DEF Init
  <2>2. /\ failure = "none" /\ ~shaken /\ ~pointerEvents /\ lastEventSeq = -1 /\ nextSequence = 0
    BY DEF Init
  <2>3. \A t \in Threads : numbered[t] = NoEvent
    BY DEF Init
  <2>4. {"pipeline", "reader"} = Threads /\ NoEvent.about = "none"
        /\ NoEvent.method # "input/pointer-down"
    BY DEF Threads, NoEvent
  <2>5. OneAnswer /\ AnswersAreAwaited /\ FramesFit /\ HelloIsFirst
    BY <2>1, <2>2, <2>3, <2>4 DEF OneAnswer, AnswersAreAwaited, FramesFit, HelloIsFirst
  <2>6. Negotiation /\ Numbering
    BY <2>1, <2>2, <2>3, <2>4 DEF Negotiation, Numbering
  <2> QED BY <2>2, <2>5, <2>6 DEF InProtocol
<1>3. Silence /\ socket # "closed"
  BY DEF Init, Silence
<1> QED BY <1>1, <1>2, <1>3 DEF ConversationInv

LEMMA ConversationStep == ConversationInv /\ [Next]_vars => ConversationInv'
<1> SUFFICES ASSUME ConversationInv, [Next]_vars PROVE ConversationInv'
  OBVIOUS
<1>1. Typed /\ Typed' /\ Silence /\ Silence'
  BY TypedStep, SilenceStep DEF ConversationInv
<1>2. CASE socket = "closed"
  BY <1>1, <1>2, ClosedStep DEF ConversationInv
<1>3. CASE socket # "closed"
  <2>1. InProtocol
    BY <1>3 DEF ConversationInv
  <2>2. CASE Host
    <3>1. InProtocol' /\ socket' = socket
      <4>1. socket' = socket
        BY <2>2 DEF Host, WriteEvent, HandlePointerDown, SendSelection, HandleHello, HandleRequest,
           RefuseRequest, HandleShutdown, HostCloses, clientVars
      <4> QED BY <1>1, <1>3, <2>1, <2>2, <4>1, HostStep
    <3> QED BY <1>1, <1>3, <3>1 DEF ConversationInv
  <2>3. CASE Client
    BY <1>1, <1>3, <2>1, <2>3, ClientStep DEF ConversationInv
  <2>4. CASE UNCHANGED vars
    <3>1. InProtocol' /\ socket' = socket
      BY <2>1, <2>4, UntouchedStep DEF vars, clientVars, hostVars
    <3> QED BY <1>1, <1>3, <3>1 DEF ConversationInv
  <2> QED BY <2>2, <2>3, <2>4 DEF Next
<1> QED BY <1>2, <1>3

(* Whatever the threads of the host, the pipe and the client's timers do,  *)
(* the client never takes the host for one that breaks the protocol: it    *)
(* gives up only with the pipe or for an answer that came too late.        *)
THEOREM ProtocolStaysKept == Spec => []ProtocolIsKept
<1>1. ConversationInv => ProtocolIsKept
  <2>1. InProtocol => ConversationIsInProtocol
    BY DEF InProtocol, ConversationIsInProtocol
  <2> QED BY <2>1 DEF ConversationInv, ProtocolIsKept, Typed
<1> QED BY <1>1, ConversationStarts, ConversationStep, PTL DEF Spec

=============================================================================
