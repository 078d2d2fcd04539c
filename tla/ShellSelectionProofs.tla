------------------------ MODULE ShellSelectionProofs ------------------------
(***************************************************************************)
(* The selection host does what the switch says, however users, displays,  *)
(* timers, losses and a reset of the local data meet, for any number of    *)
(* commands and launches.                                                  *)
(*                                                                         *)
(* The invariant has two layers.  Control says what may be on its way: a   *)
(* command that runs on a client waits for exactly one answer, of a kind   *)
(* that fits it; only the chain starts the host; one reset at most waits   *)
(* in the chain, or is past it with no client left.  Agreement says where  *)
(* the host is heading: with the switch on, a start or a restart comes     *)
(* that no later stop undoes, and with the settings' activation; with the  *)
(* switch off, a stop comes, or the host is silent and nobody starts it.   *)
(* It holds of a client none of whose timers has fired and that no reset   *)
(* waits for.                                                              *)
(***************************************************************************)
EXTENDS ShellSelection, WellFoundedInduction, TLAPS

(* The requests of the running command, and those whose timer has fired.   *)
OfChain(queue) == {i \in DOMAIN queue : queue[i].by = "chain"}
Abandoned(queue) == \E i \in DOMAIN queue : queue[i].by = "nobody"

(* A command that runs on a client waits for one answer.                   *)
OneAsked ==
  /\ \A i, j \in OfChain(requests) : i = j
  /\ \A i, j \in OfChain(replies) : i = j
  /\ OfChain(requests) = {} \/ OfChain(replies) = {}
  /\ chain = <<>> => OfChain(requests) = {} /\ OfChain(replies) = {}
  /\ client # 0 /\ chain # <<>> => OfChain(requests) # {} \/ OfChain(replies) # {}

(* It is an answer to what the command asks; nobody but the chain starts   *)
(* the host.                                                               *)
StartsAreTheChains(asked, answered) ==
  /\ \A i \in DOMAIN asked : asked[i].method = "start" => asked[i].by \in {"chain", "nobody"}
  /\ \A i \in DOMAIN answered :
       answered[i].method \in {"start", "refused"} => answered[i].by \in {"chain", "nobody"}

AnswersFit ==
  /\ \A i \in OfChain(requests) :
       requests[i].method \in IF Starts(chain[1]) THEN {"start", "health"} ELSE {"stop"}
  /\ \A i \in OfChain(replies) :
       replies[i].method \in IF Starts(chain[1]) THEN {"start", "health", "refused"} ELSE {"stop"}
  /\ StartsAreTheChains(requests, replies)

(* One reset at a time; once it is past the chain, nothing is asked.       *)
OneReset(queue) ==
  \A i, j \in DOMAIN queue : queue[i].kind = "reset" /\ queue[j].kind = "reset" => i = j

Resets ==
  /\ \A i \in DOMAIN chain : chain[i].kind = "reset" => reset = "chained"
  /\ OneReset(chain)
  /\ reset \in {"stopping", "done"} => chain = <<>> /\ client = 0

CommandsFit == client # 0 => \A i \in DOMAIN chain : chain[i].client = client

ChainInv ==
  /\ chain \in Seq(Commands) /\ requests \in Seq(Requests) /\ replies \in Seq(Replies)
  /\ lifecycle \in Lifecycles /\ reset \in {"no", "chained", "stopping", "done"}
  /\ OneAsked /\ AnswersFit /\ Resets /\ CommandsFit

(* A client has its process; nothing is left over for the next one.        *)
HostInv ==
  /\ client # 0 => host = "up"
  /\ host # "up" => \A i \in DOMAIN requests : requests[i].by = "chain"
  /\ host = "launching" => chain = <<>> /\ replies = <<>>
  /\ host \in {"exited", "launching"} => ~listening
  /\ host = "up" /\ Abandoned(requests) => failed

OthersTyped ==
  /\ enabled \in BOOLEAN /\ ocr \in OcrActivations
  /\ client \in 0..MaxLaunches
  /\ host \in {"launching", "up", "killed", "exited", "given up", "stopped"}
  /\ launches \in 0..MaxLaunches
  /\ listening \in BOOLEAN /\ hostOcr \in OcrActivations
  /\ card \in BOOLEAN /\ failed \in BOOLEAN
  /\ commands \in 0..MaxCommands
  /\ host = "exited" => launches < MaxLaunches

Control == OthersTyped /\ ChainInv /\ HostInv

-----------------------------------------------------------------------------
(* Sequences.                                                              *)

LEMMA AppendElements ==
  ASSUME NEW S, NEW s \in Seq(S), NEW e \in S
  PROVE  /\ Append(s, e) \in Seq(S) /\ Append(s, e) # <<>>
         /\ Len(Append(s, e)) = Len(s) + 1 /\ Len(s) \in Nat
         /\ DOMAIN s = 1..Len(s) /\ DOMAIN Append(s, e) = 1..Len(s) + 1
         /\ \A i \in DOMAIN s : Append(s, e)[i] = s[i]
         /\ Append(s, e)[Len(s) + 1] = e
  OBVIOUS

LEMMA TailElements ==
  ASSUME NEW S, NEW s \in Seq(S), s # <<>>
  PROVE  /\ Tail(s) \in Seq(S) /\ Head(s) = s[1] /\ s[1] \in S
         /\ Len(Tail(s)) = Len(s) - 1 /\ Len(s) \in Nat \ {0}
         /\ DOMAIN s = 1..Len(s) /\ DOMAIN Tail(s) = 1..Len(s) - 1
         /\ \A i \in DOMAIN Tail(s) : Tail(s)[i] = s[i + 1]
  OBVIOUS

LEMMA SuffixElements ==
  ASSUME NEW S, NEW s \in Seq(S), NEW n \in 1..Len(s) + 1
  PROVE  /\ SubSeq(s, n, Len(s)) \in Seq(S)
         /\ Len(SubSeq(s, n, Len(s))) = Len(s) - n + 1 /\ Len(s) \in Nat
         /\ DOMAIN s = 1..Len(s) /\ DOMAIN SubSeq(s, n, Len(s)) = 1..Len(s) - n + 1
         /\ \A i \in DOMAIN SubSeq(s, n, Len(s)) : SubSeq(s, n, Len(s))[i] = s[n + i - 1]
  OBVIOUS

LEMMA ReplaceHead ==
  ASSUME NEW S, NEW s \in Seq(S), s # <<>>, NEW e \in S
  PROVE  /\ <<e>> \o Tail(s) \in Seq(S)
         /\ DOMAIN (<<e>> \o Tail(s)) = DOMAIN s /\ Len(<<e>> \o Tail(s)) = Len(s)
         /\ (<<e>> \o Tail(s))[1] = e
         /\ \A i \in DOMAIN s : i > 1 => (<<e>> \o Tail(s))[i] = s[i]
  OBVIOUS

(* The least of the numbers of a queue.                                    *)
LEMMA LeastOf ==
  ASSUME NEW S \in SUBSET Nat, S # {}
  PROVE  Min(S) \in S /\ \A i \in S : Min(S) <= i
<1>1. PICK n \in S : \A k \in S : ~(<<k, n>> \in OpToRel(<, Nat))
  BY WFMin, NatLessThanWellFounded
<1>2. \A k \in S : ~(k < n)
  BY <1>1 DEF OpToRel
<1>3. n \in S /\ \A k \in S : n <= k
  BY <1>2
<1> QED BY <1>3 DEF Min

-----------------------------------------------------------------------------
(* The chain goes on.                                                      *)

AskOf(command) == Asked(IF Starts(command) THEN "start" ELSE "stop", "chain")

(* Commands up to the n-th end, that one asks.                             *)
LEMMA ChainGoesOn ==
  ASSUME NEW queue \in Seq(Commands), OneReset(queue), NEW sent, NEW shown,
         GoOn(queue, sent, shown)
  PROVE  \E n \in 1..Len(queue) + 1 :
           /\ \A i \in DOMAIN queue : i < n => ~Asks(queue[i])
           /\ n <= Len(queue) => Asks(queue[n])
           /\ chain' = SubSeq(queue, n, Len(queue))
           /\ requests' = IF n <= Len(queue) THEN Append(sent, AskOf(queue[n])) ELSE sent
           /\ (\E i \in DOMAIN queue : i < n /\ queue[i].kind = "reset") => reset' = "stopping"
           /\ ~(\E i \in DOMAIN queue : i < n /\ queue[i].kind = "reset") =>
                reset' = IF \E i \in DOMAIN queue : queue[i].kind = "reset" THEN "chained" ELSE reset
<1> DEFINE asking == {i \in DOMAIN queue : Asks(queue[i])}
<1> DEFINE next == IF asking = {} THEN Len(queue) + 1 ELSE Min(asking)
<1> DEFINE ended == {queue[i].kind : i \in 1..(next - 1)}
<1>1. DOMAIN queue = 1..Len(queue) /\ Len(queue) \in Nat
  OBVIOUS
<1>2. asking # {} => Min(asking) \in asking /\ \A i \in asking : Min(asking) <= i
  <2>1. asking \in SUBSET Nat
    BY <1>1
  <2> QED BY <2>1, LeastOf
<1>3. /\ chain' = SubSeq(queue, next, Len(queue))
      /\ requests' = IF asking = {} THEN sent ELSE Append(sent, AskOf(queue[next]))
      /\ reset' = CASE "reset" \in ended -> "stopping"
                    [] \E i \in next..Len(queue) : queue[i].kind = "reset" -> "chained"
                    [] OTHER -> reset
  BY DEF GoOn, AskOf
<1>4. /\ next \in 1..Len(queue) + 1 /\ (next <= Len(queue) <=> asking # {})
      /\ next <= Len(queue) => Asks(queue[next])
      /\ \A i \in DOMAIN queue : i < next => ~Asks(queue[i])
  <2> HIDE DEF asking
  <2>1. asking \subseteq DOMAIN queue /\ \A i \in DOMAIN queue : i \in asking <=> Asks(queue[i])
    BY DEF asking
  <2> QED BY <1>1, <1>2, <2>1
<1> HIDE DEF next, asking
<1>5. "reset" \in ended <=> \E i \in DOMAIN queue : i < next /\ queue[i].kind = "reset"
  BY <1>1, <1>4
<1> HIDE DEF ended
<1>6. requests' = IF next <= Len(queue) THEN Append(sent, AskOf(queue[next])) ELSE sent
  BY <1>3, <1>4
<1>7. "reset" \notin ended =>
        reset' = IF \E i \in DOMAIN queue : queue[i].kind = "reset" THEN "chained" ELSE reset
  BY <1>1, <1>3, <1>4, <1>5
<1>8. "reset" \in ended => reset' = "stopping"
  <2>1. "reset" \in ended => ~\E i \in next..Len(queue) : queue[i].kind = "reset"
    BY <1>1, <1>4, <1>5 DEF OneReset
  <2> QED BY <1>3, <2>1
<1> QED BY <1>3, <1>4, <1>5, <1>6, <1>7, <1>8

(* What the lemma above means for the chain.                               *)
LEMMA GoneOn ==
  ASSUME NEW queue \in Seq(Commands), OneReset(queue), NEW sent \in Seq(Requests),
         NEW shown \in Lifecycles, GoOn(queue, sent, shown),
         ocr' \in OcrActivations, replies' \in Seq(Replies),
         OfChain(sent) = {}, OfChain(replies') = {}, StartsAreTheChains(sent, replies'),
         client' # 0 => \A i \in DOMAIN queue : queue[i].client = client',
         reset \in {"no", "chained", "stopping", "done"},
         reset \in {"stopping", "done"} => client' = 0
  PROVE  /\ ChainInv'
         /\ client' = 0 => chain' = <<>> /\ requests' = sent
         /\ Abandoned(requests') <=> Abandoned(sent)
<1>1. PICK n \in 1..Len(queue) + 1 :
        /\ \A i \in DOMAIN queue : i < n => ~Asks(queue[i])
        /\ n <= Len(queue) => Asks(queue[n])
        /\ chain' = SubSeq(queue, n, Len(queue))
        /\ requests' = IF n <= Len(queue) THEN Append(sent, AskOf(queue[n])) ELSE sent
        /\ (\E i \in DOMAIN queue : i < n /\ queue[i].kind = "reset") => reset' = "stopping"
        /\ ~(\E i \in DOMAIN queue : i < n /\ queue[i].kind = "reset") =>
             reset' = IF \E i \in DOMAIN queue : queue[i].kind = "reset" THEN "chained" ELSE reset
  BY ChainGoesOn
<1>2. /\ chain' \in Seq(Commands) /\ Len(queue) \in Nat
      /\ DOMAIN queue = 1..Len(queue) /\ DOMAIN chain' = 1..Len(queue) - n + 1
      /\ Len(chain') = Len(queue) - n + 1
      /\ \A i \in DOMAIN chain' : chain'[i] = queue[n + i - 1]
  BY <1>1, SuffixElements
<1>3. chain' = <<>> <=> n = Len(queue) + 1
  BY <1>2
<1>4. n <= Len(queue) => client' # 0
  BY <1>1 DEF Asks
<1>5. ASSUME n <= Len(queue)
      PROVE  LET ask == AskOf(queue[n])
             IN  /\ ask \in Requests /\ ask.by = "chain"
                 /\ ask.method = IF Starts(queue[n]) THEN "start" ELSE "stop"
  BY DEF AskOf, Asked, Requests, Askers, OcrActivations
<1>6. /\ requests' \in Seq(Requests)
      /\ \A i \in DOMAIN sent : i \in DOMAIN requests' /\ requests'[i] = sent[i]
      /\ \A i \in DOMAIN requests' :
           \/ i \in DOMAIN sent
           \/ n <= Len(queue) /\ i = Len(sent) + 1 /\ requests'[i] = AskOf(queue[n])
      /\ n <= Len(queue) => Len(sent) + 1 \in DOMAIN requests'
                            /\ requests'[Len(sent) + 1] = AskOf(queue[n])
  <2>1. CASE n <= Len(queue)
    <3>1. requests' = Append(sent, AskOf(queue[n])) /\ AskOf(queue[n]) \in Requests
      BY <1>1, <1>5, <2>1
    <3>2. /\ requests' \in Seq(Requests) /\ Len(sent) \in Nat
          /\ DOMAIN sent = 1..Len(sent) /\ DOMAIN requests' = 1..Len(sent) + 1
          /\ \A i \in DOMAIN sent : requests'[i] = sent[i]
          /\ requests'[Len(sent) + 1] = AskOf(queue[n])
      BY <3>1, AppendElements
    <3> QED BY <2>1, <3>2
  <2>2. CASE n > Len(queue)
    BY <1>1, <1>2, <2>2
  <2> QED BY <1>2, <2>1, <2>2
<1>7. OfChain(requests') = IF n <= Len(queue) THEN {Len(sent) + 1} ELSE {}
  <2>1. \A i \in DOMAIN sent : requests'[i].by # "chain"
    BY <1>6 DEF OfChain
  <2>2. n <= Len(queue) => requests'[Len(sent) + 1].by = "chain"
    BY <1>5, <1>6
  <2> QED BY <1>6, <2>1, <2>2 DEF OfChain
<1>8. OneAsked'
  BY <1>2, <1>3, <1>7 DEF OneAsked
<1>9. AnswersFit'
  <2>1. n <= Len(queue) => chain'[1] = queue[n]
    BY <1>2
  <2>2. StartsAreTheChains(requests', replies')
    BY <1>5, <1>6 DEF StartsAreTheChains
  <2>3. \A i \in OfChain(requests') :
          requests'[i].method \in IF Starts(chain'[1]) THEN {"start", "health"} ELSE {"stop"}
    BY <1>5, <1>6, <1>7, <2>1
  <2> QED BY <2>2, <2>3 DEF AnswersFit, Starts
<1>10. OneReset(chain')
  <2> SUFFICES ASSUME NEW i \in DOMAIN chain', NEW j \in DOMAIN chain',
                      chain'[i].kind = "reset", chain'[j].kind = "reset"
               PROVE  i = j
    BY DEF OneReset
  <2>1. n + i - 1 \in DOMAIN queue /\ n + j - 1 \in DOMAIN queue
    BY <1>2
  <2>2. queue[n + i - 1].kind = "reset" /\ queue[n + j - 1].kind = "reset"
    BY <1>2
  <2>3. n + i - 1 = n + j - 1
    BY <2>1, <2>2 DEF OneReset
  <2> QED BY <1>2, <2>3
<1>11. Resets' /\ reset' \in {"no", "chained", "stopping", "done"}
  <2>1. CASE \E i \in DOMAIN queue : i < n /\ queue[i].kind = "reset"
    <3>1. client' = 0
      BY <1>1, <2>1 DEF Asks
    <3>2. chain' = <<>>
      BY <1>3, <1>4, <3>1
    <3> QED BY <1>1, <1>10, <2>1, <3>1, <3>2 DEF Resets
  <2>2. CASE ~(\E i \in DOMAIN queue : i < n /\ queue[i].kind = "reset")
    <3>1. reset' = IF \E i \in DOMAIN queue : queue[i].kind = "reset" THEN "chained" ELSE reset
      BY <1>1, <2>2
    <3>2. \A i \in DOMAIN chain' : chain'[i].kind = "reset" => reset' = "chained"
      <4> SUFFICES ASSUME NEW i \in DOMAIN chain', chain'[i].kind = "reset" PROVE reset' = "chained"
        OBVIOUS
      <4>1. n + i - 1 \in DOMAIN queue /\ queue[n + i - 1].kind = "reset"
        BY <1>2
      <4> QED BY <3>1, <4>1
    <3>3. reset' \in {"stopping", "done"} => client' = 0
      BY <3>1
    <3>4. client' = 0 => chain' = <<>>
      BY <1>3, <1>4
    <3> QED BY <1>10, <3>1, <3>2, <3>3, <3>4 DEF Resets
  <2> QED BY <2>1, <2>2
<1>12. CommandsFit'
  BY <1>2 DEF CommandsFit
<1>13. lifecycle' \in Lifecycles
  BY DEF GoOn, Lifecycles
<1>14. Abandoned(requests') <=> Abandoned(sent)
  BY <1>5, <1>6 DEF Abandoned
<1> QED BY <1>1, <1>2, <1>3, <1>4, <1>6, <1>8, <1>9, <1>11, <1>12, <1>13, <1>14 DEF ChainInv

(* A command is put into the chain.                                        *)
LEMMA Enqueued ==
  ASSUME ChainInv, NEW command \in Commands, NEW shown \in Lifecycles, Enqueue(command, shown),
         ocr' \in OcrActivations, replies' = replies,
         client' # 0 => command.client = client' /\ (chain # <<>> => client = client'),
         command.kind = "reset" => reset = "no",
         reset \in {"stopping", "done"} => client' = 0
  PROVE  /\ ChainInv'
         /\ client' = 0 \/ chain # <<>> => requests' = requests
         /\ client' = 0 /\ chain = <<>> => chain' = <<>>
         /\ Abandoned(requests') <=> Abandoned(requests)
<1>1. CASE chain = <<>>
  <2>1. GoOn(<<command>>, requests, shown)
    BY <1>1 DEF Enqueue
  <2>2. /\ <<command>> \in Seq(Commands) /\ OneReset(<<command>>)
        /\ client' # 0 => \A i \in DOMAIN <<command>> : <<command>>[i].client = client'
    BY DEF OneReset
  <2>3. OfChain(requests) = {} /\ OfChain(replies) = {} /\ StartsAreTheChains(requests, replies)
    BY <1>1 DEF ChainInv, OneAsked, AnswersFit
  <2> QED BY <1>1, <2>1, <2>2, <2>3, GoneOn DEF ChainInv
<1>2. CASE chain # <<>>
  <2>1. /\ chain' = Append(chain, command) /\ lifecycle' = shown
        /\ reset' = IF command.kind = "reset" THEN "chained" ELSE reset
        /\ requests' = requests
    BY <1>2 DEF Enqueue
  <2>2. /\ chain' \in Seq(Commands) /\ chain' # <<>> /\ Len(chain) \in Nat
        /\ DOMAIN chain = 1..Len(chain) /\ DOMAIN chain' = 1..Len(chain) + 1
        /\ \A i \in DOMAIN chain : chain'[i] = chain[i]
        /\ chain'[Len(chain) + 1] = command
    BY <2>1, AppendElements DEF ChainInv
  <2>3. chain'[1] = chain[1] /\ 1 \in DOMAIN chain
    BY <1>2, <2>2 DEF ChainInv
  <2>4. OneAsked'
    BY <1>2, <2>1, <2>2 DEF ChainInv, OneAsked
  <2>5. AnswersFit'
    BY <2>1, <2>3 DEF ChainInv, AnswersFit, Starts
  <2>6. CommandsFit'
    BY <1>2, <2>2 DEF ChainInv, CommandsFit
  <2>7. reset \notin {"stopping", "done"}
    BY <1>2 DEF ChainInv, Resets
  <2>8. OneReset(chain') /\ \A i \in DOMAIN chain' : chain'[i].kind = "reset" => reset' = "chained"
    <3>1. CASE command.kind = "reset"
      <4>1. \A i \in DOMAIN chain : chain[i].kind # "reset"
        BY <3>1 DEF ChainInv, Resets
      <4> QED BY <2>1, <2>2, <3>1, <4>1 DEF OneReset
    <3>2. CASE command.kind # "reset"
      BY <2>1, <2>2, <3>2 DEF ChainInv, Resets, OneReset
    <3> QED BY <3>1, <3>2
  <2>9. Resets' /\ reset' \in {"no", "chained", "stopping", "done"}
    BY <2>1, <2>7, <2>8 DEF ChainInv, Resets
  <2> QED BY <1>2, <2>1, <2>2, <2>4, <2>5, <2>6, <2>9 DEF ChainInv
<1> QED BY <1>1, <1>2

(* The first reply is taken.                                               *)
LEMMA Taken ==
  ASSUME ChainInv, replies # <<>>, replies' = Tail(replies)
  PROVE  /\ replies' \in Seq(Replies) /\ Reply \in Replies /\ Reply = replies[1]
         /\ 1 \in DOMAIN replies
         /\ \A i \in DOMAIN replies' : i + 1 \in DOMAIN replies /\ replies'[i] = replies[i + 1]
         /\ \A i \in DOMAIN replies : i > 1 => i - 1 \in DOMAIN replies' /\ replies'[i - 1] = replies[i]
         /\ StartsAreTheChains(requests, replies')
         /\ Reply.by = "chain" => /\ OfChain(replies') = {} /\ OfChain(requests) = {}
                                  /\ chain # <<>>
                                  /\ Reply.method \in IF Starts(chain[1])
                                       THEN {"start", "health", "refused"} ELSE {"stop"}
         /\ Reply.by # "nobody" => (Abandoned(replies') <=> Abandoned(replies))
<1>1. /\ replies' \in Seq(Replies) /\ Reply \in Replies /\ Reply = replies[1]
      /\ 1 \in DOMAIN replies
      /\ \A i \in DOMAIN replies' : i + 1 \in DOMAIN replies /\ replies'[i] = replies[i + 1]
      /\ \A i \in DOMAIN replies : i > 1 => i - 1 \in DOMAIN replies' /\ replies'[i - 1] = replies[i]
      /\ DOMAIN replies \subseteq Int /\ \A i \in DOMAIN replies : i >= 1
      /\ DOMAIN replies' \subseteq Int /\ \A i \in DOMAIN replies' : i >= 1
  <2>1. /\ Tail(replies) \in Seq(Replies) /\ Head(replies) = replies[1] /\ replies[1] \in Replies
        /\ Len(Tail(replies)) = Len(replies) - 1 /\ Len(replies) \in Nat \ {0}
        /\ DOMAIN replies = 1..Len(replies) /\ DOMAIN Tail(replies) = 1..Len(replies) - 1
        /\ \A i \in DOMAIN Tail(replies) : Tail(replies)[i] = replies[i + 1]
    BY TailElements DEF ChainInv
  <2> QED BY <2>1 DEF Reply
<1>2. StartsAreTheChains(requests, replies')
  BY <1>1 DEF ChainInv, AnswersFit, StartsAreTheChains
<1>3. ASSUME Reply.by = "chain"
      PROVE  /\ OfChain(replies') = {} /\ OfChain(requests) = {} /\ chain # <<>>
             /\ Reply.method \in IF Starts(chain[1])
                  THEN {"start", "health", "refused"} ELSE {"stop"}
  <2>1. 1 \in OfChain(replies)
    BY <1>1, <1>3 DEF OfChain
  <2>2. OfChain(replies') = {}
    <3> SUFFICES ASSUME NEW i \in OfChain(replies') PROVE FALSE
      OBVIOUS
    <3>1. i + 1 \in OfChain(replies) /\ i >= 1 /\ i \in Int
      BY <1>1 DEF OfChain
    <3>2. i + 1 = 1
      BY <2>1, <3>1 DEF ChainInv, OneAsked
    <3> QED BY <3>1, <3>2
  <2> QED BY <1>1, <2>1, <2>2 DEF ChainInv, OneAsked, AnswersFit
<1>4. Reply.by # "nobody" => (Abandoned(replies') <=> Abandoned(replies))
  <2> SUFFICES ASSUME Reply.by # "nobody" PROVE Abandoned(replies') <=> Abandoned(replies)
    OBVIOUS
  <2>1. Abandoned(replies') => Abandoned(replies)
    BY <1>1 DEF Abandoned
  <2>2. ASSUME NEW i \in DOMAIN replies, replies[i].by = "nobody" PROVE Abandoned(replies')
    <3>1. i > 1
      BY <1>1, <2>2
    <3> QED BY <1>1, <2>2, <3>1 DEF Abandoned
  <2> QED BY <2>1, <2>2 DEF Abandoned
<1> QED BY <1>1, <1>2, <1>3, <1>4

(* The reply was not for the chain; a stop may be sent past it.            *)
Unheard(sent) ==
  /\ chain' = chain /\ reset' = reset /\ client' = client
  /\ \/ sent = requests
     \/ \E r \in Requests : r.by = "direct" /\ r.method = "stop" /\ sent = Append(requests, r)

LEMMA SentPast ==
  ASSUME ChainInv, NEW sent,
         \/ sent = requests
         \/ \E r \in Requests : r.by = "direct" /\ r.method = "stop" /\ sent = Append(requests, r)
  PROVE  /\ sent \in Seq(Requests)
         /\ \A i \in DOMAIN requests : i \in DOMAIN sent /\ sent[i] = requests[i]
         /\ \A i \in DOMAIN sent : i \in DOMAIN requests
                \/ (sent[i].by = "direct" /\ sent[i].method = "stop")
         /\ OfChain(sent) = OfChain(requests)
         /\ Abandoned(sent) <=> Abandoned(requests)
         /\ \A queue : StartsAreTheChains(requests, queue) => StartsAreTheChains(sent, queue)
<1>1. /\ sent \in Seq(Requests)
      /\ \A i \in DOMAIN requests : i \in DOMAIN sent /\ sent[i] = requests[i]
      /\ \A i \in DOMAIN sent : i \in DOMAIN requests
             \/ (sent[i].by = "direct" /\ sent[i].method = "stop")
  <2>1. CASE sent = requests
    BY <2>1 DEF ChainInv
  <2>2. ASSUME NEW r \in Requests, r.by = "direct", r.method = "stop", sent = Append(requests, r)
        PROVE  /\ sent \in Seq(Requests)
               /\ \A i \in DOMAIN requests : i \in DOMAIN sent /\ sent[i] = requests[i]
               /\ \A i \in DOMAIN sent : i \in DOMAIN requests
                      \/ (sent[i].by = "direct" /\ sent[i].method = "stop")
    BY <2>2, AppendElements DEF ChainInv
  <2> QED BY <2>1, <2>2
<1>2. OfChain(sent) = OfChain(requests)
  BY <1>1 DEF OfChain
<1>3. Abandoned(sent) <=> Abandoned(requests)
  BY <1>1 DEF Abandoned
<1>4. \A queue : StartsAreTheChains(requests, queue) => StartsAreTheChains(sent, queue)
  BY <1>1 DEF StartsAreTheChains
<1> QED BY <1>1, <1>2, <1>3, <1>4

LEMMA TakenPast ==
  ASSUME ChainInv, replies # <<>>, replies' = Tail(replies), Reply.by # "chain",
         Unheard(requests'), lifecycle' \in Lifecycles
  PROVE  ChainInv'
<1>1. /\ replies' \in Seq(Replies) /\ Reply = replies[1] /\ 1 \in DOMAIN replies
      /\ \A i \in DOMAIN replies' : i + 1 \in DOMAIN replies /\ replies'[i] = replies[i + 1]
      /\ \A i \in DOMAIN replies : i > 1 => i - 1 \in DOMAIN replies' /\ replies'[i - 1] = replies[i]
      /\ StartsAreTheChains(requests, replies')
      /\ DOMAIN replies \subseteq Int /\ \A i \in DOMAIN replies : i >= 1
      /\ DOMAIN replies' \subseteq Int
  BY Taken DEF ChainInv
<1>2. /\ requests' \in Seq(Requests)
      /\ \A i \in DOMAIN requests : i \in DOMAIN requests' /\ requests'[i] = requests[i]
      /\ OfChain(requests') = OfChain(requests)
      /\ StartsAreTheChains(requests', replies')
  BY <1>1, SentPast DEF Unheard
<1>3. /\ \A i \in OfChain(replies') : i + 1 \in OfChain(replies) /\ replies'[i] = replies[i + 1]
      /\ \A i \in OfChain(replies) : i - 1 \in OfChain(replies')
  <2>1. \A i \in OfChain(replies) : i > 1
    BY <1>1 DEF OfChain
  <2> QED BY <1>1, <2>1 DEF OfChain
<1>4. OneAsked'
  <2>1. \A i, j \in OfChain(replies') : i = j
    <3> SUFFICES ASSUME NEW i \in OfChain(replies'), NEW j \in OfChain(replies') PROVE i = j
      OBVIOUS
    <3>1. i + 1 = j + 1 /\ i \in Int /\ j \in Int
      BY <1>1, <1>3 DEF ChainInv, OneAsked, OfChain
    <3> QED BY <3>1
  <2>2. OfChain(replies) = {} <=> OfChain(replies') = {}
    BY <1>3
  <2> QED BY <1>2, <2>1, <2>2 DEF ChainInv, OneAsked, Unheard
<1>5. AnswersFit'
  <2>1. \A i \in OfChain(requests') : requests'[i] = requests[i]
    BY <1>2 DEF OfChain
  <2> QED BY <1>2, <1>3, <2>1 DEF ChainInv, AnswersFit, Starts, Unheard
<1>6. Resets' /\ CommandsFit'
  BY DEF ChainInv, Resets, CommandsFit, Unheard
<1> QED BY <1>1, <1>2, <1>4, <1>5, <1>6 DEF ChainInv, Unheard

-----------------------------------------------------------------------------
(* Users, displays and a new client put commands into the chain.           *)

Users == \/ \E value \in BOOLEAN : SetSelectionEnabled(value)
         \/ \E value \in OcrActivations : SetOcrActivation(value)
         \/ DisplayChanged \/ ClearAllLocalData

Chosen(command) ==
  \/ command.kind = "start" /\ enabled' /\ ocr' = ocr
  \/ command.kind = "stop" /\ ~enabled'
  \/ command.kind = "restart" /\ enabled' /\ enabled
  \/ command.kind = "reset" /\ ~enabled' /\ reset = "no"

UserStep ==
  /\ UNCHANGED <<client, replies, hostVars, failed>>
  /\ \/ /\ UNCHANGED <<chain, requests, reset>> /\ lifecycle' \in Lifecycles
        /\ client # 0 => ~enabled /\ ~enabled'
     \/ \E command \in Commands, shown \in Lifecycles :
          Enqueue(command, shown) /\ command.client = client /\ Chosen(command)

LEMMA UserCommands ==
  ASSUME Control, Users PROVE UserStep /\ OthersTyped'
<1>1. /\ enabled \in BOOLEAN /\ ocr \in OcrActivations /\ client \in 0..MaxLaunches
      /\ lifecycle \in Lifecycles /\ commands \in 0..MaxCommands /\ card \in BOOLEAN
      /\ MaxCommands \in Nat
  BY BoundsAssumption DEF Control, OthersTyped, ChainInv
<1>2. /\ \A kind \in {"start", "stop", "restart", "reset"}, faults \in BOOLEAN :
           /\ CommandTo(kind, faults) \in Commands /\ CommandTo(kind, faults).client = client
           /\ CommandTo(kind, faults).kind = kind
      /\ \A on \in BOOLEAN : Shown(on) \in Lifecycles
      /\ "disabled" \in Lifecycles
  BY <1>1 DEF CommandTo, Commands, Shown, Lifecycles
<1>3. Commanded => commands' \in 0..MaxCommands /\ UNCHANGED <<client, replies, hostVars, failed>>
  BY <1>1 DEF Commanded
<1>4. ASSUME enabled' \in BOOLEAN, ocr' \in OcrActivations, card' \in BOOLEAN,
             commands' \in 0..MaxCommands, UNCHANGED <<client, replies, hostVars, failed>>
      PROVE  OthersTyped'
  BY <1>4 DEF Control, OthersTyped, hostVars
<1>5. ASSUME NEW faults \in BOOLEAN, Restart(faults), enabled' = enabled,
             UNCHANGED <<client, replies, hostVars, failed>>
      PROVE  UserStep
  <2>1. CASE enabled /\ client # 0
    <3>1. Enqueue(CommandTo("restart", faults), lifecycle)
      BY <1>5, <2>1 DEF Restart
    <3>2. CommandTo("restart", faults) \in Commands /\ Chosen(CommandTo("restart", faults))
          /\ CommandTo("restart", faults).client = client
      BY <1>2, <1>5, <2>1 DEF Chosen
    <3> QED BY <1>1, <1>5, <3>1, <3>2 DEF UserStep
  <2>2. CASE ~(enabled /\ client # 0)
    BY <1>1, <1>5, <2>2 DEF Restart, Stay, UserStep
  <2> QED BY <2>1, <2>2
<1>6. ASSUME NEW value \in BOOLEAN, SetSelectionEnabled(value)
      PROVE  UserStep /\ OthersTyped'
  <2>1. enabled' = value /\ ocr' = ocr /\ card' \in BOOLEAN
        /\ commands' \in 0..MaxCommands /\ UNCHANGED <<client, replies, hostVars, failed>>
    BY <1>1, <1>3, <1>6 DEF SetSelectionEnabled
  <2>2. CASE client = 0
    <3>1. Stay(requests, Shown(value))
      BY <1>6, <2>2 DEF SetSelectionEnabled
    <3> QED BY <1>1, <1>2, <1>4, <2>1, <2>2, <3>1 DEF UserStep, Stay
  <2>3. CASE client # 0
    <3> DEFINE command == CommandTo(IF value THEN "start" ELSE "stop", FALSE)
    <3>1. Enqueue(command, Shown(value))
      BY <1>6, <2>3 DEF SetSelectionEnabled
    <3>2. command \in Commands /\ command.client = client /\ Chosen(command)
      BY <1>2, <2>1 DEF Chosen
    <3> HIDE DEF command
    <3> QED BY <1>1, <1>2, <1>4, <2>1, <3>1, <3>2 DEF UserStep
  <2> QED BY <2>2, <2>3
<1>7. ASSUME NEW value \in OcrActivations, SetOcrActivation(value)
      PROVE  UserStep /\ OthersTyped'
  <2>1. /\ ocr' = value /\ card' = FALSE /\ enabled' = enabled /\ Restart(FALSE)
        /\ commands' \in 0..MaxCommands /\ UNCHANGED <<client, replies, hostVars, failed>>
    BY <1>3, <1>7 DEF SetOcrActivation
  <2> QED BY <1>1, <1>4, <1>5, <2>1
<1>8. CASE DisplayChanged
  <2>1. /\ ocr' = ocr /\ card' = FALSE /\ enabled' = enabled /\ Restart(TRUE)
        /\ commands' \in 0..MaxCommands /\ UNCHANGED <<client, replies, hostVars, failed>>
    BY <1>3, <1>8 DEF DisplayChanged
  <2> QED BY <1>1, <1>4, <1>5, <2>1
<1>9. CASE ClearAllLocalData
  <2>1. /\ reset = "no" /\ enabled' = FALSE /\ card' = FALSE
        /\ UNCHANGED <<ocr, client, replies, hostVars, failed, commands>>
        /\ Enqueue(CommandTo("reset", FALSE), "disabled")
    BY <1>9 DEF ClearAllLocalData
  <2>2. Chosen(CommandTo("reset", FALSE))
    BY <1>2, <2>1 DEF Chosen
  <2> QED BY <1>1, <1>2, <1>4, <2>1, <2>2 DEF UserStep
<1> QED BY <1>6, <1>7, <1>8, <1>9 DEF Users

LEMMA UsersKeepControl ==
  ASSUME Control, Users PROVE Control'
<1>1. UserStep /\ OthersTyped'
  BY UserCommands
<1>2. CASE UNCHANGED <<chain, requests, reset>> /\ lifecycle' \in Lifecycles
  <2>1. UNCHANGED <<chain, requests, replies, reset, client, host, listening, failed>>
    BY <1>1, <1>2 DEF UserStep, hostVars
  <2>2. ChainInv'
    BY <1>2, <2>1 DEF Control, ChainInv, OneAsked, AnswersFit, Starts, Resets, CommandsFit
  <2>3. HostInv'
    BY <2>1 DEF Control, HostInv
  <2> QED BY <1>1, <2>2, <2>3 DEF Control
<1>3. ASSUME NEW command \in Commands, NEW shown \in Lifecycles,
             Enqueue(command, shown), command.client = client, Chosen(command)
      PROVE  Control'
  <2>1. UNCHANGED <<client, replies, host, listening, failed>>
    BY <1>1 DEF UserStep, hostVars
  <2>2. /\ ChainInv'
        /\ client' = 0 \/ chain # <<>> => requests' = requests
        /\ client' = 0 /\ chain = <<>> => chain' = <<>>
        /\ Abandoned(requests') <=> Abandoned(requests)
    <3>1. ocr' \in OcrActivations
      BY <1>1 DEF OthersTyped
    <3>2. command.kind = "reset" => reset = "no"
      BY <1>3 DEF Chosen
    <3> QED BY <1>3, <2>1, <3>1, <3>2, Enqueued DEF Control, ChainInv, Resets
  <2>3. HostInv'
    BY <2>1, <2>2 DEF Control, HostInv
  <2> QED BY <1>1, <2>2, <2>3 DEF Control
<1> QED BY <1>1, <1>2, <1>3 DEF UserStep

LEMMA ReadyKeepsControl ==
  ASSUME Control, ClientReady PROVE Control'
<1> DEFINE command == [kind |-> "ready", client |-> launches, faults |-> TRUE]
<1>1. /\ host = "launching" /\ reset = "no" /\ host' = "up" /\ failed' = FALSE /\ client' = launches
      /\ UNCHANGED <<enabled, ocr, replies, launches, listening, hostOcr, card, commands>>
      /\ Enqueue(command, lifecycle)
  BY DEF ClientReady
<1>2. OthersTyped'
  BY <1>1 DEF Control, OthersTyped
<1>3. chain = <<>> /\ requests = <<>>
  <2>1. \A i \in DOMAIN requests : i \in OfChain(requests)
    BY <1>1 DEF Control, HostInv, OfChain
  <2>2. chain = <<>> /\ OfChain(requests) = {}
    BY <1>1 DEF Control, HostInv, ChainInv, OneAsked
  <2>3. DOMAIN requests = {} /\ requests \in Seq(Requests)
    BY <2>1, <2>2 DEF Control, ChainInv
  <2>4. DOMAIN requests = 1..Len(requests) /\ Len(requests) \in Nat
    BY <2>3
  <2>5. Len(requests) = 0
    BY <2>3, <2>4
  <2> QED BY <2>2, <2>3, <2>5
<1>4. command \in Commands /\ command.client = client' /\ command.kind = "ready"
  BY <1>1 DEF Control, OthersTyped, Commands
<1>5. ChainInv' /\ (Abandoned(requests') <=> Abandoned(requests))
  <2> HIDE DEF command
  <2> QED BY <1>1, <1>2, <1>3, <1>4, Enqueued DEF Control, ChainInv, OthersTyped
<1>6. HostInv'
  BY <1>1, <1>3, <1>5 DEF HostInv, Abandoned
<1> QED BY <1>2, <1>5, <1>6 DEF Control

-----------------------------------------------------------------------------
(* What comes back from the host.                                          *)

(* What Received leaves to each of its actions.                            *)
LEMMA Arrived ==
  ASSUME Control, NEW kind, Received(kind), client' \in {0, client}, card' \in BOOLEAN
  PROVE  /\ replies # <<>> /\ replies' = Tail(replies)
         /\ Reply.method = kind /\ Reply.by # "nobody"
         /\ UNCHANGED <<enabled, ocr, host, launches, listening, hostOcr, commands>>
         /\ failed' \in BOOLEAN => OthersTyped'
         /\ ocr' \in OcrActivations
<1>1. /\ replies # <<>> /\ replies' = Tail(replies)
      /\ Reply.method = kind /\ Reply.by # "nobody"
      /\ UNCHANGED <<enabled, ocr, host, launches, listening, hostOcr, commands>>
  BY DEF Received, hostVars
<1>2. client' \in 0..MaxLaunches
  <2>1. MaxLaunches \in Nat /\ client \in 0..MaxLaunches
    BY BoundsAssumption DEF Control, OthersTyped
  <2> QED BY <2>1
<1>3. failed' \in BOOLEAN => OthersTyped'
  BY <1>1, <1>2 DEF Control, OthersTyped
<1> QED BY <1>1, <1>3 DEF Control, OthersTyped

(* The command at the head has its answer.                                 *)
LEMMA HeadEnds ==
  ASSUME Control, replies # <<>>, replies' = Tail(replies), Reply.by = "chain", client' \in {0, client},
         ocr' \in OcrActivations, NEW shown \in Lifecycles, NEW sent,
         \/ sent = requests
         \/ \E r \in Requests : r.by = "direct" /\ r.method = "stop" /\ sent = Append(requests, r),
         NEW queue \in Seq(Commands), OneReset(queue), GoOn(queue, sent, shown),
         client # 0 => \A i \in DOMAIN queue : queue[i].client = client
  PROVE  /\ ChainInv'
         /\ client' = 0 => chain' = <<>> /\ requests' = sent
         /\ Abandoned(requests') <=> Abandoned(requests)
<1>1. /\ sent \in Seq(Requests) /\ OfChain(sent) = OfChain(requests)
      /\ Abandoned(sent) <=> Abandoned(requests)
      /\ StartsAreTheChains(requests, replies') => StartsAreTheChains(sent, replies')
  BY SentPast DEF Control
<1>2. /\ replies' \in Seq(Replies) /\ StartsAreTheChains(requests, replies')
      /\ OfChain(replies') = {} /\ OfChain(requests) = {}
  BY Taken DEF Control
<1>3. /\ reset \in {"no", "chained", "stopping", "done"}
      /\ reset \in {"stopping", "done"} => client' = 0
      /\ client' # 0 => \A i \in DOMAIN queue : queue[i].client = client'
  BY DEF Control, ChainInv, Resets
<1> QED BY <1>1, <1>2, <1>3, GoneOn

(* The rest of the chain, or what takes the place of its head.             *)
LEMMA RestOfChain ==
  ASSUME ChainInv, chain # <<>>
  PROVE  /\ Head(chain) = chain[1] /\ chain[1] \in Commands /\ Tail(chain) \in Seq(Commands)
         /\ DOMAIN chain = 1..Len(chain) /\ Len(chain) \in Nat \ {0}
         /\ DOMAIN Tail(chain) = 1..Len(chain) - 1
         /\ \A i \in DOMAIN Tail(chain) : Tail(chain)[i] = chain[i + 1]
         /\ OneReset(Tail(chain))
         /\ client # 0 => \A i \in DOMAIN Tail(chain) : Tail(chain)[i].client = client
<1>1. /\ Head(chain) = chain[1] /\ chain[1] \in Commands /\ Tail(chain) \in Seq(Commands)
      /\ DOMAIN chain = 1..Len(chain) /\ Len(chain) \in Nat \ {0}
      /\ DOMAIN Tail(chain) = 1..Len(chain) - 1
      /\ \A i \in DOMAIN Tail(chain) : Tail(chain)[i] = chain[i + 1]
  BY TailElements DEF ChainInv
<1> HIDE DEF Commands
<1>2. OneReset(Tail(chain))
  <2> SUFFICES ASSUME NEW i \in DOMAIN Tail(chain), NEW j \in DOMAIN Tail(chain),
                      Tail(chain)[i].kind = "reset", Tail(chain)[j].kind = "reset"
               PROVE  i = j
    BY DEF OneReset
  <2>1. i + 1 = j + 1
    BY <1>1 DEF ChainInv, Resets, OneReset
  <2> QED BY <1>1, <2>1
<1>3. client # 0 => \A i \in DOMAIN Tail(chain) : Tail(chain)[i].client = client
  BY <1>1 DEF ChainInv, CommandsFit
<1> QED BY <1>1, <1>2, <1>3

(* The process is not concerned.                                           *)
LEMMA HostStays ==
  ASSUME Control, replies # <<>>, host' = host, listening' = listening, client' \in {0, client},
         host = "up" => failed' = failed \/ failed' = TRUE,
         client = 0 => \A i \in DOMAIN requests' : requests'[i].by = "chain" \/
                          (i \in DOMAIN requests /\ requests'[i] = requests[i]),
         Abandoned(requests') <=> Abandoned(requests)
  PROVE  HostInv'
<1>1. client' # 0 => host' = "up"
  BY DEF Control, HostInv
<1>2. host' # "up" => \A i \in DOMAIN requests' : requests'[i].by = "chain"
  BY DEF Control, HostInv
<1> QED BY <1>1, <1>2 DEF Control, HostInv

LEMMA HeadEndsInControl ==
  ASSUME Control, replies # <<>>, replies' = Tail(replies), Reply.by = "chain", client' \in {0, client},
         UNCHANGED <<host, listening>>, OthersTyped',
         host = "up" => failed' = failed \/ failed' = TRUE,
         NEW shown \in Lifecycles, NEW sent,
         \/ sent = requests
         \/ client # 0 /\ \E r \in Requests :
               r.by = "direct" /\ r.method = "stop" /\ sent = Append(requests, r),
         NEW queue \in Seq(Commands), OneReset(queue), GoOn(queue, sent, shown),
         client # 0 => \A i \in DOMAIN queue : queue[i].client = client
  PROVE  Control' /\ (Abandoned(requests') <=> Abandoned(requests))
<1>1. ocr' \in OcrActivations
  BY DEF OthersTyped
<1>2. /\ ChainInv'
      /\ client' = 0 => chain' = <<>> /\ requests' = sent
      /\ Abandoned(requests') <=> Abandoned(requests)
  BY <1>1, HeadEnds
<1>3. HostInv'
  BY <1>2, HostStays
<1> QED BY <1>2, <1>3 DEF Control

(* A stop past the chain.                                                  *)
LEMMA DirectStop ==
  ASSUME NEW sent, sent = Append(requests, Asked("stop", "direct"))
  PROVE  \E r \in Requests : r.by = "direct" /\ r.method = "stop" /\ sent = Append(requests, r)
  BY DEF Asked, Requests, Askers, OcrActivations

LEMMA HealthKeepsControl ==
  ASSUME Control, ApplyHealth PROVE Control'
<1> DEFINE shown == CASE ~enabled -> "disabled"
                      [] enabled /\ Reply.listening -> "listening"
                      [] OTHER -> "starting"
<1> DEFINE sent == IF ~enabled /\ Reply.listening /\ client # 0
                   THEN Append(requests, Asked("stop", "direct")) ELSE requests
<1>1. /\ Received("health") /\ UNCHANGED <<client, card, failed>>
      /\ IF Reply.by = "chain" THEN GoOn(Tail(chain), sent, shown) ELSE Stay(sent, shown)
  BY DEF ApplyHealth
<1>2. /\ replies # <<>> /\ replies' = Tail(replies)
      /\ Reply.method = "health" /\ Reply.by # "nobody"
      /\ UNCHANGED <<enabled, ocr, host, launches, listening, hostOcr, commands>>
      /\ OthersTyped'
  <2>1. card' \in BOOLEAN /\ failed' \in BOOLEAN
    BY <1>1 DEF Control, OthersTyped
  <2> QED BY <1>1, <2>1, Arrived
<1>3. shown \in Lifecycles
  BY DEF Lifecycles
<1>4. \/ sent = requests
      \/ client # 0 /\ \E r \in Requests :
            r.by = "direct" /\ r.method = "stop" /\ sent = Append(requests, r)
  BY DirectStop
<1> HIDE DEF sent, shown
<1>5. CASE Reply.by = "chain"
  <2>1. chain # <<>>
    BY <1>2, <1>5, Taken DEF Control
  <2>2. /\ Tail(chain) \in Seq(Commands) /\ OneReset(Tail(chain))
        /\ client # 0 => \A i \in DOMAIN Tail(chain) : Tail(chain)[i].client = client
    BY <2>1, RestOfChain DEF Control
  <2>3. GoOn(Tail(chain), sent, shown)
    BY <1>1, <1>5
  <2> QED BY <1>1, <1>2, <1>3, <1>4, <1>5, <2>2, <2>3, HeadEndsInControl
<1>6. CASE Reply.by # "chain"
  <2>1. requests' = sent /\ lifecycle' = shown /\ UNCHANGED <<chain, reset, client>>
    BY <1>1, <1>6 DEF Stay
  <2>2. Unheard(requests')
    BY <1>4, <2>1 DEF Unheard
  <2>3. ChainInv'
    BY <1>2, <1>3, <1>6, <2>1, <2>2, TakenPast DEF Control
  <2>4. Abandoned(requests') <=> Abandoned(requests)
    BY <1>4, <2>1, SentPast DEF Control
  <2>5. client = 0 => requests' = requests
    BY <1>4, <2>1
  <2>6. HostInv'
    BY <1>1, <1>2, <2>4, <2>5, HostStays
  <2> QED BY <1>2, <2>3, <2>6 DEF Control
<1> QED BY <1>5, <1>6

(* A reply that is not for the chain and makes nobody ask for anything.    *)
LEMMA OtherReply ==
  ASSUME Control, replies # <<>>, replies' = Tail(replies), Reply.by # "chain",
         Stay(requests, lifecycle'), lifecycle' \in Lifecycles, client' = client,
         UNCHANGED <<host, listening, failed>>, OthersTyped'
  PROVE  Control'
<1>1. UNCHANGED <<chain, reset, requests>>
  BY DEF Stay
<1>2. ChainInv'
  BY <1>1, TakenPast DEF Control, Unheard
<1>3. HostInv'
  BY <1>1, HostStays
<1> QED BY <1>2, <1>3 DEF Control

LEMMA SelectionKeepsControl ==
  ASSUME Control, HandleSelection PROVE Control'
<1>1. /\ Received("selection") /\ UNCHANGED <<client, failed>> /\ Stay(requests, lifecycle)
      /\ card' = (card \/ (enabled /\ reset = "no"))
  BY DEF HandleSelection
<1>2. lifecycle' = lifecycle /\ Stay(requests, lifecycle') /\ lifecycle' \in Lifecycles
  BY <1>1 DEF Stay, Control, ChainInv
<1>3. /\ replies # <<>> /\ replies' = Tail(replies) /\ Reply.method = "selection"
      /\ UNCHANGED <<host, listening>> /\ OthersTyped'
  <2>1. card' \in BOOLEAN /\ failed' \in BOOLEAN
    BY <1>1 DEF Control, OthersTyped
  <2> QED BY <1>1, <2>1, Arrived
<1>4. Reply.by # "chain"
  <2>1. Reply.by = "chain" => Reply.method \in {"start", "health", "refused", "stop"}
    BY <1>3, Taken DEF Control
  <2> QED BY <1>3, <2>1
<1> QED BY <1>1, <1>2, <1>3, <1>4, OtherReply

LEMMA StopKeepsControl ==
  ASSUME Control, StopAnswered PROVE Control'
<1>1. /\ Received("stop") /\ UNCHANGED <<client, failed>> /\ card' = FALSE
      /\ IF Reply.by = "chain" THEN GoOn(Tail(chain), requests, "disabled")
                               ELSE Stay(requests, "disabled")
  BY DEF StopAnswered
<1>2. /\ replies # <<>> /\ replies' = Tail(replies)
      /\ UNCHANGED <<host, listening>> /\ OthersTyped'
  <2>1. card' \in BOOLEAN /\ failed' \in BOOLEAN
    BY <1>1 DEF Control, OthersTyped
  <2> QED BY <1>1, <2>1, Arrived
<1>3. "disabled" \in Lifecycles
  BY DEF Lifecycles
<1>4. CASE Reply.by = "chain"
  <2>1. chain # <<>>
    BY <1>2, <1>4, Taken DEF Control
  <2>2. /\ Tail(chain) \in Seq(Commands) /\ OneReset(Tail(chain))
        /\ client # 0 => \A i \in DOMAIN Tail(chain) : Tail(chain)[i].client = client
    BY <2>1, RestOfChain DEF Control
  <2>3. GoOn(Tail(chain), requests, "disabled")
    BY <1>1, <1>4
  <2> QED BY <1>1, <1>2, <1>3, <1>4, <2>2, <2>3, HeadEndsInControl
<1>5. CASE Reply.by # "chain"
  <2>1. Stay(requests, lifecycle') /\ lifecycle' \in Lifecycles
    BY <1>1, <1>3, <1>5 DEF Stay
  <2> QED BY <1>1, <1>2, <1>5, <2>1, OtherReply
<1> QED BY <1>4, <1>5

LEMMA RefusalKeepsControl ==
  ASSUME Control, StartRefused PROVE Control'
<1>1. /\ Received("refused") /\ UNCHANGED <<client, card>> /\ Fail(requests, lifecycle)
  BY DEF StartRefused
<1>2. failed' = (host' = "up")
  BY <1>1 DEF Fail
<1>3. /\ replies # <<>> /\ replies' = Tail(replies)
      /\ Reply.method = "refused" /\ Reply.by # "nobody"
      /\ UNCHANGED <<host, listening>> /\ OthersTyped'
  <2>1. card' \in BOOLEAN /\ failed' \in BOOLEAN
    BY <1>1, <1>2 DEF Control, OthersTyped
  <2> QED BY <1>1, <2>1, Arrived
<1>4. Reply.by = "chain"
  BY <1>3, Taken DEF Control, ChainInv, AnswersFit, StartsAreTheChains
<1>5. chain # <<>> /\ Starts(chain[1])
  BY <1>3, <1>4, Taken DEF Control
<1>6. /\ Head(chain) = chain[1] /\ Tail(chain) \in Seq(Commands) /\ OneReset(Tail(chain))
      /\ client # 0 => \A i \in DOMAIN Tail(chain) : Tail(chain)[i].client = client
  BY <1>5, RestOfChain DEF Control
<1>7. \E shown \in Lifecycles : GoOn(Tail(chain), requests, shown)
  BY <1>1, <1>5, <1>6 DEF Fail, Starts, Control, ChainInv, Lifecycles
<1> QED BY <1>2, <1>3, <1>4, <1>6, <1>7, HeadEndsInControl DEF StartRefused

LEMMA AnsweredStartKeepsControl ==
  ASSUME Control, StartAnswered PROVE Control'
<1> DEFINE ask == Asked("health", "chain")
<1>1. /\ Received("start") /\ UNCHANGED <<client, card, failed>>
      /\ Stay(Append(requests, ask), lifecycle)
  BY DEF StartAnswered
<1>2. /\ replies # <<>> /\ replies' = Tail(replies)
      /\ Reply.method = "start" /\ Reply.by # "nobody"
      /\ UNCHANGED <<host, listening>> /\ OthersTyped'
  <2>1. card' \in BOOLEAN /\ failed' \in BOOLEAN
    BY <1>1 DEF Control, OthersTyped
  <2> QED BY <1>1, <2>1, Arrived
<1>3. ask \in Requests /\ ask.by = "chain" /\ ask.method = "health"
  BY DEF Asked, Requests, Askers, OcrActivations
<1> HIDE DEF ask
<1>4. Reply.by = "chain"
  BY <1>2, Taken DEF Control, ChainInv, AnswersFit, StartsAreTheChains
<1>5. /\ chain # <<>> /\ Starts(chain[1]) /\ replies' \in Seq(Replies)
      /\ OfChain(replies') = {} /\ OfChain(requests) = {}
      /\ StartsAreTheChains(requests, replies')
  BY <1>2, <1>4, Taken DEF Control
<1>6. UNCHANGED <<chain, reset, client>> /\ lifecycle' = lifecycle /\ requests' = Append(requests, ask)
  BY <1>1 DEF Stay
<1>7. /\ requests' \in Seq(Requests) /\ Len(requests) \in Nat
      /\ DOMAIN requests = 1..Len(requests) /\ DOMAIN requests' = 1..Len(requests) + 1
      /\ \A i \in DOMAIN requests : requests'[i] = requests[i]
      /\ requests'[Len(requests) + 1] = ask
  BY <1>3, <1>6, AppendElements DEF Control, ChainInv
<1>8. OfChain(requests') = {Len(requests) + 1}
  BY <1>3, <1>5, <1>7 DEF OfChain
<1>9. OneAsked' /\ AnswersFit'
  <2>1. OneAsked'
    BY <1>5, <1>6, <1>8 DEF OneAsked
  <2>2. StartsAreTheChains(requests', replies')
    BY <1>3, <1>5, <1>7 DEF StartsAreTheChains
  <2>3. AnswersFit'
    BY <1>3, <1>5, <1>6, <1>7, <1>8, <2>2 DEF AnswersFit, Starts
  <2> QED BY <2>1, <2>3
<1>10. ChainInv'
  BY <1>5, <1>6, <1>7, <1>9 DEF Control, ChainInv, Resets, CommandsFit
<1>11. Abandoned(requests') <=> Abandoned(requests)
  BY <1>3, <1>7 DEF Abandoned
<1>12. \A i \in DOMAIN requests' : requests'[i].by = "chain" \/
         (i \in DOMAIN requests /\ requests'[i] = requests[i])
  BY <1>3, <1>7
<1>13. HostInv'
  BY <1>1, <1>2, <1>11, <1>12, HostStays
<1> QED BY <1>2, <1>10, <1>13 DEF Control

(* restartNativeListening and the reset's stop.                            *)
LEMMA RestartKeepsControl ==
  ASSUME Control, RestartStopped PROVE Control'
<1> DEFINE second == CommandTo("start", Head(chain).faults)
<1>1. /\ Received("stop") /\ UNCHANGED <<client, card, failed>> /\ Reply.by = "chain"
      /\ Head(chain).kind = "restart" /\ GoOn(<<second>> \o Tail(chain), requests, lifecycle)
  BY DEF RestartStopped
<1>2. /\ replies # <<>> /\ replies' = Tail(replies)
      /\ UNCHANGED <<host, listening>> /\ OthersTyped'
  <2>1. card' \in BOOLEAN /\ failed' \in BOOLEAN
    BY <1>1 DEF Control, OthersTyped
  <2> QED BY <1>1, <2>1, Arrived
<1>3. chain # <<>>
  BY <1>1, <1>2, Taken DEF Control
<1>4. /\ Head(chain) = chain[1] /\ chain[1] \in Commands /\ DOMAIN chain = 1..Len(chain)
      /\ Len(chain) \in Nat \ {0}
  BY <1>3, RestOfChain DEF Control
<1>5. second \in Commands /\ second.client = client /\ second.kind = "start"
  BY <1>4 DEF Control, OthersTyped, CommandTo, Commands
<1> HIDE DEF second
<1> DEFINE queue == <<second>> \o Tail(chain)
<1>6. /\ queue \in Seq(Commands) /\ DOMAIN queue = DOMAIN chain /\ queue[1] = second
      /\ \A i \in DOMAIN chain : i > 1 => queue[i] = chain[i]
  BY <1>3, <1>5, ReplaceHead DEF Control, ChainInv
<1> HIDE DEF queue
<1>7. \A i \in DOMAIN queue : i = 1 \/ i > 1
  BY <1>4, <1>6
<1>8. OneReset(queue)
  BY <1>5, <1>6, <1>7 DEF OneReset, Control, ChainInv, Resets
<1>9. client # 0 => \A i \in DOMAIN queue : queue[i].client = client
  BY <1>5, <1>6, <1>7 DEF Control, ChainInv, CommandsFit
<1>10. GoOn(queue, requests, lifecycle) /\ lifecycle \in Lifecycles
  BY <1>1 DEF queue, Control, ChainInv
<1> QED BY <1>1, <1>2, <1>6, <1>8, <1>9, <1>10, HeadEndsInControl

LEMMA ResetKeepsControl ==
  ASSUME Control, ResetStopped PROVE Control'
<1>1. /\ Received("stop") /\ UNCHANGED <<card, failed>> /\ client' = 0 /\ Reply.by = "chain"
      /\ GoOn(chain, requests, lifecycle)
  BY DEF ResetStopped
<1>2. /\ replies # <<>> /\ replies' = Tail(replies)
      /\ UNCHANGED <<host, listening>> /\ OthersTyped'
  <2>1. card' \in BOOLEAN /\ failed' \in BOOLEAN
    BY <1>1 DEF Control, OthersTyped
  <2> QED BY <1>1, <2>1, Arrived
<1>3. /\ chain \in Seq(Commands) /\ OneReset(chain) /\ lifecycle \in Lifecycles
      /\ client # 0 => \A i \in DOMAIN chain : chain[i].client = client
  BY DEF Control, ChainInv, Resets, CommandsFit
<1> QED BY <1>1, <1>2, <1>3, HeadEndsInControl

-----------------------------------------------------------------------------
(* The host answers the first request.                                     *)

LEMMA Answered ==
  ASSUME Control, HostAnswers
  PROVE  \E asked \in Requests, answer \in Replies :
           /\ host = "up" /\ requests # <<>> /\ asked = requests[1] /\ requests' = Tail(requests)
           /\ replies' = Append(replies, answer) /\ answer.by = asked.by
           /\ \/ answer.method = asked.method
                 /\ listening' = CASE asked.method = "stop" -> FALSE
                                   [] asked.method = "start" -> TRUE
                                   [] OTHER -> listening
              \/ answer.method = "refused" /\ asked.method = "start" /\ ~listening /\ ~listening'
           /\ listening' => hostOcr' = IF listening THEN hostOcr ELSE asked.ocr
           /\ OthersTyped'
           /\ UNCHANGED <<uiVars, client, chain, host, launches, card, failed, reset, commands>>
<1> DEFINE asked == Head(requests)
<1> DEFINE begins == asked.method = "start" /\ ~listening
<1>1. /\ host = "up" /\ requests # <<>> /\ requests' = Tail(requests)
      /\ UNCHANGED <<uiVars, client, chain, host, launches, card, failed, reset, commands>>
  BY DEF HostAnswers
<1>2. PICK refused \in {FALSE, begins} :
        /\ listening' = CASE asked.method = "stop" -> FALSE
                          [] begins -> ~refused
                          [] OTHER -> listening
        /\ hostOcr' = IF begins /\ ~refused THEN asked.ocr
                      ELSE IF listening' THEN hostOcr ELSE "fallback"
        /\ replies' = Append(replies,
             [method |-> IF refused THEN "refused" ELSE asked.method,
              by |-> asked.by, listening |-> listening'])
  BY DEF HostAnswers
<1>3. asked \in Requests /\ asked = requests[1]
  BY <1>1, TailElements DEF Control, ChainInv
<1>4. asked.method \in {"start", "stop", "health"} /\ asked.by \in Askers /\ asked.ocr \in OcrActivations
  BY <1>3 DEF Requests
<1> HIDE DEF asked
<1>5. listening \in BOOLEAN /\ hostOcr \in OcrActivations /\ "fallback" \in OcrActivations
  BY DEF Control, OthersTyped, OcrActivations
<1>6. listening' \in BOOLEAN /\ refused \in BOOLEAN
  BY <1>2, <1>5
<1> DEFINE answer == [method |-> IF refused THEN "refused" ELSE asked.method,
                      by |-> asked.by, listening |-> listening']
<1>7. answer \in Replies /\ answer.by = asked.by /\ replies' = Append(replies, answer)
      /\ answer.method = IF refused THEN "refused" ELSE asked.method
  BY <1>2, <1>4, <1>6 DEF Replies
<1> HIDE DEF answer
<1>8. hostOcr' \in OcrActivations
  BY <1>2, <1>4, <1>5
<1>9. OthersTyped'
  BY <1>1, <1>6, <1>8 DEF Control, OthersTyped, uiVars
<1>10. CASE refused
  <2>1. asked.method = "start" /\ ~listening /\ ~listening'
    BY <1>2, <1>10
  <2> QED BY <1>1, <1>3, <1>7, <1>9, <1>10, <2>1
<1>11. CASE ~refused
  <2>1. listening' = CASE asked.method = "stop" -> FALSE
                       [] asked.method = "start" -> TRUE
                       [] OTHER -> listening
    BY <1>2, <1>4, <1>5, <1>11
  <2>2. listening' => hostOcr' = IF listening THEN hostOcr ELSE asked.ocr
    BY <1>2, <1>4, <1>5, <1>11
  <2> QED BY <1>1, <1>3, <1>7, <1>9, <1>11, <2>1, <2>2
<1> QED BY <1>6, <1>10, <1>11

LEMMA AnsweringKeepsControl ==
  ASSUME Control, HostAnswers PROVE Control'
<1>1. PICK asked \in Requests, answer \in Replies :
        /\ host = "up" /\ requests # <<>> /\ asked = requests[1] /\ requests' = Tail(requests)
        /\ replies' = Append(replies, answer) /\ answer.by = asked.by
        /\ answer.method = asked.method \/ (answer.method = "refused" /\ asked.method = "start")
        /\ OthersTyped'
        /\ UNCHANGED <<uiVars, client, chain, host, launches, card, failed, reset, commands>>
  BY Answered
<1>2. /\ requests' \in Seq(Requests) /\ 1 \in DOMAIN requests
      /\ \A i \in DOMAIN requests' : i + 1 \in DOMAIN requests /\ requests'[i] = requests[i + 1]
      /\ \A i \in DOMAIN requests : i > 1 => i - 1 \in DOMAIN requests'
      /\ DOMAIN requests' \subseteq Nat \ {0} /\ DOMAIN requests \subseteq Nat \ {0}
  <2>1. /\ Tail(requests) \in Seq(Requests)
        /\ Len(Tail(requests)) = Len(requests) - 1 /\ Len(requests) \in Nat \ {0}
        /\ DOMAIN requests = 1..Len(requests) /\ DOMAIN Tail(requests) = 1..Len(requests) - 1
        /\ \A i \in DOMAIN Tail(requests) : Tail(requests)[i] = requests[i + 1]
    BY <1>1, TailElements DEF Control, ChainInv
  <2> QED BY <1>1, <2>1
<1>3. /\ replies' \in Seq(Replies) /\ Len(replies) \in Nat
      /\ DOMAIN replies = 1..Len(replies) /\ DOMAIN replies' = 1..Len(replies) + 1
      /\ \A i \in DOMAIN replies : replies'[i] = replies[i]
      /\ replies'[Len(replies) + 1] = answer
  BY <1>1, AppendElements DEF Control, ChainInv
<1> DEFINE Fits ==
      /\ \A i \in OfChain(requests') :
           requests'[i].method \in IF Starts(chain'[1]) THEN {"start", "health"} ELSE {"stop"}
      /\ \A i \in OfChain(replies') :
           replies'[i].method \in IF Starts(chain'[1]) THEN {"start", "health", "refused"} ELSE {"stop"}
<1>4. ASSUME asked.by = "chain" PROVE OneAsked' /\ Fits
  <2>1. 1 \in OfChain(requests)
    BY <1>1, <1>2, <1>4 DEF OfChain
  <2>2. OfChain(requests') = {}
    <3> SUFFICES ASSUME NEW i \in OfChain(requests') PROVE FALSE
      OBVIOUS
    <3>1. i + 1 \in OfChain(requests) /\ i \in Nat \ {0}
      BY <1>2 DEF OfChain
    <3>2. i + 1 = 1
      BY <2>1, <3>1 DEF Control, ChainInv, OneAsked
    <3> QED BY <3>1, <3>2
  <2>3. OfChain(replies) = {} /\ chain # <<>>
    BY <2>1 DEF Control, ChainInv, OneAsked
  <2>4. OfChain(replies') = {Len(replies) + 1}
    BY <1>1, <1>3, <1>4, <2>3 DEF OfChain
  <2>5. OneAsked'
    BY <1>1, <2>2, <2>3, <2>4 DEF OneAsked
  <2>6. answer.method \in IF Starts(chain[1]) THEN {"start", "health", "refused"} ELSE {"stop"}
    <3>1. asked.method \in IF Starts(chain[1]) THEN {"start", "health"} ELSE {"stop"}
      BY <1>1, <2>1 DEF Control, ChainInv, AnswersFit
    <3> QED BY <1>1, <3>1
  <2>7. Fits
    BY <1>1, <1>3, <2>2, <2>4, <2>6 DEF Starts
  <2> QED BY <2>5, <2>7
<1>5. ASSUME asked.by # "chain" PROVE OneAsked' /\ Fits
  <2>1. OfChain(replies') = OfChain(replies)
    BY <1>1, <1>3, <1>5 DEF OfChain
  <2>2. \A i \in OfChain(requests) : i > 1
    BY <1>1, <1>2, <1>5 DEF OfChain
  <2>3. /\ \A i \in OfChain(requests') : i + 1 \in OfChain(requests) /\ requests'[i] = requests[i + 1]
        /\ \A i \in OfChain(requests) : i - 1 \in OfChain(requests')
    BY <1>2, <2>2 DEF OfChain
  <2>4. \A i, j \in OfChain(requests') : i = j
    <3> SUFFICES ASSUME NEW i \in OfChain(requests'), NEW j \in OfChain(requests') PROVE i = j
      OBVIOUS
    <3>1. i + 1 = j + 1 /\ i \in Nat /\ j \in Nat
      BY <1>2, <2>3 DEF Control, ChainInv, OneAsked, OfChain
    <3> QED BY <3>1
  <2>5. OfChain(requests) = {} <=> OfChain(requests') = {}
    BY <2>3
  <2>6. OneAsked'
    BY <1>1, <2>1, <2>4, <2>5 DEF Control, ChainInv, OneAsked
  <2>7. \A i \in OfChain(replies) : replies'[i] = replies[i]
    BY <1>3 DEF OfChain
  <2>8. /\ \A i \in OfChain(requests) :
             requests[i].method \in IF Starts(chain[1]) THEN {"start", "health"} ELSE {"stop"}
        /\ \A i \in OfChain(replies) :
             replies[i].method \in IF Starts(chain[1]) THEN {"start", "health", "refused"} ELSE {"stop"}
    BY DEF Control, ChainInv, AnswersFit
  <2>9. Starts(chain'[1]) = Starts(chain[1])
    BY <1>1 DEF Starts
  <2>10. Fits
    BY <2>1, <2>3, <2>7, <2>8, <2>9
  <2> QED BY <2>6, <2>10
<1>6. StartsAreTheChains(requests', replies')
  <2>1. asked.method = "start" => asked.by \in {"chain", "nobody"}
    BY <1>1, <1>2 DEF Control, ChainInv, AnswersFit, StartsAreTheChains
  <2>2. \A i \in DOMAIN requests' :
          requests'[i].method = "start" => requests'[i].by \in {"chain", "nobody"}
    BY <1>2 DEF Control, ChainInv, AnswersFit, StartsAreTheChains
  <2>3. answer.method \in {"start", "refused"} => answer.by \in {"chain", "nobody"}
    <3>1. asked.method # "refused"
      BY DEF Requests
    <3> QED BY <1>1, <2>1, <3>1
  <2>4. \A i \in DOMAIN replies' : i \in DOMAIN replies \/ replies'[i] = answer
    BY <1>3
  <2>5. \A i \in DOMAIN replies' :
          replies'[i].method \in {"start", "refused"} => replies'[i].by \in {"chain", "nobody"}
    BY <1>3, <2>3, <2>4 DEF Control, ChainInv, AnswersFit, StartsAreTheChains
  <2> QED BY <2>2, <2>5 DEF StartsAreTheChains
<1>7. ChainInv'
  BY <1>1, <1>2, <1>3, <1>4, <1>5, <1>6
     DEF Control, ChainInv, AnswersFit, Resets, CommandsFit, uiVars
<1>8. HostInv'
  BY <1>1, <1>2 DEF Control, HostInv, Abandoned
<1> QED BY <1>1, <1>7, <1>8 DEF Control

(* The pipeline and the poll.                                              *)
LEMMA SelectingKeepsControl ==
  ASSUME Control, HostSelects PROVE Control'
<1> DEFINE event == [method |-> "selection", by |-> "host", listening |-> TRUE]
<1>1. /\ host = "up" /\ replies' = Append(replies, event)
      /\ UNCHANGED <<uiVars, client, chain, requests, hostVars, card, failed, reset, commands>>
  BY DEF HostSelects
<1>2. event \in Replies /\ event.by = "host" /\ event.method = "selection"
  BY DEF Replies
<1> HIDE DEF event
<1>3. /\ replies' \in Seq(Replies) /\ Len(replies) \in Nat
      /\ DOMAIN replies = 1..Len(replies) /\ DOMAIN replies' = 1..Len(replies) + 1
      /\ \A i \in DOMAIN replies : replies'[i] = replies[i]
      /\ replies'[Len(replies) + 1] = event
  BY <1>1, <1>2, AppendElements DEF Control, ChainInv
<1>4. OfChain(replies') = OfChain(replies) /\ \A i \in OfChain(replies) : replies'[i] = replies[i]
  BY <1>2, <1>3 DEF OfChain
<1>5. StartsAreTheChains(requests, replies')
  <2>1. \A i \in DOMAIN replies' : i \in DOMAIN replies \/ replies'[i] = event
    BY <1>3
  <2> QED BY <1>2, <1>3, <2>1 DEF Control, ChainInv, AnswersFit, StartsAreTheChains
<1>6. OneAsked' /\ AnswersFit'
  BY <1>1, <1>4, <1>5 DEF Control, ChainInv, OneAsked, AnswersFit, Starts
<1>7. ChainInv'
  BY <1>1, <1>3, <1>6 DEF Control, ChainInv, Resets, CommandsFit, uiVars
<1>8. HostInv' /\ OthersTyped'
  BY <1>1 DEF Control, HostInv, OthersTyped, uiVars, hostVars
<1> QED BY <1>7, <1>8 DEF Control

LEMMA PollingKeepsControl ==
  ASSUME Control, Poll PROVE Control'
<1> DEFINE ask == [method |-> "health", by |-> "poll", ocr |-> "fallback"]
<1>1. /\ host = "up" /\ requests' = Append(requests, ask)
      /\ UNCHANGED <<uiVars, client, chain, replies, hostVars, card, failed, reset, commands>>
  BY DEF Poll
<1>2. ask \in Requests /\ ask.by = "poll" /\ ask.method = "health"
  BY DEF Requests, Askers, OcrActivations
<1> HIDE DEF ask
<1>3. /\ requests' \in Seq(Requests) /\ Len(requests) \in Nat
      /\ DOMAIN requests = 1..Len(requests) /\ DOMAIN requests' = 1..Len(requests) + 1
      /\ \A i \in DOMAIN requests : requests'[i] = requests[i]
      /\ requests'[Len(requests) + 1] = ask
  BY <1>1, <1>2, AppendElements DEF Control, ChainInv
<1>4. OfChain(requests') = OfChain(requests) /\ \A i \in OfChain(requests) : requests'[i] = requests[i]
  BY <1>2, <1>3 DEF OfChain
<1>5. \A i \in DOMAIN requests' : i \in DOMAIN requests \/ requests'[i] = ask
  BY <1>3
<1>6. StartsAreTheChains(requests', replies)
  BY <1>2, <1>3, <1>5 DEF Control, ChainInv, AnswersFit, StartsAreTheChains
<1>7. OneAsked' /\ AnswersFit'
  BY <1>1, <1>4, <1>6 DEF Control, ChainInv, OneAsked, AnswersFit, Starts
<1>8. ChainInv'
  BY <1>1, <1>3, <1>7 DEF Control, ChainInv, Resets, CommandsFit, uiVars
<1>9. Abandoned(requests') => Abandoned(requests)
  BY <1>2, <1>3, <1>5 DEF Abandoned
<1>10. HostInv' /\ OthersTyped'
  BY <1>1, <1>9 DEF Control, HostInv, OthersTyped, uiVars, hostVars
<1> QED BY <1>8, <1>10 DEF Control

-----------------------------------------------------------------------------
(* Timers, losses and the next launch.                                     *)

(* What is disowned is nobody's.                                           *)
LEMMA Disowned ==
  ASSUME NEW S, NEW queue \in Seq(S), S = Requests \/ S = Replies
  PROVE  /\ Disown(queue) \in Seq(S) /\ OfChain(Disown(queue)) = {}
         /\ DOMAIN Disown(queue) = DOMAIN queue
         /\ \A i \in DOMAIN queue :
              /\ Disown(queue)[i].method = queue[i].method
              /\ Disown(queue)[i].by = IF queue[i].by = "chain" THEN "nobody" ELSE queue[i].by
         /\ OfChain(queue) # {} => Abandoned(Disown(queue))
<1>1. /\ DOMAIN queue = 1..Len(queue) /\ Len(queue) \in Nat
      /\ \A i \in DOMAIN queue : queue[i] \in S
  OBVIOUS
<1>2. \A i \in DOMAIN queue :
        /\ Disown(queue)[i] = IF queue[i].by = "chain" THEN [queue[i] EXCEPT !.by = "nobody"] ELSE queue[i]
        /\ Disown(queue)[i] \in S
        /\ Disown(queue)[i].method = queue[i].method
        /\ Disown(queue)[i].by = IF queue[i].by = "chain" THEN "nobody" ELSE queue[i].by
  <2> SUFFICES ASSUME NEW i \in DOMAIN queue
               PROVE  LET e == IF queue[i].by = "chain" THEN [queue[i] EXCEPT !.by = "nobody"] ELSE queue[i]
                      IN  e \in S /\ e.method = queue[i].method
                          /\ e.by = IF queue[i].by = "chain" THEN "nobody" ELSE queue[i].by
    BY DEF Disown
  <2>1. CASE queue[i] \in Requests /\ S = Requests
    BY <2>1 DEF Requests, Askers
  <2>2. CASE queue[i] \in Replies /\ S = Replies
    BY <2>2 DEF Replies, Askers
  <2> QED BY <1>1, <2>1, <2>2
<1>3. DOMAIN Disown(queue) = DOMAIN queue
  BY DEF Disown
<1>4. Disown(queue) \in Seq(S)
  <2>1. \A i \in 1..Len(queue) : Disown(queue)[i] \in S
    BY <1>1, <1>2
  <2>2. Disown(queue) = [i \in 1..Len(queue) |-> Disown(queue)[i]]
    BY <1>1 DEF Disown
  <2> QED BY <1>1, <2>1, <2>2
<1> QED BY <1>2, <1>3, <1>4 DEF OfChain, Abandoned

(* The running command fails; its queue goes on.                           *)
LEMMA Failed ==
  ASSUME ChainInv, chain # <<>>, NEW sent, NEW shown \in Lifecycles, Fail(sent, shown)
  PROVE  \E queue \in Seq(Commands), after \in Lifecycles :
           /\ GoOn(queue, sent, after) /\ OneReset(queue) /\ failed' = (host' = "up")
           /\ client # 0 => \A i \in DOMAIN queue : queue[i].client = client
           /\ queue = IF chain[1].kind = "reset" THEN chain ELSE Tail(chain)
<1>1. /\ Head(chain) = chain[1] /\ Tail(chain) \in Seq(Commands) /\ OneReset(Tail(chain))
      /\ client # 0 => \A i \in DOMAIN Tail(chain) : Tail(chain)[i].client = client
  BY RestOfChain
<1> DEFINE queue == IF chain[1].kind = "reset" THEN chain ELSE Tail(chain)
<1>2. /\ queue \in Seq(Commands) /\ OneReset(queue)
      /\ client # 0 => \A i \in DOMAIN queue : queue[i].client = client
  BY <1>1 DEF ChainInv, Resets, CommandsFit
<1>3. failed' = (host' = "up") /\ \E after \in Lifecycles : GoOn(queue, sent, after)
  BY <1>1 DEF Fail, Lifecycles
<1> HIDE DEF queue
<1>4. queue = IF chain[1].kind = "reset" THEN chain ELSE Tail(chain)
  BY DEF queue
<1> QED BY <1>2, <1>3, <1>4

LEMMA TimeoutKeepsControl ==
  ASSUME Control, RequestTimesOut
  PROVE  Control' /\ (Abandoned(requests') <=> Abandoned(Disown(requests)))
<1>1. /\ host = "up" /\ chain # <<>> /\ replies' = Disown(replies)
      /\ client' = IF Head(chain).kind = "reset" THEN 0 ELSE client
      /\ UNCHANGED <<enabled, ocr, hostVars, card, commands>>
      /\ Fail(Disown(requests), lifecycle)
  BY DEF RequestTimesOut
<1>2. lifecycle \in Lifecycles
  BY DEF Control, ChainInv
<1>3. PICK queue \in Seq(Commands), after \in Lifecycles :
        /\ GoOn(queue, Disown(requests), after) /\ OneReset(queue) /\ failed' = (host' = "up")
        /\ client # 0 => \A i \in DOMAIN queue : queue[i].client = client
  BY <1>1, <1>2, Failed DEF Control
<1>4. client' \in {0, client} /\ failed' = TRUE /\ OthersTyped'
  <2>1. client' \in {0, client} /\ 0 \in 0..MaxLaunches
    BY <1>1, BoundsAssumption
  <2>2. failed' = TRUE
    BY <1>1, <1>3, Zenon DEF hostVars
  <2> QED BY <1>1, <2>1, <2>2 DEF Control, OthersTyped, hostVars
<1>5. /\ Disown(requests) \in Seq(Requests) /\ OfChain(Disown(requests)) = {}
      /\ DOMAIN Disown(requests) = DOMAIN requests
      /\ \A i \in DOMAIN requests :
           /\ Disown(requests)[i].method = requests[i].method
           /\ Disown(requests)[i].by = IF requests[i].by = "chain" THEN "nobody" ELSE requests[i].by
  BY Disowned DEF Control, ChainInv
<1>6. /\ Disown(replies) \in Seq(Replies) /\ OfChain(Disown(replies)) = {}
      /\ DOMAIN Disown(replies) = DOMAIN replies
      /\ \A i \in DOMAIN replies :
           /\ Disown(replies)[i].method = replies[i].method
           /\ Disown(replies)[i].by = IF replies[i].by = "chain" THEN "nobody" ELSE replies[i].by
  BY Disowned DEF Control, ChainInv
<1>7. StartsAreTheChains(Disown(requests), replies')
  <2>1. StartsAreTheChains(requests, replies)
    BY DEF Control, ChainInv, AnswersFit
  <2> QED BY <1>1, <1>5, <1>6, <2>1 DEF StartsAreTheChains
<1>8. /\ reset \in {"no", "chained", "stopping", "done"}
      /\ reset \in {"stopping", "done"} => client' = 0
      /\ client' # 0 => \A i \in DOMAIN queue : queue[i].client = client'
  BY <1>1, <1>3, <1>4 DEF Control, ChainInv, Resets
<1>9. ocr' \in OcrActivations
  BY <1>4 DEF OthersTyped
<1>10. ChainInv' /\ (Abandoned(requests') <=> Abandoned(Disown(requests)))
  BY <1>1, <1>3, <1>5, <1>6, <1>7, <1>8, <1>9, GoneOn
<1>11. HostInv'
  BY <1>1, <1>4 DEF HostInv, hostVars
<1> QED BY <1>4, <1>10, <1>11 DEF Control

(* What is left of a conversation that is over.                            *)
LEMMA Emptied ==
  ASSUME NEW S
  PROVE  /\ <<>> \in Seq(S) /\ OfChain(<<>>) = {} /\ ~Abandoned(<<>>) /\ DOMAIN <<>> = {}
  BY DEF OfChain, Abandoned

LEMMA ClosingEmpties ==
  ASSUME Control, NEW shown \in Lifecycles, Closed(shown), client' = 0, ocr' = ocr
  PROVE  /\ ChainInv' /\ failed' \in BOOLEAN
         /\ chain' = <<>> /\ requests' = <<>> /\ replies' = <<>>
<1>1. replies' = <<>> /\ ocr' \in OcrActivations
  BY DEF Closed, Control, OthersTyped
<1>2. /\ <<>> \in Seq(Requests) /\ <<>> \in Seq(Replies) /\ OfChain(<<>>) = {} /\ DOMAIN <<>> = {}
      /\ StartsAreTheChains(<<>>, <<>>)
  BY Emptied DEF StartsAreTheChains
<1>3. CASE chain # <<>>
  <2>1. Fail(<<>>, shown)
    BY <1>3 DEF Closed
  <2>2. PICK queue \in Seq(Commands), after \in Lifecycles :
          GoOn(queue, <<>>, after) /\ OneReset(queue) /\ failed' = (host' = "up")
    BY <1>3, <2>1, Failed DEF Control
  <2>3. reset \in {"no", "chained", "stopping", "done"}
    BY DEF Control, ChainInv
  <2>4. ChainInv' /\ chain' = <<>> /\ requests' = <<>>
    BY <1>1, <1>2, <2>2, <2>3, GoneOn
  <2> QED BY <1>1, <2>2, <2>4
<1>4. CASE chain = <<>>
  <2>1. /\ chain' = <<>> /\ requests' = <<>> /\ reset' = reset /\ lifecycle' = shown /\ failed' = FALSE
    BY <1>4 DEF Closed, Stay
  <2>4. chain' \in Seq(Commands) /\ reset' \in {"no", "chained", "stopping", "done"}
    BY <2>1 DEF Control, ChainInv
  <2>2. OneAsked' /\ AnswersFit' /\ CommandsFit'
    BY <1>1, <1>2, <2>1 DEF OneAsked, AnswersFit, CommandsFit
  <2>3. Resets'
    BY <1>2, <2>1 DEF Resets, OneReset
  <2> QED BY <1>1, <1>2, <2>1, <2>2, <2>3, <2>4 DEF ChainInv
<1> QED BY <1>3, <1>4

LEMMA ClosingKeepsControl ==
  ASSUME Control, PipeBreaks \/ PipeCloses \/ HostStops
  PROVE  /\ Control' /\ client' = 0
         /\ chain' = <<>> /\ requests' = <<>> /\ replies' = <<>>
         /\ listening' => listening
<1>1. \A on \in BOOLEAN : Shown(on) \in Lifecycles
  BY DEF Shown, Lifecycles
<1>2. enabled \in BOOLEAN /\ lifecycle \in Lifecycles
  BY DEF Control, OthersTyped, ChainInv
<1>3. /\ UNCHANGED <<enabled, ocr, launches, commands>> /\ client' = 0 /\ card' \in {card, FALSE}
      /\ host' \in {host, "killed", "stopped"} /\ (host' = "up" => FALSE)
      /\ \/ UNCHANGED <<listening, hostOcr>>
         \/ listening' = FALSE /\ hostOcr' = "fallback"
      /\ \E shown \in Lifecycles : Closed(shown)
      /\ host' = "exited" => host = "exited"
      /\ host' # "launching"
  <2>1. CASE PipeBreaks
    BY <1>1, <1>2, <2>1 DEF PipeBreaks, Lost
  <2>2. CASE PipeCloses
    BY <1>2, <2>2 DEF PipeCloses, hostVars, Control, HostInv
  <2>3. CASE HostStops
    BY <1>2, <2>3 DEF HostStops, Control, ChainInv, Resets
  <2> QED BY <2>1, <2>2, <2>3
<1>4. /\ ChainInv' /\ failed' \in BOOLEAN
      /\ chain' = <<>> /\ requests' = <<>> /\ replies' = <<>>
  BY <1>3, ClosingEmpties
<1>5. OthersTyped'
  <2>1. MaxLaunches \in Nat /\ "fallback" \in OcrActivations /\ client' \in 0..MaxLaunches
    BY <1>3, BoundsAssumption DEF OcrActivations
  <2>2. /\ listening' \in BOOLEAN /\ hostOcr' \in OcrActivations /\ card' \in BOOLEAN
        /\ host' \in {"launching", "up", "killed", "exited", "given up", "stopped"}
    BY <1>3, <2>1 DEF Control, OthersTyped
  <2> QED BY <1>3, <1>4, <2>1, <2>2 DEF Control, OthersTyped
<1>6. HostInv'
  BY <1>3, <1>4, Emptied DEF Control, HostInv
<1> QED BY <1>3, <1>4, <1>5, <1>6 DEF Control

LEMMA LossKeepsControl ==
  ASSUME Control, PollFails \/ ProcessExits \/ LaunchFails
  PROVE  Control' /\ client' = 0 /\ (listening' => listening)
<1>1. MaxLaunches \in Nat /\ launches \in 0..MaxLaunches /\ enabled \in BOOLEAN
  BY BoundsAssumption DEF Control, OthersTyped
<1>2. /\ UNCHANGED <<enabled, ocr, launches, commands, replies, chain, reset>>
      /\ client' = 0 /\ card' = FALSE /\ failed' \in BOOLEAN
      /\ host' \in {"killed", "exited", "given up"}
      /\ host' = "exited" => launches < MaxLaunches /\ ~listening'
      /\ \/ UNCHANGED <<listening, hostOcr>>
         \/ listening' = FALSE /\ hostOcr' = "fallback"
      /\ requests' = <<>> \/ (requests' = requests /\ host = "launching")
      /\ lifecycle' \in Lifecycles
  <2>1. CASE PollFails
    BY <1>1, <2>1 DEF PollFails, Lost, Stay, Lifecycles, Shown
  <2>2. CASE ProcessExits
    BY <1>1, <2>2 DEF ProcessExits, Stay, Lifecycles, Shown
  <2>3. CASE LaunchFails
    BY <2>3 DEF LaunchFails, Stay, Lifecycles, Control, OthersTyped
  <2> QED BY <2>1, <2>2, <2>3
<1>3. /\ requests' \in Seq(Requests) /\ OfChain(requests') \in {{}, OfChain(requests)}
      /\ \A i \in DOMAIN requests' : i \in DOMAIN requests /\ requests'[i] = requests[i]
  BY <1>2, Emptied DEF Control, ChainInv
<1>4. OneAsked'
  BY <1>2, <1>3 DEF Control, ChainInv, OneAsked
<1>5. AnswersFit'
  BY <1>2, <1>3 DEF Control, ChainInv, AnswersFit, StartsAreTheChains, Starts, OfChain
<1>6. ChainInv'
  BY <1>2, <1>3, <1>4, <1>5 DEF Control, ChainInv, Resets, CommandsFit
<1>7. OthersTyped'
  <2>1. client' \in 0..MaxLaunches /\ "fallback" \in OcrActivations
    <3>1. client' = 0
      BY <1>2
    <3>2. 0 \in 0..MaxLaunches
      BY BoundsAssumption
    <3> QED BY <3>1, <3>2 DEF OcrActivations
  <2>2. listening' \in BOOLEAN /\ hostOcr' \in OcrActivations /\ card' \in BOOLEAN
    BY <1>2, <2>1 DEF Control, OthersTyped
  <2> QED BY <1>1, <1>2, <2>1, <2>2 DEF Control, OthersTyped
<1>8. HostInv'
  <2>1. \A i \in DOMAIN requests' : requests'[i].by = "chain"
    BY <1>2, <1>3, Emptied DEF Control, HostInv
  <2>2. host' \in {"exited", "launching"} => ~listening'
    BY <1>2, Zenon
  <2> QED BY <1>2, <2>1, <2>2 DEF HostInv
<1>9. listening' => listening
  BY <1>2, Zenon
<1> QED BY <1>2, <1>6, <1>7, <1>8, <1>9 DEF Control

LEMMA RelaunchKeepsControl ==
  ASSUME Control, Relaunch PROVE Control' /\ UNCHANGED <<client, card, listening>>
<1>1. /\ host = "exited" /\ replies = <<>> /\ chain = <<>>
      /\ host' = "launching" /\ launches' = launches + 1
      /\ UNCHANGED <<uiVars, client, chain, pipeVars, listening, hostOcr, card, failed, reset, commands>>
  BY DEF Relaunch
<1>2. launches' \in 0..MaxLaunches
  BY <1>1, BoundsAssumption DEF Control, OthersTyped
<1>3. OthersTyped'
  BY <1>1, <1>2 DEF Control, OthersTyped, uiVars
<1>4. ChainInv'
  BY <1>1 DEF Control, ChainInv, OneAsked, AnswersFit, Starts, Resets, CommandsFit, uiVars, pipeVars
<1>5. HostInv'
  BY <1>1 DEF Control, HostInv, pipeVars
<1> QED BY <1>1, <1>3, <1>4, <1>5 DEF Control

(* A click beside the card, and the end of the reset.                      *)
LEMMA QuietStepKeepsControl ==
  ASSUME Control, HandlePointerDown \/ Schedule \/ UNCHANGED vars PROVE Control'
<1>1. /\ UNCHANGED <<uiVars, client, chain, pipeVars, hostVars, failed, commands>>
      /\ card' \in {card, FALSE} /\ reset' \in {reset, "done", "no"}
      /\ reset' = reset \/ reset = "stopping"
  BY DEF HandlePointerDown, Schedule, vars
<1>2. OthersTyped'
  BY <1>1 DEF Control, OthersTyped, uiVars, hostVars
<1>3. Resets'
  BY <1>1 DEF Control, ChainInv, Resets
<1>4. ChainInv'
  BY <1>1, <1>3 DEF Control, ChainInv, OneAsked, AnswersFit, Starts, CommandsFit, uiVars, pipeVars
<1>5. HostInv'
  BY <1>1 DEF Control, HostInv, hostVars, pipeVars
<1> QED BY <1>2, <1>4, <1>5 DEF Control

LEMMA ControlHolds == Init => Control
<1> SUFFICES ASSUME Init PROVE Control
  OBVIOUS
<1>1. /\ enabled \in BOOLEAN /\ ocr = "fallback" /\ client = 0 /\ chain = <<>> /\ requests = <<>>
      /\ replies = <<>> /\ listening = FALSE /\ hostOcr = "fallback" /\ card = FALSE
      /\ failed = FALSE /\ reset = "no" /\ commands = 0
      /\ host \in {"launching", "stopped"} /\ launches \in {0, 1} /\ lifecycle \in Lifecycles
  BY DEF Init, NoExecutable, Shown, Lifecycles
<1>2. OthersTyped
  <2>1. 0 \in 0..MaxLaunches /\ 1 \in 0..MaxLaunches /\ 0 \in 0..MaxCommands
    BY BoundsAssumption
  <2> QED BY <1>1, <2>1 DEF OthersTyped, OcrActivations
<1>3. <<>> \in Seq(Commands) /\ <<>> \in Seq(Requests) /\ <<>> \in Seq(Replies)
      /\ OfChain(<<>>) = {} /\ ~Abandoned(<<>>) /\ DOMAIN <<>> = {}
  BY Emptied
<1>4. ChainInv
  BY <1>1, <1>3 DEF ChainInv, OneAsked, AnswersFit, StartsAreTheChains, Resets, OneReset, CommandsFit
<1>5. HostInv
  BY <1>1, <1>3 DEF HostInv
<1> QED BY <1>2, <1>4, <1>5 DEF Control

LEMMA ControlStays == ASSUME Control, [Next]_vars PROVE Control'
<1>1. CASE Users
  BY <1>1, UsersKeepControl
<1>2. CASE Receive
  BY <1>2, HealthKeepsControl, AnsweredStartKeepsControl, RefusalKeepsControl, StopKeepsControl,
     RestartKeepsControl, ResetKeepsControl, SelectionKeepsControl, ClosingKeepsControl
     DEF Receive, LateAnswer
<1>3. CASE HostAnswers \/ HostSelects \/ Poll
  BY <1>3, AnsweringKeepsControl, SelectingKeepsControl, PollingKeepsControl
<1>4. CASE \/ RequestTimesOut \/ PollFails \/ PipeBreaks \/ ProcessExits \/ PipeCloses
           \/ Relaunch \/ ClientReady \/ LaunchFails \/ HostStops
  BY <1>4, TimeoutKeepsControl, ClosingKeepsControl, LossKeepsControl, RelaunchKeepsControl,
     ReadyKeepsControl
<1>5. CASE HandlePointerDown \/ Schedule \/ UNCHANGED vars
  BY <1>5, QuietStepKeepsControl
<1> QED BY <1>1, <1>2, <1>3, <1>4, <1>5 DEF Next, Users

LEMMA ControlIsTyped == Control => TypeOK
  BY DEF Control, OthersTyped, ChainInv, TypeOK

-----------------------------------------------------------------------------
(* The card.                                                               *)

LEMMA NoResetBegins ==
  ASSUME NEW queue \in Seq(Commands), \A i \in DOMAIN queue : queue[i].kind # "reset",
         NEW sent, NEW shown, GoOn(queue, sent, shown)
  PROVE  reset' = reset
<1>1. OneReset(queue)
  BY DEF OneReset
<1>2. PICK n \in 1..Len(queue) + 1 :
        /\ ~(\E i \in DOMAIN queue : i < n /\ queue[i].kind = "reset") =>
             reset' = IF \E i \in DOMAIN queue : queue[i].kind = "reset" THEN "chained" ELSE reset
  BY <1>1, ChainGoesOn
<1> QED BY <1>2

LEMMA NoResetChained ==
  ASSUME ChainInv, reset = "no"
  PROVE  /\ \A i \in DOMAIN chain : chain[i].kind # "reset"
         /\ chain # <<>> =>
              /\ Tail(chain) \in Seq(Commands)
              /\ \A i \in DOMAIN Tail(chain) : Tail(chain)[i].kind # "reset"
<1>1. \A i \in DOMAIN chain : chain[i].kind # "reset"
  BY DEF ChainInv, Resets
<1>2. ASSUME chain # <<>>
      PROVE  /\ Tail(chain) \in Seq(Commands)
             /\ \A i \in DOMAIN Tail(chain) : Tail(chain)[i].kind # "reset"
  <2>1. /\ Tail(chain) \in Seq(Commands) /\ DOMAIN chain = 1..Len(chain) /\ Len(chain) \in Nat \ {0}
        /\ DOMAIN Tail(chain) = 1..Len(chain) - 1
        /\ \A i \in DOMAIN Tail(chain) : Tail(chain)[i] = chain[i + 1]
    BY <1>2, RestOfChain
  <2>2. \A i \in DOMAIN Tail(chain) : i + 1 \in DOMAIN chain
    BY <2>1
  <2> QED BY <1>1, <2>1, <2>2
<1> QED BY <1>1, <1>2

LEMMA NoResetEnqueued ==
  ASSUME NEW command \in Commands, command.kind # "reset", NEW shown, Enqueue(command, shown)
  PROVE  reset' = reset
<1>1. CASE chain = <<>>
  <2>1. <<command>> \in Seq(Commands) /\ \A i \in DOMAIN <<command>> : <<command>>[i].kind # "reset"
    OBVIOUS
  <2>2. GoOn(<<command>>, requests, shown)
    BY <1>1 DEF Enqueue
  <2> QED BY <2>1, <2>2, NoResetBegins
<1>2. CASE chain # <<>>
  BY <1>2 DEF Enqueue
<1> QED BY <1>1, <1>2

LEMMA NoResetFails ==
  ASSUME ChainInv, reset = "no", chain # <<>>, NEW sent, NEW shown \in Lifecycles, Fail(sent, shown)
  PROVE  reset' = "no"
<1>1. PICK queue \in Seq(Commands), after \in Lifecycles :
        /\ GoOn(queue, sent, after)
        /\ queue = IF chain[1].kind = "reset" THEN chain ELSE Tail(chain)
  BY Failed
<1>2. \A i \in DOMAIN queue : queue[i].kind # "reset"
  BY <1>1, NoResetChained
<1> QED BY <1>1, <1>2, NoResetBegins

(* A reset begins in steps that take the card away.                        *)
LEMMA CardStays ==
  ASSUME Control, NoCardWhenPaused, [Next]_vars PROVE NoCardWhenPaused'
<1> SUFFICES ASSUME card' PROVE enabled' /\ reset' = "no"
  BY DEF NoCardWhenPaused
<1>1. card \in BOOLEAN /\ enabled \in BOOLEAN /\ lifecycle \in Lifecycles /\ client \in 0..MaxLaunches
  BY DEF Control, OthersTyped, ChainInv
<1>2. card => enabled /\ reset = "no"
  BY DEF NoCardWhenPaused
<1>3. ASSUME NEW value \in BOOLEAN, SetSelectionEnabled(value) PROVE enabled' /\ reset' = "no"
  <2>1. enabled' = value /\ value /\ card
    BY <1>1, <1>3 DEF SetSelectionEnabled
  <2>2. CASE client = 0
    BY <1>2, <1>3, <2>1, <2>2 DEF SetSelectionEnabled, Stay
  <2>3. CASE client # 0
    <3>1. Enqueue(CommandTo("start", FALSE), Shown(value))
      BY <1>3, <2>1, <2>3 DEF SetSelectionEnabled
    <3>2. CommandTo("start", FALSE) \in Commands /\ CommandTo("start", FALSE).kind # "reset"
      BY <1>1 DEF CommandTo, Commands
    <3>3. reset' = reset
      BY <3>1, <3>2, NoResetEnqueued
    <3> QED BY <1>2, <2>1, <3>3
  <2> QED BY <2>2, <2>3
<1>4. ASSUME Receive PROVE enabled' /\ reset' = "no"
  <2>1. CASE HandleSelection
    BY <1>1, <1>2, <2>1 DEF HandleSelection, Received, Stay
  <2>2. CASE StopAnswered \/ LateAnswer
    BY <2>2 DEF StopAnswered, LateAnswer, PipeBreaks, Lost
  <2>3. CASE ApplyHealth \/ StartAnswered \/ StartRefused \/ RestartStopped \/ ResetStopped
    <3>1. /\ card' = card /\ replies # <<>> /\ replies' = Tail(replies) /\ enabled' = enabled
          /\ Reply.by # "nobody"
      BY <2>3 DEF ApplyHealth, StartAnswered, StartRefused, RestartStopped, ResetStopped, Received
    <3>2. enabled' /\ reset = "no"
      BY <1>2, <3>1
    <3>3. Reply.by = "chain" => chain # <<>>
      BY <3>1, Taken DEF Control
    <3>4. \A i \in DOMAIN chain : chain[i].kind # "reset"
      BY <3>2, NoResetChained DEF Control
    <3>5. chain # <<>> =>
            /\ Tail(chain) \in Seq(Commands) /\ chain[1] \in Commands /\ Head(chain) = chain[1]
            /\ 1 \in DOMAIN chain /\ \A i \in DOMAIN Tail(chain) : Tail(chain)[i].kind # "reset"
      BY <3>2, NoResetChained, RestOfChain DEF Control
    <3>6. CASE ApplyHealth
      <4>1. \/ \E sent, shown : Stay(sent, shown)
            \/ Reply.by = "chain" /\ \E sent, shown : GoOn(Tail(chain), sent, shown)
        BY <3>6 DEF ApplyHealth
      <4>2. reset' = reset
        BY <3>3, <3>5, <4>1, NoResetBegins DEF Stay
      <4> QED BY <3>2, <4>2
    <3>7. CASE StartAnswered
      BY <3>2, <3>7 DEF StartAnswered, Stay
    <3>8. CASE StartRefused
      <4>1. Reply.by = "chain" /\ Fail(requests, lifecycle)
        <5>1. Reply.method = "refused" /\ Fail(requests, lifecycle)
          BY <3>8 DEF StartRefused, Received
        <5> QED BY <3>1, <5>1, Taken DEF Control, ChainInv, AnswersFit, StartsAreTheChains
      <4>2. reset' = "no"
        BY <1>1, <3>2, <3>3, <4>1, NoResetFails DEF Control
      <4> QED BY <3>2, <4>2
    <3>9. CASE RestartStopped
      <4> DEFINE second == CommandTo("start", Head(chain).faults)
      <4>1. chain # <<>> /\ GoOn(<<second>> \o Tail(chain), requests, lifecycle)
        BY <3>3, <3>9 DEF RestartStopped
      <4>2. second \in Commands /\ second.kind # "reset"
        BY <1>1, <3>5, <4>1 DEF CommandTo, Commands
      <4> HIDE DEF second
      <4> DEFINE queue == <<second>> \o Tail(chain)
      <4>3. /\ queue \in Seq(Commands) /\ DOMAIN queue = DOMAIN chain /\ queue[1] = second
            /\ \A i \in DOMAIN chain : i > 1 => queue[i] = chain[i]
        BY <4>1, <4>2, ReplaceHead DEF Control, ChainInv
      <4>4. \A i \in DOMAIN chain : i = 1 \/ i > 1
        BY <4>1, RestOfChain DEF Control
      <4>5. \A i \in DOMAIN queue : queue[i].kind # "reset"
        BY <3>4, <4>2, <4>3, <4>4
      <4>6. GoOn(queue, requests, lifecycle)
        BY <4>1
      <4> HIDE DEF queue
      <4>7. reset' = reset
        BY <4>3, <4>5, <4>6, NoResetBegins
      <4> QED BY <3>2, <4>7
    <3>10. CASE ResetStopped
      <4>1. Reply.by = "chain" /\ Head(chain).kind = "reset"
        BY <3>10 DEF ResetStopped
      <4> QED BY <3>3, <3>4, <3>5, <4>1
    <3> QED BY <2>3, <3>6, <3>7, <3>8, <3>9, <3>10
  <2> QED BY <1>4, <2>1, <2>2, <2>3 DEF Receive
<1>5. ASSUME RequestTimesOut PROVE enabled' /\ reset' = "no"
  <2>1. card' = card /\ enabled' = enabled /\ chain # <<>> /\ Fail(Disown(requests), lifecycle)
    BY <1>5 DEF RequestTimesOut
  <2>2. enabled' /\ reset = "no"
    BY <1>2, <2>1
  <2> QED BY <1>1, <2>1, <2>2, NoResetFails DEF Control
<1>6. ASSUME PipeCloses PROVE enabled' /\ reset' = "no"
  <2>1. card' = card /\ enabled' = enabled /\ Closed(lifecycle)
    BY <1>6 DEF PipeCloses
  <2>2. enabled' /\ reset = "no"
    BY <1>2, <2>1
  <2>3. CASE chain = <<>>
    BY <2>1, <2>2, <2>3 DEF Closed, Stay
  <2>4. CASE chain # <<>>
    <3>1. Fail(<<>>, lifecycle)
      BY <2>1, <2>4 DEF Closed
    <3> QED BY <1>1, <2>2, <2>4, <3>1, NoResetFails DEF Control
  <2> QED BY <2>3, <2>4
<1>7. ASSUME ClientReady PROVE enabled' /\ reset' = "no"
  <2> DEFINE command == [kind |-> "ready", client |-> launches, faults |-> TRUE]
  <2>1. card' = card /\ enabled' = enabled /\ Enqueue(command, lifecycle)
    BY <1>7 DEF ClientReady
  <2>2. command \in Commands /\ command.kind # "reset"
    BY DEF Control, OthersTyped, Commands
  <2> HIDE DEF command
  <2>3. reset' = reset
    BY <2>1, <2>2, NoResetEnqueued
  <2> QED BY <1>2, <2>1, <2>3
<1>8. ASSUME \/ HostAnswers \/ HostSelects \/ Poll \/ Relaunch \/ UNCHANGED vars
      PROVE  enabled' /\ reset' = "no"
  <2>1. card' = card /\ enabled' = enabled /\ reset' = reset
    BY <1>8 DEF HostAnswers, HostSelects, Poll, Relaunch, vars, uiVars
  <2>2. card /\ enabled /\ reset = "no"
    BY <1>2, <2>1
  <2> QED BY <2>1, <2>2
<1>9. ASSUME HostStops \/ Schedule PROVE FALSE
  BY <1>2, <1>9 DEF HostStops, Schedule
<1>10. ~(\/ \E value \in OcrActivations : SetOcrActivation(value)
         \/ DisplayChanged \/ HandlePointerDown \/ ClearAllLocalData
         \/ PollFails \/ PipeBreaks \/ ProcessExits \/ LaunchFails)
  BY DEF SetOcrActivation, DisplayChanged, HandlePointerDown, ClearAllLocalData,
         PollFails, PipeBreaks, ProcessExits, LaunchFails, Lost
<1> QED BY <1>3, <1>4, <1>5, <1>6, <1>7, <1>8, <1>9, <1>10 DEF Next

(* Only an answer to a start makes the host listen; a reset that is past   *)
(* the chain has left no start behind but one that timed out.              *)
LEMMA SilenceStays ==
  ASSUME Control, [Next]_vars, reset \in {"stopping", "done"}, ~failed, listening'
  PROVE  listening
<1>1. CASE HostAnswers
  <2>1. PICK asked \in Requests, answer \in Replies :
          /\ host = "up" /\ requests # <<>> /\ asked = requests[1]
          /\ \/ answer.method = asked.method
                /\ listening' = CASE asked.method = "stop" -> FALSE
                                  [] asked.method = "start" -> TRUE
                                  [] OTHER -> listening
             \/ answer.method = "refused" /\ asked.method = "start" /\ ~listening /\ ~listening'
    BY <1>1, Answered
  <2>2. 1 \in DOMAIN requests
    BY <2>1, TailElements DEF Control, ChainInv
  <2>3. asked.by \notin {"chain", "nobody"}
    <3>1. OfChain(requests) = {}
      BY DEF Control, ChainInv, OneAsked, Resets
    <3>2. ~Abandoned(requests)
      BY <2>1 DEF Control, HostInv
    <3> QED BY <2>1, <2>2, <3>1, <3>2 DEF OfChain, Abandoned
  <2>4. asked.method # "start"
    BY <2>1, <2>2, <2>3 DEF Control, ChainInv, AnswersFit, StartsAreTheChains
  <2> QED BY <2>1, <2>4
<1>2. CASE \/ PipeBreaks \/ PipeCloses \/ HostStops \/ PollFails \/ ProcessExits \/ LaunchFails
  BY <1>2, ClosingKeepsControl, LossKeepsControl
<1>3. CASE Users
  BY <1>3, UserCommands DEF UserStep, hostVars
<1>4. CASE \/ ApplyHealth \/ StartAnswered \/ StartRefused \/ StopAnswered
           \/ RestartStopped \/ ResetStopped \/ HandleSelection
  BY <1>4 DEF ApplyHealth, StartAnswered, StartRefused, StopAnswered, RestartStopped,
              ResetStopped, HandleSelection, Received, hostVars
<1>5. CASE \/ HostSelects \/ Poll \/ RequestTimesOut \/ Relaunch \/ ClientReady
           \/ HandlePointerDown \/ Schedule \/ UNCHANGED vars
  BY <1>5 DEF HostSelects, Poll, RequestTimesOut, Relaunch, ClientReady, HandlePointerDown,
              Schedule, vars, hostVars
<1> QED BY <1>1, <1>2, <1>3, <1>4, <1>5 DEF Next, Receive, LateAnswer, Users

-----------------------------------------------------------------------------
(* What the host is about to do.                                           *)

(* A timer has fired, whose answer may still come, or the reset waits for  *)
(* its turn: then the host may differ from the switch until it is lost.    *)
Excused ==
  \/ Abandoned(requests) \/ Abandoned(replies)
  \/ \E i \in DOMAIN chain : chain[i].kind = "reset"

NoStart(queue) == \A i \in DOMAIN queue : queue[i].method # "start"
NoStop(queue) == \A i \in DOMAIN queue : queue[i].method # "stop"
Listens(queue) == listening /\ NoStop(queue)

(* The host listens once it has answered what is on its way.               *)
StartComes(queue) ==
  \E i \in DOMAIN queue : queue[i].method = "start" /\
     \A j \in DOMAIN queue : j > i => queue[j].method # "stop"

(* What the chain still asks for; its head has asked already.              *)
StopWaits == \E i \in DOMAIN chain : i > 1 /\ chain[i].kind = "stop"
Revives(i) == chain[i].kind = "restart" \/ (i > 1 /\ Starts(chain[i]))
Revived == \E i \in DOMAIN chain : Revives(i) /\ \A j \in DOMAIN chain : j > i => chain[j].kind # "stop"
Refused == \E i \in DOMAIN replies : replies[i].method = "refused"

OnIsComing ==
  enabled /\ ~failed =>
    Refused \/ Revived \/ ((StartComes(requests) \/ Listens(requests)) /\ ~StopWaits)

OffIsComing == ~enabled => StopWaits \/ (NoStart(requests) /\ ~Listens(requests))

OcrIsComing ==
  enabled =>
    \/ StopWaits \/ \E i \in DOMAIN chain : chain[i].kind = "restart"
    \/ /\ Listens(requests) => hostOcr = ocr
       /\ \A i \in DOMAIN requests : requests[i].method = "start" => requests[i].ocr = ocr

StopIsDone == \A i \in OfChain(replies) : replies[i].method = "stop" => ~listening

Agreement ==
  client # 0 /\ ~Excused => OnIsComing /\ OffIsComing /\ OcrIsComing /\ StopIsDone

(* A queue that begins once the one before has its answer: what the chain  *)
(* asks for must follow from it and from what was sent past it.            *)
OnFits(queue, sent) ==
  enabled' /\ ~failed' =>
    \/ \E i \in DOMAIN queue : /\ queue[i].kind \in {"ready", "start", "restart"}
                               /\ \A j \in DOMAIN queue : j > i => queue[j].kind # "stop"
    \/ listening' /\ NoStop(sent) /\ \A i \in DOMAIN queue : queue[i].kind # "stop"
OffFits(queue, sent) ==
  ~enabled' => (\E i \in DOMAIN queue : queue[i].kind = "stop") \/ ~(listening' /\ NoStop(sent))
OcrFits(queue, sent) ==
  enabled' =>
    \/ \E i \in DOMAIN queue : queue[i].kind \in {"stop", "restart"}
    \/ listening' /\ NoStop(sent) => hostOcr' = ocr'

(* A client that is kept keeps the reset waiting.                          *)
LEMMA NoResetLeft ==
  ASSUME NEW queue \in Seq(Commands), OneReset(queue), NEW sent \in Seq(Requests), NEW shown,
         GoOn(queue, sent, shown), client' # 0, ~Excused',
         \A i \in DOMAIN queue : queue[i].client = client'
  PROVE  \A i \in DOMAIN queue : queue[i].kind # "reset"
<1> SUFFICES ASSUME NEW k \in DOMAIN queue, queue[k].kind = "reset" PROVE FALSE
  OBVIOUS
<1>1. PICK n \in 1..Len(queue) + 1 :
        /\ \A i \in DOMAIN queue : i < n => ~Asks(queue[i])
        /\ chain' = SubSeq(queue, n, Len(queue))
  BY ChainGoesOn
<1>2. /\ DOMAIN queue = 1..Len(queue) /\ DOMAIN chain' = 1..Len(queue) - n + 1 /\ Len(queue) \in Nat
      /\ \A i \in DOMAIN chain' : chain'[i] = queue[n + i - 1]
  BY <1>1, SuffixElements
<1>3. Asks(queue[k])
  BY DEF Asks
<1>4. k >= n
  BY <1>1, <1>2, <1>3
<1>5. k - n + 1 \in DOMAIN chain' /\ n + (k - n + 1) - 1 = k
  BY <1>2, <1>4
<1>6. chain'[k - n + 1].kind = "reset"
  BY <1>2, <1>5
<1> QED BY <1>5, <1>6 DEF Excused

LEMMA GoneOnAgrees ==
  ASSUME NEW queue \in Seq(Commands), OneReset(queue), NEW sent \in Seq(Requests), NEW shown,
         GoOn(queue, sent, shown), client' # 0, ~Excused',
         \A i \in DOMAIN queue : queue[i].client = client',
         NoStart(sent), OfChain(replies') = {}, ocr' \in OcrActivations,
         OnFits(queue, sent), OffFits(queue, sent), OcrFits(queue, sent)
  PROVE  Agreement'
<1>1. PICK n \in 1..Len(queue) + 1 :
        /\ \A i \in DOMAIN queue : i < n => ~Asks(queue[i])
        /\ n <= Len(queue) => Asks(queue[n])
        /\ chain' = SubSeq(queue, n, Len(queue))
        /\ requests' = IF n <= Len(queue) THEN Append(sent, AskOf(queue[n])) ELSE sent
  BY ChainGoesOn
<1>2. /\ DOMAIN queue = 1..Len(queue) /\ DOMAIN chain' = 1..Len(queue) - n + 1 /\ Len(queue) \in Nat
      /\ \A i \in DOMAIN chain' : chain'[i] = queue[n + i - 1]
      /\ \A i \in DOMAIN queue : queue[i] \in Commands
  BY <1>1, SuffixElements
<1>3. \A i \in DOMAIN queue : queue[i].kind \in {"ready", "start", "stop", "restart"}
  <2>1. \A i \in DOMAIN queue : queue[i].kind # "reset"
    BY NoResetLeft
  <2> QED BY <1>2, <2>1 DEF Commands
<1>4. \A i \in DOMAIN queue : Asks(queue[i]) <=> queue[i].kind = "stop" \/ enabled'
  BY <1>3 DEF Asks
<1>5. ASSUME n <= Len(queue)
      PROVE  /\ AskOf(queue[n]) \in Requests
             /\ AskOf(queue[n]).method = IF Starts(queue[n]) THEN "start" ELSE "stop"
             /\ Starts(queue[n]) => AskOf(queue[n]).ocr = ocr'
  BY DEF AskOf, Asked, Requests, Askers, OcrActivations
<1>6. /\ n > Len(queue) => requests' = sent
      /\ n <= Len(queue) =>
           /\ Len(sent) \in Nat /\ DOMAIN sent = 1..Len(sent) /\ DOMAIN requests' = 1..Len(sent) + 1
           /\ \A i \in DOMAIN sent : requests'[i] = sent[i]
           /\ requests'[Len(sent) + 1] = AskOf(queue[n])
  BY <1>1, <1>2, <1>5, AppendElements
<1>7. enabled' => n = 1
  <2>1. enabled' /\ n > 1 => 1 \in DOMAIN queue
    BY <1>2
  <2> QED BY <1>1, <1>2, <1>4, <2>1
<1>8. enabled' => /\ DOMAIN chain' = DOMAIN queue
                  /\ \A i \in DOMAIN chain' : chain'[i] = queue[i]
  BY <1>2, <1>7
<1>9. OnIsComing'
  <2> SUFFICES ASSUME enabled', ~failed'
               PROVE  Revived' \/ ((StartComes(requests) \/ Listens(requests)) /\ ~StopWaits)'
    BY DEF OnIsComing
  <2>1. ASSUME NEW k \in DOMAIN queue, queue[k].kind \in {"ready", "start", "restart"},
               \A j \in DOMAIN queue : j > k => queue[j].kind # "stop"
        PROVE  Revived' \/ (StartComes(requests) /\ ~StopWaits)'
    <3>1. CASE k > 1 \/ queue[k].kind = "restart"
      <4>1. Revives(k)'
        BY <1>8, <2>1, <3>1 DEF Revives, Starts
      <4> QED BY <1>8, <2>1, <4>1 DEF Revived
    <3>2. CASE k = 1 /\ queue[k].kind # "restart"
      <4>1. Starts(queue[1]) /\ n <= Len(queue)
        BY <1>2, <1>7, <2>1, <3>2 DEF Starts
      <4>2. StartComes(requests)'
        <5>1. /\ Len(sent) + 1 \in DOMAIN requests' /\ requests'[Len(sent) + 1].method = "start"
              /\ \A j \in DOMAIN requests' : ~(j > Len(sent) + 1)
          BY <1>5, <1>6, <1>7, <4>1
        <5> QED BY <5>1 DEF StartComes
      <4>3. ~StopWaits'
        BY <1>8, <2>1, <3>2 DEF StopWaits
      <4> QED BY <4>2, <4>3
    <3> QED BY <1>2, <3>1, <3>2
  <2>2. ASSUME listening', NoStop(sent), \A i \in DOMAIN queue : queue[i].kind # "stop"
        PROVE  Revived' \/ ((StartComes(requests) \/ Listens(requests)) /\ ~StopWaits)'
    <3>1. CASE Len(queue) = 0
      <4>1. requests' = sent /\ ~StopWaits'
        BY <1>2, <1>6, <1>8, <3>1 DEF StopWaits
      <4> QED BY <2>2, <4>1 DEF Listens, NoStop
    <3>2. CASE Len(queue) > 0
      <4>1. /\ Len(queue) \in DOMAIN queue
            /\ \A j \in DOMAIN queue : j > Len(queue) => queue[j].kind # "stop"
        BY <1>2, <3>2
      <4>2. queue[Len(queue)].kind \in {"ready", "start", "restart"}
        BY <1>3, <2>2, <4>1
      <4> QED BY <2>1, <4>1, <4>2
    <3> QED BY <1>2, <3>1, <3>2
  <2> QED BY <2>1, <2>2 DEF OnFits
<1>10. OffIsComing'
  <2> SUFFICES ASSUME ~enabled' PROVE (NoStart(requests) /\ ~Listens(requests))'
    BY DEF OffIsComing
  <2>1. CASE n <= Len(queue)
    <3>1. ~Starts(queue[n])
      BY <1>1, <1>2, <1>4, <2>1 DEF Starts
    <3>2. \A i \in DOMAIN requests' : i \in DOMAIN sent \/ i = Len(sent) + 1
      BY <1>6, <2>1
    <3>3. /\ Len(sent) + 1 \in DOMAIN requests' /\ requests'[Len(sent) + 1].method = "stop"
      BY <1>5, <1>6, <2>1, <3>1
    <3> QED BY <1>6, <2>1, <3>2, <3>3 DEF NoStart, NoStop, Listens
  <2>2. CASE n > Len(queue)
    <3>1. \A i \in DOMAIN queue : i < n
      BY <1>2, <2>2
    <3>2. \A i \in DOMAIN queue : queue[i].kind # "stop"
      BY <1>1, <1>4, <3>1
    <3> QED BY <1>6, <2>2, <3>2 DEF OffFits, NoStart, NoStop, Listens
  <2> QED BY <1>2, <2>1, <2>2
<1>11. OcrIsComing'
  <2> SUFFICES ASSUME enabled', ~StopWaits', \A i \in DOMAIN chain' : chain'[i].kind # "restart"
               PROVE  /\ Listens(requests)' => hostOcr' = ocr'
                      /\ \A i \in DOMAIN requests' : requests'[i].method = "start" => requests'[i].ocr = ocr'
    BY DEF OcrIsComing
  <2>1. \A i \in DOMAIN requests' : requests'[i].method = "start" => requests'[i].ocr = ocr'
    <3>1. CASE n <= Len(queue)
      <4>1. \A i \in DOMAIN requests' : i \in DOMAIN sent \/ i = Len(sent) + 1
        BY <1>6, <3>1
      <4> QED BY <1>5, <1>6, <3>1, <4>1 DEF NoStart
    <3>2. CASE n > Len(queue)
      BY <1>6, <3>2 DEF NoStart
    <3> QED BY <1>2, <3>1, <3>2
  <2>2. ASSUME Listens(requests)' PROVE hostOcr' = ocr'
    <3>1. listening' /\ NoStop(requests')
      BY <2>2 DEF Listens, NoStop
    <3>2. NoStop(sent)
      BY <1>2, <1>6, <3>1 DEF NoStop
    <3>3. \A i \in DOMAIN queue : queue[i].kind \notin {"stop", "restart"}
      <4>1. \A i \in DOMAIN queue : i > 1 => queue[i].kind # "stop"
        BY <1>8 DEF StopWaits
      <4>2. 1 \in DOMAIN queue => queue[1].kind # "stop"
        <5> SUFFICES ASSUME 1 \in DOMAIN queue, queue[1].kind = "stop" PROVE FALSE
          OBVIOUS
        <5>1. n <= Len(queue) /\ ~Starts(queue[n])
          BY <1>2, <1>7 DEF Starts
        <5>2. Len(sent) + 1 \in DOMAIN requests' /\ requests'[Len(sent) + 1].method = "stop"
          BY <1>5, <1>6, <5>1
        <5> QED BY <3>1, <5>2 DEF NoStop
      <4>3. \A i \in DOMAIN queue : i = 1 \/ i > 1
        BY <1>2
      <4> QED BY <1>8, <4>1, <4>2, <4>3
    <3> QED BY <3>1, <3>2, <3>3 DEF OcrFits
  <2> QED BY <2>1, <2>2
<1>12. StopIsDone'
  BY DEF StopIsDone
<1> QED BY <1>9, <1>10, <1>11, <1>12 DEF Agreement

-----------------------------------------------------------------------------
(* Each step keeps the agreement.                                          *)

(* Nothing changes but what is on its way past the chain.                  *)
LEMMA AgreementCarries ==
  ASSUME Agreement, client' = client, ~Excused' => ~Excused,
         client # 0 => enabled' = enabled /\ (enabled => ocr' = ocr),
         chain' = chain, listening' = listening, hostOcr' = hostOcr, failed' = failed,
         \A i \in DOMAIN requests : i \in DOMAIN requests' /\ requests'[i] = requests[i],
         \A i \in DOMAIN requests' : \/ i \in DOMAIN requests \/ requests'[i].method = "health"
                                     \/ requests'[i].method = "stop" /\ ~enabled,
         Refused => Refused',
         \A i \in OfChain(replies') : \E j \in OfChain(replies) : replies'[i] = replies[j]
  PROVE  Agreement'
<1> SUFFICES ASSUME client # 0, ~Excused PROVE (OnIsComing /\ OffIsComing /\ OcrIsComing /\ StopIsDone)'
  BY DEF Agreement
<1>1. OnIsComing /\ OffIsComing /\ OcrIsComing /\ StopIsDone
  BY DEF Agreement
<1>2. StopWaits' = StopWaits /\ Revived' = Revived
  BY DEF StopWaits, Revived, Revives, Starts
<1>3. NoStart(requests) => NoStart(requests')
  BY DEF NoStart
<1>4. Listens(requests)' => Listens(requests)
  BY DEF Listens, NoStop
<1>5. enabled => (StartComes(requests) => StartComes(requests)') /\ (Listens(requests) => Listens(requests)')
  BY DEF Listens, NoStop, StartComes
<1>6. OnIsComing'
  BY <1>1, <1>2, <1>5 DEF OnIsComing
<1>7. OffIsComing'
  BY <1>1, <1>2, <1>3, <1>4 DEF OffIsComing
<1>8. OcrIsComing'
  BY <1>1, <1>2, <1>4 DEF OcrIsComing
<1>9. StopIsDone'
  BY <1>1 DEF StopIsDone
<1> QED BY <1>6, <1>7, <1>8, <1>9

(* Nothing but the card and the reset.                                     *)
LEMMA AgreementUntouched ==
  ASSUME Agreement,
         UNCHANGED <<client, enabled, ocr, chain, listening, hostOcr, failed, requests, replies>>
  PROVE  Agreement'
<1>1. Excused' = Excused /\ Refused' = Refused
  BY DEF Excused, Abandoned, Refused
<1> QED BY <1>1, AgreementCarries

LEMMA UsersKeepAgreement ==
  ASSUME Control, Control', Agreement, Users PROVE Agreement'
<1>1. UserStep /\ OthersTyped'
  BY UserCommands
<1>2. UNCHANGED <<client, replies, listening, hostOcr, failed>>
  BY <1>1 DEF UserStep, hostVars
<1>3. CASE UNCHANGED <<chain, requests>> /\ (client # 0 => ~enabled /\ ~enabled')
  <2>1. Excused' = Excused /\ Refused' = Refused
    BY <1>2, <1>3 DEF Excused, Abandoned, Refused
  <2>2. client # 0 => enabled' = enabled
    BY <1>3 DEF Control, OthersTyped
  <2> QED BY <1>2, <1>3, <2>1, <2>2, AgreementCarries
<1>4. ASSUME NEW command \in Commands, NEW shown \in Lifecycles,
             Enqueue(command, shown), command.client = client, Chosen(command)
      PROVE  Agreement'
  <2> SUFFICES ASSUME client # 0, ~Excused' PROVE Agreement'
    BY <1>2 DEF Agreement
  <2>1. command.kind = "reset" => reset = "no"
    BY <1>4 DEF Chosen
  <2>2. Abandoned(requests') <=> Abandoned(requests)
    <3>1. reset \in {"stopping", "done"} => client' = 0
      BY <1>2 DEF Control, ChainInv, Resets
    <3>2. ocr' \in OcrActivations
      BY <1>1 DEF OthersTyped
    <3> QED BY <1>2, <1>4, <2>1, <3>1, <3>2, Enqueued DEF Control
  <2>3. CASE chain = <<>>
    <3>1. ~Excused /\ Agreement /\ OfChain(replies') = {} /\ NoStart(requests)
      <4>1. ~Excused
        BY <1>2, <2>2, <2>3 DEF Excused
      <4>2. OfChain(requests) = {} /\ OfChain(replies) = {}
        BY <2>3 DEF Control, ChainInv, OneAsked
      <4>3. NoStart(requests)
        <5>1. \A i \in DOMAIN requests : requests[i].by \notin {"chain", "nobody"}
          BY <4>1, <4>2 DEF Excused, Abandoned, OfChain
        <5> QED BY <5>1 DEF NoStart, Control, ChainInv, AnswersFit, StartsAreTheChains
      <4> QED BY <1>2, <4>1, <4>2, <4>3
    <3>2. ~StopWaits /\ \A i \in DOMAIN chain : FALSE
      BY <2>3 DEF StopWaits
    <3> DEFINE queue == <<command>>
    <3>3. /\ queue \in Seq(Commands) /\ OneReset(queue) /\ DOMAIN queue = {1} /\ queue[1] = command
          /\ GoOn(queue, requests, shown)
      BY <1>4, <2>3 DEF Enqueue, OneReset
    <3> HIDE DEF queue
    <3>4. \A i \in DOMAIN queue : queue[i].client = client'
      BY <1>2, <1>4, <3>3
    <3>5. requests \in Seq(Requests) /\ ocr' \in OcrActivations
      BY <1>1 DEF Control, ChainInv, OthersTyped
    <3>6. \A i \in DOMAIN queue : queue[i].kind # "reset"
      BY <1>2, <3>3, <3>4, <3>5, NoResetLeft
    <3>7. \/ command.kind = "start" /\ enabled' /\ ocr' = ocr
          \/ command.kind = "stop" /\ ~enabled'
          \/ command.kind = "restart" /\ enabled'
      BY <1>4, <3>3, <3>6 DEF Chosen
    <3>8. OnFits(queue, requests) /\ OffFits(queue, requests)
      BY <3>3, <3>7 DEF OnFits, OffFits
    <3>9. OcrFits(queue, requests)
      <4>1. enabled /\ Listens(requests) => hostOcr = ocr
        BY <3>1, <3>2 DEF Agreement, OcrIsComing
      <4>2. ~enabled => ~Listens(requests)
        BY <3>1, <3>2 DEF Agreement, OffIsComing
      <4>3. Listens(requests) => hostOcr = ocr
        BY <4>1, <4>2
      <4>4. command.kind = "start" => (listening' /\ NoStop(requests) => hostOcr' = ocr')
        BY <1>2, <3>7, <4>3 DEF Listens
      <4> QED BY <3>3, <3>7, <4>4 DEF OcrFits
    <3> QED BY <1>2, <3>1, <3>3, <3>4, <3>5, <3>8, <3>9, GoneOnAgrees
  <2>4. CASE chain # <<>>
    <3>1. chain' = Append(chain, command) /\ requests' = requests
      BY <1>4, <2>4 DEF Enqueue
    <3>2. /\ chain' \in Seq(Commands) /\ Len(chain) \in Nat \ {0}
          /\ DOMAIN chain = 1..Len(chain) /\ DOMAIN chain' = 1..Len(chain) + 1
          /\ \A i \in DOMAIN chain : i \in DOMAIN chain' /\ chain'[i] = chain[i]
          /\ Len(chain) + 1 \in DOMAIN chain' /\ chain'[Len(chain) + 1] = command
          /\ \A i \in DOMAIN chain' : ~(i > Len(chain) + 1)
      <4>1. chain \in Seq(Commands)
        BY DEF Control, ChainInv
      <4> QED BY <2>4, <3>1, <4>1, AppendElements
    <3>3. ~Excused /\ command.kind # "reset"
      BY <1>2, <2>2, <3>1, <3>2 DEF Excused
    <3>4. \/ command.kind = "start" /\ enabled' /\ ocr' = ocr
          \/ command.kind = "stop" /\ ~enabled'
          \/ command.kind = "restart" /\ enabled'
      BY <1>4, <3>3 DEF Chosen
    <3>5. OnIsComing /\ OffIsComing /\ OcrIsComing /\ StopIsDone
      BY <3>3 DEF Agreement
    <3>6. OnIsComing'
      <4> SUFFICES ASSUME enabled' PROVE Revived'
        BY DEF OnIsComing
      <4>1. PICK k \in DOMAIN chain' : k = Len(chain) + 1
        BY <3>2
      <4>2. Revives(k)'
        BY <3>2, <3>4, <4>1 DEF Revives, Starts
      <4> QED BY <3>2, <4>1, <4>2 DEF Revived
    <3>7. OffIsComing'
      BY <3>2, <3>4 DEF OffIsComing, StopWaits
    <3>8. OcrIsComing'
      <4>1. CASE command.kind = "restart"
        BY <3>2, <4>1 DEF OcrIsComing
      <4>2. CASE command.kind = "start" /\ ocr' = ocr
        <5>1. StopWaits => StopWaits'
          BY <3>2 DEF StopWaits
        <5>2. (\E i \in DOMAIN chain : chain[i].kind = "restart") =>
                \E i \in DOMAIN chain' : chain'[i].kind = "restart"
          BY <3>2
        <5>3. Listens(requests)' <=> Listens(requests)
          BY <1>2, <3>1 DEF Listens, NoStop
        <5>4. CASE enabled
          BY <1>2, <3>1, <3>5, <4>2, <5>1, <5>2, <5>3, <5>4 DEF OcrIsComing
        <5>5. CASE ~enabled
          <6>1. NoStart(requests') <=> NoStart(requests)
            BY <3>1 DEF NoStart
          <6> QED BY <3>5, <5>1, <5>3, <5>5, <6>1 DEF OffIsComing, OcrIsComing, NoStart
        <5> QED BY <5>4, <5>5
      <4>3. CASE ~enabled'
        BY <4>3 DEF OcrIsComing
      <4> QED BY <3>4, <4>1, <4>2, <4>3
    <3>9. StopIsDone'
      BY <1>2, <3>5 DEF StopIsDone
    <3> QED BY <3>6, <3>7, <3>8, <3>9 DEF Agreement
  <2> QED BY <2>3, <2>4
<1> QED BY <1>1, <1>3, <1>4 DEF UserStep

LEMMA ReadyAgrees ==
  ASSUME Control, Control', ClientReady PROVE Agreement'
<1> SUFFICES ASSUME client' # 0, ~Excused' PROVE Agreement'
  BY DEF Agreement
<1> DEFINE command == [kind |-> "ready", client |-> launches, faults |-> TRUE]
<1>1. /\ host = "launching" /\ failed' = FALSE /\ client' = launches
      /\ UNCHANGED <<enabled, ocr, replies, launches, listening, hostOcr, card, commands>>
      /\ Enqueue(command, lifecycle)
  BY DEF ClientReady
<1>2. chain = <<>> /\ replies = <<>> /\ ~listening
  BY <1>1 DEF Control, HostInv
<1>3. requests \in Seq(Requests) /\ OfChain(requests) = {} /\ NoStart(requests)
  <2>1. OfChain(requests) = {} /\ \A i \in DOMAIN requests : requests[i].by = "chain"
    BY <1>1, <1>2 DEF Control, ChainInv, OneAsked, HostInv
  <2> QED BY <2>1 DEF OfChain, NoStart, Control, ChainInv
<1>4. command \in Commands /\ command.client = client' /\ command.kind = "ready"
  BY <1>1 DEF Control, OthersTyped, Commands
<1> HIDE DEF command
<1> DEFINE queue == <<command>>
<1>5. /\ queue \in Seq(Commands) /\ OneReset(queue) /\ DOMAIN queue = {1} /\ queue[1] = command
      /\ GoOn(queue, requests, lifecycle)
  BY <1>1, <1>2, <1>4 DEF Enqueue, OneReset
<1> HIDE DEF queue
<1>6. \A i \in DOMAIN queue : queue[i].client = client'
  BY <1>4, <1>5
<1>7. OfChain(replies') = {} /\ ocr' \in OcrActivations
  BY <1>1, <1>2, Emptied DEF Control, OthersTyped
<1>8. OnFits(queue, requests)
  BY <1>4, <1>5 DEF OnFits
<1>9. OffFits(queue, requests) /\ OcrFits(queue, requests)
  BY <1>1, <1>2 DEF OffFits, OcrFits
<1> QED BY <1>3, <1>5, <1>6, <1>7, <1>8, <1>9, GoneOnAgrees

(* The one answer the running command waits for has come.                  *)
LEMMA AwaitedReply ==
  ASSUME Control, Agreement, client # 0, ~Excused, replies # <<>>, replies' = Tail(replies),
         Reply.by = "chain"
  PROVE  /\ NoStart(requests) /\ OfChain(replies') = {}
         /\ Reply.method # "refused" => ~Refused
         /\ Reply.method = "stop" => ~listening
<1>1. /\ Reply = replies[1] /\ 1 \in DOMAIN replies
      /\ OfChain(replies') = {} /\ OfChain(requests) = {}
  BY Taken DEF Control
<1>2. 1 \in OfChain(replies)
  BY <1>1 DEF OfChain
<1>3. ~Abandoned(requests) /\ ~Abandoned(replies)
  BY DEF Excused
<1>4. NoStart(requests)
  BY <1>1, <1>3 DEF NoStart, Abandoned, OfChain, Control, ChainInv, AnswersFit, StartsAreTheChains
<1>5. ASSUME NEW i \in DOMAIN replies, replies[i].method = "refused" PROVE Reply.method = "refused"
  <2>1. replies[i].by = "chain"
    BY <1>3, <1>5 DEF Abandoned, Control, ChainInv, AnswersFit, StartsAreTheChains
  <2>2. i = 1
    BY <1>2, <2>1 DEF OfChain, Control, ChainInv, OneAsked
  <2> QED BY <1>1, <1>5, <2>2
<1>6. Reply.method = "stop" => ~listening
  <2>1. StopIsDone
    BY DEF Agreement
  <2> QED BY <1>1, <1>2, <2>1 DEF StopIsDone
<1> QED BY <1>1, <1>4, <1>5, <1>6 DEF Refused

(* An excuse holds as long as the client is kept.                          *)
LEMMA ExcuseLasts ==
  ASSUME Control, replies # <<>>, replies' = Tail(replies), Reply.by = "chain", client' # 0,
         NEW queue \in Seq(Commands), OneReset(queue), NEW sent \in Seq(Requests), NEW shown,
         GoOn(queue, sent, shown), \A i \in DOMAIN queue : queue[i].client = client',
         Abandoned(requests') <=> Abandoned(requests),
         (\E i \in DOMAIN chain : chain[i].kind = "reset") =>
            \E i \in DOMAIN queue : queue[i].kind = "reset",
         Excused
  PROVE  Excused'
<1>1. Abandoned(replies') <=> Abandoned(replies)
  BY Taken DEF Control
<1>2. CASE Abandoned(requests) \/ Abandoned(replies)
  BY <1>1, <1>2 DEF Excused
<1>3. CASE \E i \in DOMAIN chain : chain[i].kind = "reset"
  BY <1>3, NoResetLeft
<1> QED BY <1>2, <1>3 DEF Excused

(* What the chain still asks for does not come from its head, unless that  *)
(* is a restart.                                                           *)
LEMMA RestFits ==
  ASSUME Control, Agreement, client # 0, ~Excused, chain # <<>>, chain[1].kind # "restart",
         NoStart(requests), UNCHANGED <<enabled, ocr, listening, hostOcr>>,
         NEW sent, sent = requests \/ (~enabled /\ ~NoStop(sent))
  PROVE  /\ OffFits(Tail(chain), sent) /\ OcrFits(Tail(chain), sent)
         /\ ~failed /\ ~Refused => OnFits(Tail(chain), sent)
<1>1. /\ DOMAIN chain = 1..Len(chain) /\ Len(chain) \in Nat \ {0}
      /\ DOMAIN Tail(chain) = 1..Len(chain) - 1
      /\ \A i \in DOMAIN Tail(chain) : Tail(chain)[i] = chain[i + 1]
  BY RestOfChain DEF Control
<1>2. \A i \in DOMAIN chain : i > 1 => i - 1 \in DOMAIN Tail(chain) /\ Tail(chain)[i - 1] = chain[i]
  BY <1>1
<1>3. \A i \in DOMAIN Tail(chain) : i + 1 \in DOMAIN chain /\ i + 1 > 1
  BY <1>1
<1>4. StopWaits <=> \E i \in DOMAIN Tail(chain) : Tail(chain)[i].kind = "stop"
  BY <1>1, <1>2, <1>3 DEF StopWaits
<1>5. OnIsComing /\ OffIsComing /\ OcrIsComing
  BY DEF Agreement
<1>6. OffFits(Tail(chain), sent)
  BY <1>4, <1>5 DEF OffFits, OffIsComing, Listens
<1>7. OcrFits(Tail(chain), sent)
  <2> SUFFICES ASSUME enabled
               PROVE  \/ \E i \in DOMAIN Tail(chain) : Tail(chain)[i].kind \in {"stop", "restart"}
                      \/ listening /\ NoStop(sent) => hostOcr = ocr
    BY DEF OcrFits
  <2>1. ASSUME NEW i \in DOMAIN chain, chain[i].kind = "restart"
        PROVE  \E j \in DOMAIN Tail(chain) : Tail(chain)[j].kind = "restart"
    <3>1. i > 1
      BY <1>1, <2>1
    <3> QED BY <1>2, <2>1, <3>1
  <2> QED BY <1>4, <1>5, <2>1 DEF OcrIsComing, Listens
<1>8. ASSUME ~failed, ~Refused, enabled
      PROVE  \/ \E i \in DOMAIN Tail(chain) :
                  /\ Tail(chain)[i].kind \in {"ready", "start", "restart"}
                  /\ \A j \in DOMAIN Tail(chain) : j > i => Tail(chain)[j].kind # "stop"
             \/ listening /\ NoStop(sent) /\ \A i \in DOMAIN Tail(chain) : Tail(chain)[i].kind # "stop"
  <2>1. ~StartComes(requests)
    BY DEF StartComes, NoStart
  <2>2. CASE Listens(requests) /\ ~StopWaits
    BY <1>4, <1>8, <2>2 DEF Listens
  <2>3. ASSUME NEW i \in DOMAIN chain, Revives(i), \A j \in DOMAIN chain : j > i => chain[j].kind # "stop"
        PROVE  \E k \in DOMAIN Tail(chain) :
                  /\ Tail(chain)[k].kind \in {"ready", "start", "restart"}
                  /\ \A j \in DOMAIN Tail(chain) : j > k => Tail(chain)[j].kind # "stop"
    <3>1. i > 1 /\ chain[i].kind \in {"ready", "start", "restart"}
      BY <1>1, <2>3 DEF Revives, Starts
    <3>2. i - 1 \in DOMAIN Tail(chain) /\ Tail(chain)[i - 1] = chain[i]
      BY <1>2, <3>1
    <3>3. \A j \in DOMAIN Tail(chain) : j > i - 1 => j + 1 \in DOMAIN chain /\ j + 1 > i
      BY <1>1
    <3>4. \A j \in DOMAIN Tail(chain) : j > i - 1 => Tail(chain)[j].kind # "stop"
      BY <1>1, <2>3, <3>3
    <3> QED BY <3>1, <3>2, <3>4
  <2> QED BY <1>5, <1>8, <2>1, <2>2, <2>3 DEF OnIsComing, Revived
<1>9. ~failed /\ ~Refused => OnFits(Tail(chain), sent)
  BY <1>8 DEF OnFits
<1> QED BY <1>6, <1>7, <1>9

(* The head of the chain ends, and the rest goes on.                       *)
LEMMA HeadEndsInAgreement ==
  ASSUME Control, Control', Agreement, replies # <<>>, replies' = Tail(replies), Reply.by = "chain",
         client' = client, UNCHANGED <<enabled, ocr, host, listening, hostOcr>>,
         \/ failed' = failed /\ Reply.method # "refused"
         \/ failed' = TRUE,
         NEW shown \in Lifecycles, NEW sent,
         \/ sent = requests
         \/ client # 0 /\ ~enabled /\ \E r \in Requests :
               r.by = "direct" /\ r.method = "stop" /\ sent = Append(requests, r),
         GoOn(Tail(chain), sent, shown), chain # <<>>, chain[1].kind \notin {"restart", "reset"}
  PROVE  Agreement'
<1> SUFFICES ASSUME client' # 0, ~Excused' PROVE Agreement'
  BY DEF Agreement
<1>1. /\ Tail(chain) \in Seq(Commands) /\ OneReset(Tail(chain))
      /\ DOMAIN chain = 1..Len(chain) /\ Len(chain) \in Nat \ {0}
      /\ DOMAIN Tail(chain) = 1..Len(chain) - 1
      /\ \A i \in DOMAIN Tail(chain) : Tail(chain)[i] = chain[i + 1]
      /\ \A i \in DOMAIN Tail(chain) : Tail(chain)[i].client = client'
  BY RestOfChain DEF Control
<1>2. Abandoned(requests') <=> Abandoned(requests)
  <2>1. host = "up" => failed' = failed \/ failed' = TRUE
    OBVIOUS
  <2>2. OthersTyped' /\ client' \in {0, client}
    BY DEF Control
  <2> QED BY <1>1, <2>1, <2>2, HeadEndsInControl
<1>3. sent \in Seq(Requests) /\ (NoStart(requests) => NoStart(sent))
      /\ (sent = requests \/ (~enabled /\ ~NoStop(sent)))
  <2>1. CASE sent = requests
    BY <2>1 DEF Control, ChainInv
  <2>2. ASSUME NEW r \in Requests, r.method = "stop", sent = Append(requests, r), ~enabled
        PROVE  /\ sent \in Seq(Requests) /\ (NoStart(requests) => NoStart(sent))
               /\ ~NoStop(sent)
    <3>1. /\ sent \in Seq(Requests) /\ Len(requests) \in Nat
          /\ DOMAIN requests = 1..Len(requests) /\ DOMAIN sent = 1..Len(requests) + 1
          /\ \A i \in DOMAIN requests : sent[i] = requests[i]
          /\ sent[Len(requests) + 1] = r
      BY <2>2, AppendElements DEF Control, ChainInv
    <3>2. \A i \in DOMAIN sent : i \in DOMAIN requests \/ sent[i] = r
      BY <3>1
    <3>3. Len(requests) + 1 \in DOMAIN sent
      BY <3>1
    <3> QED BY <2>2, <3>1, <3>2, <3>3 DEF NoStart, NoStop
  <2> QED BY <2>1, <2>2
<1>4. (\E i \in DOMAIN chain : chain[i].kind = "reset") =>
         \E i \in DOMAIN Tail(chain) : Tail(chain)[i].kind = "reset"
  <2> SUFFICES ASSUME NEW i \in DOMAIN chain, chain[i].kind = "reset"
               PROVE  \E j \in DOMAIN Tail(chain) : Tail(chain)[j].kind = "reset"
    OBVIOUS
  <2>1. i > 1 /\ i - 1 \in DOMAIN Tail(chain)
    BY <1>1
  <2>2. Tail(chain)[i - 1].kind = "reset"
    BY <1>1, <2>1
  <2> QED BY <2>1, <2>2
<1>5. ~Excused
  BY <1>1, <1>2, <1>3, <1>4, ExcuseLasts
<1>6. /\ NoStart(requests) /\ OfChain(replies') = {}
      /\ Reply.method # "refused" => ~Refused
  BY <1>5, AwaitedReply
<1>7. /\ OffFits(Tail(chain), sent) /\ OcrFits(Tail(chain), sent)
      /\ ~failed /\ ~Refused => OnFits(Tail(chain), sent)
  BY <1>3, <1>5, <1>6, RestFits
<1>8. OnFits(Tail(chain), sent)
  BY <1>6, <1>7 DEF OnFits
<1>9. ocr' \in OcrActivations
  BY DEF Control, OthersTyped
<1> QED BY <1>1, <1>3, <1>6, <1>7, <1>8, <1>9, GoneOnAgrees

(* A reply that is not for the chain.                                      *)
LEMMA OtherReplyAgrees ==
  ASSUME Control, Agreement, replies # <<>>, replies' = Tail(replies), Reply.by \notin {"chain", "nobody"},
         client' = client, UNCHANGED <<enabled, ocr, listening, hostOcr, failed>>,
         chain' = chain, Reply.method # "refused",
         \/ requests' = requests
         \/ ~enabled /\ \E r \in Requests :
               r.by = "direct" /\ r.method = "stop" /\ requests' = Append(requests, r)
  PROVE  Agreement'
<1>1. /\ Reply = replies[1] /\ 1 \in DOMAIN replies
      /\ \A i \in DOMAIN replies' : i + 1 \in DOMAIN replies /\ replies'[i] = replies[i + 1]
      /\ \A i \in DOMAIN replies : i > 1 => i - 1 \in DOMAIN replies' /\ replies'[i - 1] = replies[i]
      /\ Abandoned(replies') <=> Abandoned(replies)
  BY Taken DEF Control
<1>2. /\ \A i \in DOMAIN requests : i \in DOMAIN requests' /\ requests'[i] = requests[i]
      /\ \A i \in DOMAIN requests' : i \in DOMAIN requests
             \/ (requests'[i].by = "direct" /\ requests'[i].method = "stop")
      /\ Abandoned(requests') <=> Abandoned(requests)
  BY SentPast DEF Control
<1>3. \A i \in DOMAIN requests' : i \in DOMAIN requests \/ (requests'[i].method = "stop" /\ ~enabled)
  BY <1>2
<1>4. \A i \in DOMAIN replies : i = 1 \/ i > 1
  BY DEF Control, ChainInv
<1>5. Refused => Refused'
  BY <1>1, <1>4 DEF Refused
<1>6. \A i \in OfChain(replies') : \E j \in OfChain(replies) : replies'[i] = replies[j]
  BY <1>1 DEF OfChain
<1>7. Excused' <=> Excused
  BY <1>1, <1>2 DEF Excused
<1> QED BY <1>2, <1>3, <1>5, <1>6, <1>7, AgreementCarries

LEMMA HealthAgrees ==
  ASSUME Control, Control', Agreement, ApplyHealth PROVE Agreement'
<1> DEFINE shown == CASE ~enabled -> "disabled"
                      [] enabled /\ Reply.listening -> "listening"
                      [] OTHER -> "starting"
<1> DEFINE sent == IF ~enabled /\ Reply.listening /\ client # 0
                   THEN Append(requests, Asked("stop", "direct")) ELSE requests
<1>1. /\ Received("health") /\ UNCHANGED <<client, card, failed>>
      /\ IF Reply.by = "chain" THEN GoOn(Tail(chain), sent, shown) ELSE Stay(sent, shown)
  BY DEF ApplyHealth
<1>2. /\ replies # <<>> /\ replies' = Tail(replies)
      /\ Reply.method = "health" /\ Reply.by # "nobody"
      /\ UNCHANGED <<enabled, ocr, host, listening, hostOcr>>
  BY <1>1 DEF Received, hostVars
<1>3. shown \in Lifecycles
  BY DEF Lifecycles
<1>4. \/ sent = requests
      \/ client # 0 /\ ~enabled /\ \E r \in Requests :
            r.by = "direct" /\ r.method = "stop" /\ sent = Append(requests, r)
  BY DirectStop
<1> HIDE DEF sent, shown
<1>5. CASE Reply.by = "chain"
  <2>1. chain # <<>> /\ Starts(chain[1]) /\ GoOn(Tail(chain), sent, shown)
    BY <1>1, <1>2, <1>5, Taken DEF Control
  <2>2. chain[1].kind \notin {"restart", "reset"}
    BY <2>1 DEF Starts
  <2> QED BY <1>1, <1>2, <1>3, <1>4, <1>5, <2>1, <2>2, HeadEndsInAgreement
<1>6. CASE Reply.by # "chain"
  <2>1. requests' = sent /\ chain' = chain
    BY <1>1, <1>6 DEF Stay
  <2> QED BY <1>1, <1>2, <1>4, <1>6, <2>1, OtherReplyAgrees
<1> QED BY <1>5, <1>6

LEMMA StopAgrees ==
  ASSUME Control, Control', Agreement, StopAnswered PROVE Agreement'
<1>1. /\ Received("stop") /\ UNCHANGED <<client, failed>>
      /\ Reply.by = "chain" => Head(chain).kind = "stop"
      /\ IF Reply.by = "chain" THEN GoOn(Tail(chain), requests, "disabled")
                               ELSE Stay(requests, "disabled")
  BY DEF StopAnswered
<1>2. /\ replies # <<>> /\ replies' = Tail(replies)
      /\ Reply.method = "stop" /\ Reply.by # "nobody"
      /\ UNCHANGED <<enabled, ocr, host, listening, hostOcr>>
  BY <1>1 DEF Received, hostVars
<1>3. "disabled" \in Lifecycles
  BY DEF Lifecycles
<1>4. CASE Reply.by = "chain"
  <2>1. chain # <<>> /\ GoOn(Tail(chain), requests, "disabled")
    BY <1>1, <1>2, <1>4, Taken DEF Control
  <2>2. chain[1].kind = "stop"
    BY <1>1, <1>4, <2>1, RestOfChain DEF Control
  <2> QED BY <1>1, <1>2, <1>3, <1>4, <2>1, <2>2, HeadEndsInAgreement
<1>5. CASE Reply.by # "chain"
  <2>1. requests' = requests /\ chain' = chain
    BY <1>1, <1>5 DEF Stay
  <2> QED BY <1>1, <1>2, <1>5, <2>1, OtherReplyAgrees
<1> QED BY <1>4, <1>5

LEMMA SelectionAgrees ==
  ASSUME Control, Agreement, HandleSelection PROVE Agreement'
<1>1. /\ Received("selection") /\ UNCHANGED <<client, failed>> /\ Stay(requests, lifecycle)
  BY DEF HandleSelection
<1>2. /\ replies # <<>> /\ replies' = Tail(replies)
      /\ Reply.method = "selection" /\ Reply.by # "nobody"
      /\ UNCHANGED <<enabled, ocr, host, listening, hostOcr>>
      /\ requests' = requests /\ chain' = chain
  BY <1>1 DEF Received, hostVars, Stay
<1>3. Reply.by # "chain"
  <2>1. Reply.by = "chain" => Reply.method \in {"start", "health", "refused", "stop"}
    BY <1>2, Taken DEF Control
  <2> QED BY <1>2, <2>1
<1> QED BY <1>1, <1>2, <1>3, OtherReplyAgrees

LEMMA RefusalAgrees ==
  ASSUME Control, Control', Agreement, StartRefused PROVE Agreement'
<1>1. /\ Received("refused") /\ client' = client /\ Fail(requests, lifecycle)
  BY DEF StartRefused
<1>2. /\ replies # <<>> /\ replies' = Tail(replies)
      /\ Reply.method = "refused" /\ Reply.by # "nobody"
      /\ UNCHANGED <<enabled, ocr, host, listening, hostOcr>>
  BY <1>1 DEF Received, hostVars
<1>3. Reply.by = "chain"
  BY <1>2, Taken DEF Control, ChainInv, AnswersFit, StartsAreTheChains
<1>4. chain # <<>> /\ Starts(chain[1]) /\ lifecycle \in Lifecycles
  BY <1>2, <1>3, Taken DEF Control, ChainInv
<1>5. chain[1].kind \notin {"restart", "reset"}
  BY <1>4 DEF Starts
<1>6. PICK after \in Lifecycles : GoOn(Tail(chain), requests, after) /\ failed' = (host' = "up")
  BY <1>1, <1>4, <1>5, Failed DEF Control
<1>7. CASE client = 0
  BY <1>1, <1>7 DEF Agreement
<1>8. CASE client # 0
  <2>1. failed' = TRUE
    <3>1. host' = "up"
      BY <1>2, <1>8 DEF Control, HostInv
    <3> QED BY <1>6, <3>1, Zenon
  <2> QED BY <1>1, <1>2, <1>3, <1>4, <1>5, <1>6, <2>1, HeadEndsInAgreement
<1> QED BY <1>7, <1>8

LEMMA AnsweredStartAgrees ==
  ASSUME Control, Agreement, StartAnswered PROVE Agreement'
<1> DEFINE ask == Asked("health", "chain")
<1>1. /\ Received("start") /\ UNCHANGED <<client, failed>>
      /\ Stay(Append(requests, ask), lifecycle)
  BY DEF StartAnswered
<1>2. /\ replies # <<>> /\ replies' = Tail(replies)
      /\ Reply.method = "start" /\ Reply.by # "nobody"
      /\ UNCHANGED <<enabled, ocr, listening, hostOcr>>
      /\ requests' = Append(requests, ask) /\ chain' = chain
  BY <1>1 DEF Received, hostVars, Stay
<1>3. ask \in Requests /\ ask.by = "chain" /\ ask.method = "health"
  BY DEF Asked, Requests, Askers, OcrActivations
<1> HIDE DEF ask
<1>4. Reply.by = "chain"
  BY <1>2, Taken DEF Control, ChainInv, AnswersFit, StartsAreTheChains
<1> SUFFICES ASSUME client' # 0, ~Excused' PROVE Agreement'
  BY DEF Agreement
<1>5. /\ requests' \in Seq(Requests) /\ Len(requests) \in Nat
      /\ DOMAIN requests = 1..Len(requests) /\ DOMAIN requests' = 1..Len(requests) + 1
      /\ \A i \in DOMAIN requests : requests'[i] = requests[i]
      /\ requests'[Len(requests) + 1] = ask
  BY <1>2, <1>3, AppendElements DEF Control, ChainInv
<1>6. /\ \A i \in DOMAIN requests : i \in DOMAIN requests' /\ requests'[i] = requests[i]
      /\ \A i \in DOMAIN requests' : i \in DOMAIN requests \/ requests'[i].method = "health"
  <2>1. \A i \in DOMAIN requests' : i \in DOMAIN requests \/ i = Len(requests) + 1
    BY <1>5
  <2> QED BY <1>3, <1>5, <2>1
<1>7. Abandoned(requests) => Abandoned(requests')
  BY <1>6 DEF Abandoned
<1>8. Abandoned(replies') <=> Abandoned(replies)
  BY <1>2, Taken DEF Control
<1>9. ~Excused
  BY <1>2, <1>7, <1>8 DEF Excused
<1>10. ~Refused /\ OfChain(replies') = {}
  BY <1>1, <1>2, <1>4, <1>9, AwaitedReply
<1> QED BY <1>1, <1>2, <1>6, <1>9, <1>10, AgreementCarries

LEMMA RestartAgrees ==
  ASSUME Control, Control', Agreement, RestartStopped PROVE Agreement'
<1> DEFINE second == CommandTo("start", Head(chain).faults)
<1>1. /\ Received("stop") /\ UNCHANGED <<client, failed>> /\ Reply.by = "chain"
      /\ Head(chain).kind = "restart" /\ GoOn(<<second>> \o Tail(chain), requests, lifecycle)
  BY DEF RestartStopped
<1>2. /\ replies # <<>> /\ replies' = Tail(replies) /\ Reply.method = "stop"
      /\ UNCHANGED <<enabled, ocr, host, listening, hostOcr>>
  BY <1>1 DEF Received, hostVars
<1>3. chain # <<>>
  BY <1>1, <1>2, Taken DEF Control
<1>4. /\ Head(chain) = chain[1] /\ chain[1] \in Commands /\ DOMAIN chain = 1..Len(chain)
      /\ Len(chain) \in Nat \ {0}
  BY <1>3, RestOfChain DEF Control
<1>5. second \in Commands /\ second.client = client /\ second.kind = "start"
  BY <1>4 DEF Control, OthersTyped, CommandTo, Commands
<1> HIDE DEF second
<1> DEFINE queue == <<second>> \o Tail(chain)
<1>6. /\ queue \in Seq(Commands) /\ DOMAIN queue = DOMAIN chain /\ queue[1] = second
      /\ \A i \in DOMAIN chain : i > 1 => queue[i] = chain[i]
  BY <1>3, <1>5, ReplaceHead DEF Control, ChainInv
<1>7. GoOn(queue, requests, lifecycle)
  BY <1>1
<1> HIDE DEF queue
<1>8. \A i \in DOMAIN queue : i = 1 \/ i > 1
  BY <1>4, <1>6
<1>9. OneReset(queue)
  BY <1>5, <1>6, <1>8 DEF OneReset, Control, ChainInv, Resets
<1>10. client # 0 => \A i \in DOMAIN queue : queue[i].client = client
  BY <1>5, <1>6, <1>8 DEF Control, ChainInv, CommandsFit
<1> SUFFICES ASSUME client' # 0, ~Excused' PROVE Agreement'
  BY DEF Agreement
<1>11. lifecycle \in Lifecycles /\ OthersTyped' /\ ocr' \in OcrActivations /\ requests \in Seq(Requests)
  BY DEF Control, ChainInv, OthersTyped
<1>12. Abandoned(requests') <=> Abandoned(requests)
  BY <1>1, <1>2, <1>6, <1>7, <1>9, <1>10, <1>11, HeadEndsInControl
<1>13. (\E i \in DOMAIN chain : chain[i].kind = "reset") => \E i \in DOMAIN queue : queue[i].kind = "reset"
  BY <1>1, <1>4, <1>6, <1>8
<1>14. ~Excused
  BY <1>1, <1>2, <1>6, <1>7, <1>9, <1>10, <1>11, <1>12, <1>13, ExcuseLasts
<1>15. NoStart(requests) /\ OfChain(replies') = {} /\ ~Refused /\ ~listening
  BY <1>1, <1>2, <1>14, AwaitedReply
<1>16. OnIsComing /\ OffIsComing
  BY <1>1, <1>14 DEF Agreement
<1>17. OnFits(queue, requests)
  <2> SUFFICES ASSUME enabled, ~failed
               PROVE  \E i \in DOMAIN queue :
                        /\ queue[i].kind \in {"ready", "start", "restart"}
                        /\ \A j \in DOMAIN queue : j > i => queue[j].kind # "stop"
    BY <1>1, <1>2 DEF OnFits
  <2>1. ~StartComes(requests) /\ ~Listens(requests)
    BY <1>15 DEF StartComes, NoStart, Listens
  <2>2. PICK i \in DOMAIN chain : Revives(i) /\ \A j \in DOMAIN chain : j > i => chain[j].kind # "stop"
    BY <1>15, <1>16, <2>1 DEF OnIsComing, Revived
  <2>3. queue[i].kind \in {"ready", "start", "restart"}
    BY <1>5, <1>6, <1>8, <2>2 DEF Revives, Starts
  <2>4. \A j \in DOMAIN queue : j > i => j > 1
    BY <1>4, <1>6
  <2> QED BY <1>6, <2>2, <2>3, <2>4
<1>18. OffFits(queue, requests) /\ OcrFits(queue, requests)
  BY <1>2, <1>15 DEF OffFits, OcrFits
<1> QED BY <1>1, <1>6, <1>7, <1>9, <1>10, <1>11, <1>15, <1>17, <1>18, GoneOnAgrees

(* The host does what it is asked.                                         *)
LEMMA AnsweringAgrees ==
  ASSUME Control, Agreement, HostAnswers PROVE Agreement'
<1> SUFFICES ASSUME client' # 0, ~Excused' PROVE Agreement'
  BY DEF Agreement
<1>1. PICK asked \in Requests, answer \in Replies :
        /\ requests # <<>> /\ asked = requests[1] /\ requests' = Tail(requests)
        /\ replies' = Append(replies, answer) /\ answer.by = asked.by
        /\ \/ answer.method = asked.method
              /\ listening' = CASE asked.method = "stop" -> FALSE
                                [] asked.method = "start" -> TRUE
                                [] OTHER -> listening
           \/ answer.method = "refused" /\ asked.method = "start" /\ ~listening /\ ~listening'
        /\ listening' => hostOcr' = IF listening THEN hostOcr ELSE asked.ocr
        /\ UNCHANGED <<uiVars, client, chain, failed>>
  BY Answered
<1>2. UNCHANGED <<enabled, ocr, client, chain, failed>>
  BY <1>1 DEF uiVars
<1>3. /\ 1 \in DOMAIN requests
      /\ \A i \in DOMAIN requests' : i + 1 \in DOMAIN requests /\ requests'[i] = requests[i + 1]
      /\ \A i \in DOMAIN requests : i > 1 => i - 1 \in DOMAIN requests' /\ requests'[i - 1] = requests[i]
      /\ \A i \in DOMAIN requests : i \in Nat /\ (i = 1 \/ i > 1)
      /\ \A i \in DOMAIN requests' : i \in Nat /\ i + 1 > 1
  <2>1. /\ Len(Tail(requests)) = Len(requests) - 1 /\ Len(requests) \in Nat \ {0}
        /\ DOMAIN requests = 1..Len(requests) /\ DOMAIN Tail(requests) = 1..Len(requests) - 1
        /\ \A i \in DOMAIN Tail(requests) : Tail(requests)[i] = requests[i + 1]
    BY <1>1, TailElements DEF Control, ChainInv
  <2> QED BY <1>1, <2>1
<1>4. /\ \A i \in DOMAIN replies : i \in DOMAIN replies' /\ replies'[i] = replies[i]
      /\ \A i \in DOMAIN replies' : i \in DOMAIN replies \/ replies'[i] = answer
      /\ \E i \in DOMAIN replies' : replies'[i] = answer
  <2>1. /\ Len(replies) \in Nat
        /\ DOMAIN replies = 1..Len(replies) /\ DOMAIN replies' = 1..Len(replies) + 1
        /\ \A i \in DOMAIN replies : replies'[i] = replies[i]
        /\ replies'[Len(replies) + 1] = answer
    BY <1>1, AppendElements DEF Control, ChainInv
  <2> QED BY <2>1
<1>5. ~Excused /\ asked.by # "nobody"
  <2>1. asked.by # "nobody" /\ ~Abandoned(replies)
    BY <1>1, <1>4 DEF Excused, Abandoned
  <2>2. ~Abandoned(requests)
    BY <1>1, <1>3, <2>1 DEF Excused, Abandoned
  <2> QED BY <1>2, <2>1, <2>2 DEF Excused
<1>6. OnIsComing /\ OffIsComing /\ OcrIsComing /\ StopIsDone
  BY <1>2, <1>5 DEF Agreement
<1>7. StopWaits' = StopWaits /\ Revived' = Revived
  BY <1>2 DEF StopWaits, Revived, Revives, Starts
<1>8. NoStop(requests') /\ asked.method # "stop" => NoStop(requests)
  BY <1>1, <1>3 DEF NoStop
<1>9. /\ asked.method \in {"start", "stop", "health"}
      /\ asked.method = "stop" => ~listening'
      /\ asked.method = "health" => listening' = listening
      /\ asked.method = "start" /\ answer.method # "refused" => listening'
      /\ listening /\ asked.method # "stop" => listening'
  <2>1. asked.method \in {"start", "stop", "health"}
    BY DEF Requests
  <2>2. listening \in BOOLEAN
    BY DEF Control, OthersTyped
  <2> QED BY <1>1, <2>1, <2>2
<1>10. OnIsComing'
  <2> SUFFICES ASSUME enabled, ~failed, ~StopWaits, ~Refused', StartComes(requests) \/ Listens(requests)
               PROVE  StartComes(requests)' \/ Listens(requests)'
    <3>1. Refused => Refused'
      BY <1>4 DEF Refused
    <3> QED BY <1>2, <1>6, <1>7, <3>1 DEF OnIsComing
  <2>1. answer.method # "refused"
    BY <1>4 DEF Refused
  <2>2. CASE Listens(requests)
    <3>1. asked.method # "stop" /\ NoStop(requests')
      BY <1>1, <1>3, <2>2 DEF Listens, NoStop
    <3>2. listening'
      BY <1>9, <2>2, <3>1 DEF Listens
    <3> QED BY <3>1, <3>2 DEF Listens, NoStop
  <2>3. ASSUME NEW i \in DOMAIN requests, requests[i].method = "start",
               \A j \in DOMAIN requests : j > i => requests[j].method # "stop"
        PROVE  StartComes(requests)' \/ Listens(requests)'
    <3>1. CASE i = 1
      <4>1. listening' /\ NoStop(requests')
        BY <1>1, <1>3, <1>9, <2>1, <2>3, <3>1 DEF NoStop
      <4> QED BY <4>1 DEF Listens, NoStop
    <3>2. CASE i > 1
      <4>1. i - 1 \in DOMAIN requests' /\ requests'[i - 1].method = "start"
        BY <1>3, <2>3, <3>2
      <4>2. \A j \in DOMAIN requests' : j > i - 1 => j + 1 > i
        BY <1>3
      <4>3. \A j \in DOMAIN requests' : j > i - 1 => requests'[j].method # "stop"
        BY <1>3, <2>3, <4>2
      <4> QED BY <4>1, <4>3 DEF StartComes
    <3> QED BY <1>3, <3>1, <3>2
  <2> QED BY <2>2, <2>3 DEF StartComes
<1>11. OffIsComing'
  <2> SUFFICES ASSUME NoStart(requests), ~Listens(requests)
               PROVE  NoStart(requests)' /\ ~Listens(requests)'
    BY <1>2, <1>6, <1>7 DEF OffIsComing
  <2>1. NoStart(requests)' /\ asked.method # "start"
    BY <1>1, <1>3 DEF NoStart
  <2>2. ASSUME listening', NoStop(requests') PROVE FALSE
    <3>1. asked.method = "health"
      BY <1>9, <2>1, <2>2
    <3>2. NoStop(requests) /\ listening
      BY <1>8, <1>9, <2>2, <3>1
    <3> QED BY <3>2 DEF Listens
  <2> QED BY <2>1, <2>2 DEF Listens, NoStop
<1>12. OcrIsComing'
  <2> SUFFICES ASSUME Listens(requests) => hostOcr = ocr,
                      \A i \in DOMAIN requests : requests[i].method = "start" => requests[i].ocr = ocr
               PROVE  /\ Listens(requests)' => hostOcr' = ocr
                      /\ \A i \in DOMAIN requests' : requests'[i].method = "start" => requests'[i].ocr = ocr
    BY <1>2, <1>6, <1>7 DEF OcrIsComing
  <2>1. \A i \in DOMAIN requests' : requests'[i].method = "start" => requests'[i].ocr = ocr
    BY <1>3
  <2>2. ASSUME listening', NoStop(requests') PROVE hostOcr' = ocr
    <3>1. asked.method # "stop" /\ NoStop(requests)
      BY <1>8, <1>9, <2>2
    <3>2. CASE listening
      BY <1>1, <2>2, <3>1, <3>2 DEF Listens
    <3>3. CASE ~listening
      <4>1. asked.method = "start"
        BY <1>9, <2>2, <3>1, <3>3
      <4> QED BY <1>1, <1>3, <2>2, <3>3, <4>1
    <3> QED BY <3>2, <3>3
  <2> QED BY <2>1, <2>2 DEF Listens, NoStop
<1>13. StopIsDone'
  <2> SUFFICES ASSUME NEW i \in OfChain(replies'), replies'[i].method = "stop"
               PROVE  ~listening'
    BY DEF StopIsDone
  <2>1. CASE replies'[i] = answer
    BY <1>1, <1>9, <2>1
  <2>2. CASE i \in DOMAIN replies
    <3>1. i \in OfChain(replies) /\ ~listening
      BY <1>4, <1>6, <2>2 DEF OfChain, StopIsDone
    <3>2. OfChain(requests) = {}
      BY <3>1 DEF Control, ChainInv, OneAsked
    <3>3. asked.by # "chain"
      BY <1>1, <1>3, <3>2 DEF OfChain
    <3>4. asked.method # "start"
      BY <1>1, <1>3, <1>5, <3>3 DEF Control, ChainInv, AnswersFit, StartsAreTheChains
    <3> QED BY <1>9, <3>1, <3>4
  <2> QED BY <1>4, <2>1, <2>2 DEF OfChain
<1> QED BY <1>10, <1>11, <1>12, <1>13 DEF Agreement

LEMMA SelectingAgrees ==
  ASSUME Control, Agreement, HostSelects PROVE Agreement'
<1> DEFINE event == [method |-> "selection", by |-> "host", listening |-> TRUE]
<1>1. /\ replies' = Append(replies, event)
      /\ UNCHANGED <<enabled, ocr, client, chain, requests, listening, hostOcr, failed>>
  BY DEF HostSelects, uiVars, hostVars
<1>2. event \in Replies /\ event.by = "host"
  BY DEF Replies
<1> HIDE DEF event
<1>3. /\ \A i \in DOMAIN replies : i \in DOMAIN replies' /\ replies'[i] = replies[i]
      /\ \A i \in DOMAIN replies' : i \in DOMAIN replies \/ replies'[i] = event
  <2>1. /\ Len(replies) \in Nat
        /\ DOMAIN replies = 1..Len(replies) /\ DOMAIN replies' = 1..Len(replies) + 1
        /\ \A i \in DOMAIN replies : replies'[i] = replies[i]
        /\ replies'[Len(replies) + 1] = event
    BY <1>1, <1>2, AppendElements DEF Control, ChainInv
  <2> QED BY <2>1
<1>4. Excused' <=> Excused
  <2>1. Abandoned(replies') <=> Abandoned(replies)
    BY <1>2, <1>3 DEF Abandoned
  <2> QED BY <1>1, <2>1 DEF Excused
<1>5. Refused => Refused'
  BY <1>3 DEF Refused
<1>6. \A i \in OfChain(replies') : \E j \in OfChain(replies) : replies'[i] = replies[j]
  BY <1>2, <1>3 DEF OfChain
<1> QED BY <1>1, <1>4, <1>5, <1>6, AgreementCarries

LEMMA PollingAgrees ==
  ASSUME Control, Agreement, Poll PROVE Agreement'
<1> DEFINE ask == [method |-> "health", by |-> "poll", ocr |-> "fallback"]
<1>1. /\ requests' = Append(requests, ask)
      /\ UNCHANGED <<enabled, ocr, client, chain, replies, listening, hostOcr, failed>>
  BY DEF Poll, uiVars, hostVars
<1>2. ask \in Requests /\ ask.by = "poll" /\ ask.method = "health"
  BY DEF Requests, Askers, OcrActivations
<1> HIDE DEF ask
<1>3. /\ \A i \in DOMAIN requests : i \in DOMAIN requests' /\ requests'[i] = requests[i]
      /\ \A i \in DOMAIN requests' : i \in DOMAIN requests \/ requests'[i] = ask
  <2>1. /\ Len(requests) \in Nat
        /\ DOMAIN requests = 1..Len(requests) /\ DOMAIN requests' = 1..Len(requests) + 1
        /\ \A i \in DOMAIN requests : requests'[i] = requests[i]
        /\ requests'[Len(requests) + 1] = ask
    BY <1>1, <1>2, AppendElements DEF Control, ChainInv
  <2> QED BY <2>1
<1>4. Excused' <=> Excused
  <2>1. Abandoned(requests') <=> Abandoned(requests)
    BY <1>2, <1>3 DEF Abandoned
  <2> QED BY <1>1, <2>1 DEF Excused
<1>5. Refused' = Refused /\ OfChain(replies') = OfChain(replies)
  BY <1>1 DEF Refused, OfChain
<1>6. \A i \in DOMAIN requests' : i \in DOMAIN requests \/ requests'[i].method = "health"
  BY <1>2, <1>3
<1> QED BY <1>1, <1>3, <1>4, <1>5, <1>6, AgreementCarries

(* A timer that fires leaves an answer nobody waits for.                   *)
LEMMA TimeoutIsExcused ==
  ASSUME Control, RequestTimesOut, client' # 0 PROVE Excused'
<1>1. chain # <<>> /\ replies' = Disown(replies) /\ client # 0
  BY DEF RequestTimesOut
<1>2. Abandoned(requests') <=> Abandoned(Disown(requests))
  BY TimeoutKeepsControl
<1>3. OfChain(requests) # {} \/ OfChain(replies) # {}
  BY <1>1 DEF Control, ChainInv, OneAsked
<1>4. OfChain(requests) # {} => Abandoned(Disown(requests))
  BY Disowned DEF Control, ChainInv
<1>5. OfChain(replies) # {} => Abandoned(Disown(replies))
  BY Disowned DEF Control, ChainInv
<1> QED BY <1>1, <1>2, <1>3, <1>4, <1>5 DEF Excused

LEMMA AgreementStays ==
  ASSUME Control, Agreement, [Next]_vars PROVE Agreement'
<1>1. Control'
  BY ControlStays
<1>2. CASE Users
  BY <1>1, <1>2, UsersKeepAgreement
<1>3. CASE Receive
  <2>1. CASE ResetStopped
    BY <2>1 DEF ResetStopped, Agreement
  <2>2. CASE LateAnswer
    BY <2>2, ClosingKeepsControl DEF LateAnswer, Agreement
  <2> QED BY <1>1, <1>3, <2>1, <2>2, HealthAgrees, AnsweredStartAgrees, RefusalAgrees, StopAgrees,
             RestartAgrees, SelectionAgrees DEF Receive
<1>4. CASE HostAnswers \/ HostSelects \/ Poll
  BY <1>4, AnsweringAgrees, SelectingAgrees, PollingAgrees
<1>5. CASE RequestTimesOut
  BY <1>5, TimeoutIsExcused DEF Agreement
<1>6. CASE PipeBreaks \/ PipeCloses \/ HostStops \/ PollFails \/ ProcessExits \/ LaunchFails
  BY <1>6, ClosingKeepsControl, LossKeepsControl DEF Agreement
<1>7. CASE Relaunch
  <2>1. client' = 0
    BY <1>7 DEF Relaunch, Control, HostInv
  <2> QED BY <2>1 DEF Agreement
<1>8. CASE ClientReady
  BY <1>1, <1>8, ReadyAgrees
<1>9. CASE HandlePointerDown \/ Schedule \/ UNCHANGED vars
  <2>1. UNCHANGED <<client, enabled, ocr, chain, listening, hostOcr, failed, requests, replies>>
    BY <1>9 DEF HandlePointerDown, Schedule, vars, uiVars, hostVars, pipeVars
  <2> QED BY <2>1, AgreementUntouched
<1> QED BY <1>2, <1>3, <1>4, <1>5, <1>6, <1>7, <1>8, <1>9 DEF Next, Users

(* Nothing is on its way any more.                                         *)
LEMMA QuietAgrees == Control /\ Agreement => HostAgrees
<1> SUFFICES ASSUME Control, Agreement PROVE HostAgrees
  OBVIOUS
<1>1. TypeOK
  BY ControlIsTyped
<1>2. QuietHostAgrees
  <2> SUFFICES ASSUME client # 0, chain = <<>>, requests \o replies = <<>>
               PROVE  /\ listening => enabled /\ hostOcr = ocr
                      /\ enabled /\ ~failed => listening
    BY DEF QuietHostAgrees
  <2>1. requests = <<>> /\ replies = <<>>
    <3>1. requests \in Seq(Requests) /\ replies \in Seq(Replies)
      BY DEF Control, ChainInv
    <3>2. Len(requests \o replies) = Len(requests) + Len(replies) /\ Len(<<>>) = 0
      BY <3>1
    <3>3. Len(requests) = 0 /\ Len(replies) = 0
      BY <3>1, <3>2
    <3> QED BY <3>1, <3>3
  <2>2. DOMAIN chain = {} /\ DOMAIN requests = {} /\ DOMAIN replies = {}
    BY <2>1, Emptied
  <2>3. OnIsComing /\ OffIsComing /\ OcrIsComing
    BY <2>2 DEF Agreement, Excused, Abandoned
  <2>4. ~StopWaits /\ ~Revived /\ ~Refused /\ ~StartComes(requests) /\ (Listens(requests) <=> listening)
    BY <2>2 DEF StopWaits, Revived, Refused, StartComes, Listens, NoStop
  <2>5. \A i \in DOMAIN chain : chain[i].kind # "restart"
    BY <2>2
  <2>6. listening => enabled
    BY <2>3, <2>4 DEF OffIsComing
  <2>7. listening => hostOcr = ocr
    BY <2>3, <2>4, <2>5, <2>6 DEF OcrIsComing
  <2>8. enabled /\ ~failed => listening
    BY <2>3, <2>4 DEF OnIsComing
  <2> QED BY <2>6, <2>7, <2>8
<1> QED BY <1>1, <1>2 DEF HostAgrees

-----------------------------------------------------------------------------
(* The theorems.                                                           *)

LEMMA InvariantHolds == Spec => [](Control /\ Agreement /\ NoCardWhenPaused)
<1>1. Init => Control /\ Agreement /\ NoCardWhenPaused
  BY ControlHolds DEF Init, Agreement, NoCardWhenPaused
<1>2. (Control /\ Agreement /\ NoCardWhenPaused) /\ [Next]_vars
        => (Control /\ Agreement /\ NoCardWhenPaused)'
  BY ControlStays, AgreementStays, CardStays
<1> QED BY <1>1, <1>2, PTL DEF Spec

(* When no command runs and nothing is on its way, the host does what the  *)
(* switch says, with the activation the settings show; and every state has *)
(* its type: whatever users, displays, timers, losses and a reset do to    *)
(* the commands chained on selectionCommand.                               *)
THEOREM HostDoesAsTold == Spec => []HostAgrees
BY InvariantHolds, QuietAgrees, PTL

(* No card is shown while the selection is paused or the local data are    *)
(* being cleared (handleSelection against setSelectionEnabled).            *)
THEOREM PausedMeansNoCard == Spec => []NoCardWhenPaused
BY InvariantHolds, PTL

(* A reset that has given its client up keeps the host silent, but for a   *)
(* start that ran into its timer (performClearAllLocalData).               *)
THEOREM ResetMeansSilent == Spec => SilentAfterReset
<1>1. Control /\ [Next]_vars =>
        [(reset \in {"stopping", "done"} /\ ~failed /\ listening') => listening]_vars
  BY SilenceStays
<1> QED BY <1>1, InvariantHolds, PTL DEF Spec, SilentAfterReset

=============================================================================
