----------------------------- MODULE BoundedFifo -----------------------------
(***************************************************************************)
(* What the queue between the mouse hook and the selection pipeline        *)
(* promises: values come out once, in the order they went in; a push is    *)
(* refused only when the queue is full, a pop only when it is empty; no    *)
(* call waits for the other side.                                          *)
(***************************************************************************)
EXTENDS Naturals, Sequences

CONSTANTS Values, Capacity, None

VARIABLES
  fifo,     \* the values in the queue, oldest first
  answer,   \* whether the newest push was accepted
  popped    \* what the newest pop returned, or None

vars == <<fifo, answer, popped>>

Init == fifo = <<>> /\ answer = TRUE /\ popped = None

Push(v) ==
  /\ Len(fifo) < Capacity
  /\ fifo' = Append(fifo, v)
  /\ answer' = TRUE
  /\ UNCHANGED popped

Refuse ==
  /\ Len(fifo) = Capacity
  /\ answer' = FALSE
  /\ UNCHANGED <<fifo, popped>>

Pop ==
  /\ fifo # <<>>
  /\ popped' = Head(fifo)
  /\ fifo' = Tail(fifo)
  /\ UNCHANGED answer

FindEmpty ==
  /\ fifo = <<>>
  /\ popped' = None
  /\ UNCHANGED <<fifo, answer>>

Next == (\E v \in Values : Push(v)) \/ Refuse \/ Pop \/ FindEmpty

Spec == Init /\ [][Next]_vars

=============================================================================
