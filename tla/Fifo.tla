-------------------------------- MODULE Fifo --------------------------------
(* What a first-in first-out queue promises: elements leave in the order   *)
(* they came, and the answer to a pop is the front element, or none.       *)
EXTENDS Naturals, Sequences

CONSTANTS
  Values,   \* what may be pushed
  None      \* the answer of a pop from an empty queue

VARIABLES
  items,    \* the queue
  answer    \* what the last pop returned

Init == items = <<>> /\ answer = None

Push(v) == items' = Append(items, v) /\ UNCHANGED answer

PopFront ==
  \/ items = <<>> /\ answer' = None /\ UNCHANGED items
  \/ items # <<>> /\ answer' = Head(items) /\ items' = Tail(items)

Next == PopFront \/ \E v \in Values : Push(v)

Spec == Init /\ [][Next]_<<items, answer>>
=============================================================================
