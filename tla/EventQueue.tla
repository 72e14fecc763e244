------------------------------ MODULE EventQueue ------------------------------
(***************************************************************************)
(* What the event ring of edgecore promises its user: a bounded FIFO queue *)
(* that never blocks.  An event is appended at the back while there is     *)
(* room; when there is none the queue keeps its length and only its oldest *)
(* entry changes, into the overflow marker; the host takes events from the *)
(* front.                                                                  *)
(***************************************************************************)
EXTENDS Naturals, Sequences

CONSTANTS Capacity, Overflow
VARIABLE queue

Init == queue = <<>>

Append1 ==
  /\ Len(queue) < Capacity
  /\ Len(queue') = Len(queue) + 1
  /\ SubSeq(queue', 1, Len(queue)) = queue

Overrun ==
  /\ Len(queue) = Capacity
  /\ queue' = [queue EXCEPT ![1] = Overflow]

Take ==
  /\ queue # <<>>
  /\ queue' = Tail(queue)

Next == Append1 \/ Overrun \/ Take

Spec == Init /\ [][Next]_queue
===============================================================================
