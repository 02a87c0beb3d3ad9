---------------------------- MODULE BoundedFifo ----------------------------
(***************************************************************************)
(* What ring_buffer.hpp promises its two threads: a bounded first-in       *)
(* first-out queue.  Each step is atomic here; RingBuffer shows that the   *)
(* loads and stores of the implementation refine it.                       *)
(***************************************************************************)
EXTENDS Naturals, Sequences

CONSTANTS Bound,   \* how many values fit
          Value    \* the values that are queued

VARIABLES queue,   \* the values pushed and not yet popped, oldest first
          seen     \* the last value the consumer has read

vars == <<queue, seen>>

Init ==
  /\ queue = <<>>
  /\ seen \in Value

(* One value enters at the back, if there is room.                         *)
Push(v) ==
  /\ Len(queue) < Bound
  /\ queue' = Append(queue, v)
  /\ UNCHANGED seen

(* The consumer looks at the oldest value.                                 *)
Front ==
  /\ queue # <<>>
  /\ seen' = Head(queue)
  /\ UNCHANGED queue

(* The n oldest values leave together.                                     *)
Drop(n) ==
  /\ n \in 0..Len(queue)
  /\ queue' = SubSeq(queue, n + 1, Len(queue))
  /\ UNCHANGED seen

Next ==
  \/ \E v \in Value : Push(v)
  \/ Front
  \/ \E n \in 0..Bound : Drop(n)

Spec == Init /\ [][Next]_vars
=============================================================================
