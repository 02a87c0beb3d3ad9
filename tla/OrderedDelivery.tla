--------------------------- MODULE OrderedDelivery ---------------------------
(***************************************************************************)
(* What a reliable multicast promises its receiver: the messages sent, in  *)
(* the order they were sent, each once, in pieces of any size, none of     *)
(* them lost between two that arrive.  A message is its number.            *)
(***************************************************************************)
EXTENDS Naturals, Sequences

CONSTANT Firsts    \* the numbers the first message sent may have

VARIABLES sent,      \* the number of the next message to be sent
          received,  \* what the receiver has been given, oldest first
          taken      \* how much of it the receiver has removed

Init == sent \in Firsts /\ received = <<>> /\ taken = 0

Send == sent' = sent + 1 /\ UNCHANGED <<received, taken>>

\* The next n messages arrive together.
Deliver(n) ==
  /\ Len(received) + n <= sent
  /\ received' = received \o [i \in 1 .. n |-> Len(received) + (i - 1)]
  /\ UNCHANGED <<sent, taken>>

Take ==
  /\ taken < Len(received)
  /\ taken' = taken + 1
  /\ UNCHANGED <<sent, received>>

Next == Send \/ (\E n \in 1 .. sent : Deliver(n)) \/ Take

Spec == Init /\ [][Next]_<<sent, received, taken>>
=============================================================================
