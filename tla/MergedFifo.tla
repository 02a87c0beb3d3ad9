------------------------------ MODULE MergedFifo ------------------------------
(***************************************************************************)
(* What a message connection promises: the messages of each producer       *)
(* arrive in the order that producer sent them, each once; those of        *)
(* different producers interleave in any way.                              *)
(***************************************************************************)
EXTENDS Naturals, Sequences, FiniteSets

CONSTANT Producer

VARIABLES count,      \* how many messages each producer sent
          received    \* pairs <<producer, number>>, as they arrived

Init == count = [k \in Producer |-> 0] /\ received = <<>>

Arrived(k) == Cardinality({n \in DOMAIN received : received[n][1] = k})

Send(k) ==
  /\ count' = [count EXCEPT ![k] = @ + 1]
  /\ UNCHANGED received

Receive(k) ==
  /\ Arrived(k) < count[k]
  /\ received' = Append(received, <<k, Arrived(k) + 1>>)
  /\ UNCHANGED count

Next == \E k \in Producer : Send(k) \/ Receive(k)
Spec == Init /\ [][Next]_<<count, received>>
=============================================================================
