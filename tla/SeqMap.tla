-------------------------------- MODULE SeqMap --------------------------------
(***************************************************************************)
(* What seqdict_pool promises: a map whose keys are handed out in order    *)
(* and never used again, holding at most Bound values.                     *)
(***************************************************************************)
EXTENDS Naturals, FiniteSets

CONSTANTS Bound, Value

VARIABLES map,    \* key -> value
          next    \* the next key

Init == map = <<>> /\ next = 0

PushBack(v) ==
  /\ Cardinality(DOMAIN map) < Bound
  /\ map' = [k \in DOMAIN map \cup {next} |-> IF k = next THEN v ELSE map[k]]
  /\ next' = next + 1

Erase(k) ==
  /\ k \in DOMAIN map
  /\ map' = [j \in DOMAIN map \ {k} |-> map[j]]
  /\ UNCHANGED next

Next == (\E v \in Value : PushBack(v)) \/ (\E k \in DOMAIN map : Erase(k))
Spec == Init /\ [][Next]_<<map, next>>
=============================================================================
