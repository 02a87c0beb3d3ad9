------------------------------ MODULE AppendLog ------------------------------
(***************************************************************************)
(* What a journal promises: a sequence of records that only grows, by one  *)
(* whole record at a time.                                                 *)
(***************************************************************************)
EXTENDS Sequences

CONSTANT Value

VARIABLE log

Init == log = <<>>
Write == log' \in {Append(log, v) : v \in Value}
Next == Write
Spec == Init /\ [][Next]_log
=============================================================================
