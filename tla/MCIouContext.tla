---------------------------- MODULE MCIouContext ----------------------------
(***************************************************************************)
(* IouContext for TLC: one connection, whose client sends twice through    *)
(* rings of two bytes.  The server's end differs only in how it comes to   *)
(* be: answers would add rounds of the same loops.                         *)
(***************************************************************************)
EXTENDS IouContext

CONSTANT c1

MCFragile == {<<c1, "server">>}
MCSendMax == [client |-> 2, server |-> 0]
=============================================================================
