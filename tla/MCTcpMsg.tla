------------------------------ MODULE MCTcpMsg ------------------------------
(***************************************************************************)
(* TcpMsg with messages of two shapes: a size of one byte, and one of two, *)
(* which sends and reads may cut anywhere.                                 *)
(***************************************************************************)
EXTENDS TcpMsg

MCShape == {[prefix |-> 1, body |-> 1], [prefix |-> 2, body |-> 1]}
=============================================================================
