---------------------------- MODULE MCIoContext ----------------------------
(***************************************************************************)
(* IoContext with an acceptor, a client that connects, and connections     *)
(* that arrive.                                                            *)
(***************************************************************************)
EXTENDS IoContext

CONSTANTS server, client, c1, c2

MCDoes == [p \in UserPeer |-> IF p = server THEN {"accept"} ELSE {"read", "write"}]
=============================================================================
