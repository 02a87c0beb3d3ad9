------------------------------ MODULE MCUdpmr ------------------------------
(***************************************************************************)
(* Instances of Udpmr for TLC.  One client, a handful of messages, and     *)
(* capacities of one to three, so that every queue fills; FrameMax 2 gives *)
(* datagrams of one message and of several.                                *)
(***************************************************************************)
EXTENDS Udpmr
=============================================================================
