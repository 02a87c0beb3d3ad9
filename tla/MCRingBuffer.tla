---------------------------- MODULE MCRingBuffer ----------------------------
(***************************************************************************)
(* RingBuffer on small instances.  The indices are words, so the state     *)
(* space is finite without any bound on the number of operations, and a    *)
(* run covers many wraps of both the slots and the indices.                *)
(***************************************************************************)
EXTENDS RingBuffer
=============================================================================
