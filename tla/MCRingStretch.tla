---------------------------- MODULE MCRingStretch ----------------------------
(***************************************************************************)
(* RingStretch on a ring of four bytes whose indices wrap three times.     *)
(***************************************************************************)
EXTENDS RingStretch
=============================================================================
