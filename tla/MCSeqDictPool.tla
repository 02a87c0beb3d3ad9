---------------------------- MODULE MCSeqDictPool ----------------------------
(***************************************************************************)
(* SeqDictPool with four cells, constructors that may throw, and enough    *)
(* pushes to use each cell again.                                          *)
(***************************************************************************)
EXTENDS SeqDictPool
=============================================================================
