------------------------------ MODULE MCJournal ------------------------------
(***************************************************************************)
(* Journal for TLC: three files with room for two bytes each.  Records of  *)
(* one byte and of two, among them 100 and -200, for which serialize_size  *)
(* answers one, and 20000, which takes three and fits in no file.          *)
(***************************************************************************)
EXTENDS Journal

MCKind == [bits |-> 16, signed |-> TRUE]
MCValue == {-3, -200, 100, 200, 20000}
=============================================================================
