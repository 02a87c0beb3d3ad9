------------------------------ MODULE MCDFloat ------------------------------
(***************************************************************************)
(* DFloat for TLC: words of ten bits with three bits of exponent, and      *)
(* every dfloat as operand.                                                *)
(***************************************************************************)
EXTENDS DFloat

MCOperand == DFloats
=============================================================================
