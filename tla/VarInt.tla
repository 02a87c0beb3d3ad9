------------------------------- MODULE VarInt -------------------------------
(***************************************************************************)
(* Variable-length integers: groups of seven bits, the highest first, the  *)
(* lowest marked by a stop bit; the second bit of the first byte is the    *)
(* sign.  A type T is [bits, signed]; a byte is its stop bit and its low   *)
(* seven bits.                                                             *)
(***************************************************************************)
EXTENDS Integers, Sequences, SequencesExt, FiniteSets

\* x converted to T.
Wrap(T, x) ==
  LET r == x % 2^T.bits
  IN  IF T.signed /\ r >= 2^(T.bits - 1) THEN r - 2^T.bits ELSE r

AllOnes(T) == Wrap(T, -1)

SignBit(low) == low >= 64

\* The loop of serialize stops at a rest of all zeros or all ones.
Groups(T, x) ==
  LET from[t \in Int] ==
        LET rest == t \div 128
        IN  <<t % 128>> \o (IF rest \in {0, AllOnes(T)} THEN <<>> ELSE from[rest])
  IN  from[x]

\* One more group when the highest would show the wrong sign.
Padded(T, x) ==
  LET g    == Groups(T, x)
      rest == x \div 128^Len(g)
      top  == SignBit(g[Len(g)])
  IN  g \o (IF rest = AllOnes(T) /\ ~top THEN <<127>>
            ELSE IF rest = 0 /\ top THEN <<0>> ELSE <<>>)

Encode(T, x) ==
  LET g == Padded(T, x)
  IN  Reverse([n \in DOMAIN g |-> [stop |-> n = 1, low |-> g[n]]])

\* Length of the integer at the head of a sequence of bytes that has one.
HeadLength(s) ==
  CHOOSE n \in DOMAIN s : s[n].stop /\ \A k \in 1 .. n - 1 : ~s[k].stop

\* deserialize: the integer at the head of s.
Joined(T, h) ==
  LET t[n \in Nat] ==
        IF n = 0 THEN IF SignBit(h[1].low) THEN AllOnes(T) ELSE 0
                 ELSE Wrap(T, t[n - 1] * 128 + h[n].low)
  IN  t[Len(h)]
Decode(T, s) == Joined(T, SubSeq(s, 1, HeadLength(s)))

\* What serialize_size answers: one threshold every seven bits of the type,
\* which wraps in the type itself unless promoted to int.
\* Negative integers and those whose highest group sets the sign bit take
\* more bytes than it says.
SerializeSize(T, x) ==
  LET threshold(k) == IF T.bits < 32 THEN 2^k ELSE Wrap(T, 2^k)
  IN  1 + Cardinality({k \in 1 .. T.bits - 1 : k % 7 = 0 /\ x >= threshold(k)})
=============================================================================
