------------------------------- MODULE DFloat -------------------------------
(***************************************************************************)
(* dfloat<M, Bits>: a mantissa and a negative power of ten packed into one *)
(* word.  An accumulator goes through the operations that may lose digits; *)
(* each tells whether it would, and then must leave the value alone.       *)
(* Operands have the type of the accumulator.                              *)
(***************************************************************************)
EXTENDS VarInt

CONSTANTS WordBits,       \* width of M
          ExponentBits,   \* Bits
          Signed,         \* whether M is signed
          Operand         \* the dfloats the program computes with

M == [bits |-> WordBits, signed |-> Signed]
E == [bits |-> WordBits, signed |-> FALSE]   \* exponent_t

\* The limits of an integer type of fewer than 128 bits: the code's lowest() of
\* the unsigned type of 128 bits is its largest value instead, and dfloat of it
\* could store nothing.
max_mantissa == (IF Signed THEN 2^(WordBits - 1) - 1 ELSE 2^WordBits - 1) \div 2^ExponentBits
min_mantissa == IF Signed THEN (-(2^(WordBits - 1))) \div 2^ExponentBits ELSE 0
max_exponent == 2^ExponentBits - 1

DFloats == [mantissa : min_mantissa .. max_mantissa, exponent : 0 .. max_exponent]

\* Division of C++ truncates.
Abs(a) == IF a < 0 THEN -a ELSE a
Quot(a, b) == IF (a < 0) = (b < 0) THEN Abs(a) \div Abs(b) ELSE -(Abs(a) \div Abs(b))
Rem(a, b) == a - b * Quot(a, b)

\* utttil::exp10, a long long.
exp10(e) == 10^e

\* utttil::exp<M>(10, e) wraps where M is too narrow for the power.
max_per_E(e) == Quot(max_mantissa, Wrap(M, exp10(e)))

\* Up to four bits of exponent exp10 is exact, and so are the limits; the
\* power wraps below max_mantissa for <int64_t, 5> at 10^23.
ASSUME PowersAssumption ==
  /\ WordBits \in 0 .. 127 /\ ExponentBits \in 1 .. 4 /\ ExponentBits < WordBits
  /\ Signed \in BOOLEAN /\ Operand \subseteq DFloats
  /\ \A e \in 0 .. max_exponent : max_per_E(e) = max_mantissa \div exp10(e)

VARIABLES acc,    \* the accumulator
          exact   \* what it is worth, in units of 10^-max_exponent

vars == <<acc, exact>>

Zero == [mantissa |-> 0, exponent |-> 0]

\* A bit-field keeps the low bits of what is assigned to it.
Field(m) == Wrap([bits |-> WordBits - ExponentBits, signed |-> Signed], m)

Scaled(x, e)  == [mantissa |-> Field(x.mantissa * exp10(e - x.exponent)), exponent |-> e]
Reduced(x, e) == [mantissa |-> Quot(x.mantissa, Wrap(M, exp10(x.exponent - e))), exponent |-> e]
CanScale(x, e)  == x.mantissa <= max_per_E(e - x.exponent)
CanReduce(x, e) == Rem(x.mantissa, Wrap(M, exp10(x.exponent - e))) = 0

\* divides whatever the remainder
Align_lossy(low, high) ==
  IF CanScale(low, high.exponent)
    THEN [low |-> Scaled(low, high.exponent), high |-> high, loss |-> FALSE]
  ELSE [low |-> low, high |-> Reduced(high, low.exponent), loss |-> FALSE]
\* Brings two numbers to one exponent, by multiplying the one of the lower
\* exponent or else dividing the other.
Align(low, high) ==
  IF CanScale(low, high.exponent)
    THEN [low |-> Scaled(low, high.exponent), high |-> high, loss |-> FALSE]
  ELSE IF CanReduce(high, low.exponent)
    THEN [low |-> low, high |-> Reduced(high, low.exponent), loss |-> FALSE]
  ELSE [low |-> low, high |-> high, loss |-> TRUE]

\* normalize_loss(other), of a copy of other.
Normalize(x, other) ==
  IF x.exponent = other.exponent THEN [this |-> x, other |-> other, loss |-> FALSE]
  ELSE IF x.exponent > other.exponent
    THEN LET a == Align(other, x) IN [this |-> a.high, other |-> a.low, loss |-> a.loss]
    ELSE LET a == Align(x, other) IN [this |-> a.low, other |-> a.high, loss |-> a.loss]

\* Keeps the sum only if the mantissa has room for it; x itself may have
\* changed its exponent.
Stored_unchecked(x, result) == [this |-> [x EXCEPT !.mantissa = Field(result)], loss |-> FALSE]
Stored(x, result) ==
  IF Wrap(M, result) \in min_mantissa .. max_mantissa
    THEN [this |-> [x EXCEPT !.mantissa = result], loss |-> FALSE]
    ELSE [this |-> x, loss |-> TRUE]

Add(x, other) ==
  LET n == Normalize(x, other)
  IN  IF n.loss THEN [this |-> n.this, loss |-> TRUE]
      ELSE Stored(n.this, n.this.mantissa + n.other.mantissa)
Sub(x, other) ==
  LET n == Normalize(x, other)
  IN  IF n.loss THEN [this |-> n.this, loss |-> TRUE]
      ELSE Stored(n.this, n.this.mantissa - n.other.mantissa)

\* operator+ and operator- forget whether digits were lost.
Plus(left, right)  == Add(left, right).this
Minus(left, right) == Sub(left, right).this

\* normalize_loss(e)
Rescaled(x, e) ==
  IF x.exponent >= e
    THEN IF CanReduce(x, e) THEN Reduced(x, e) ELSE x
    ELSE IF CanScale(x, e) THEN Scaled(x, e) ELSE x

\* serialize and deserialize
Store(x) == Encode(M, x.mantissa) \o Encode(E, x.exponent)
Load(s) ==
  [mantissa |-> Field(Decode(M, s)),
   exponent |-> Decode(E, SubSeq(s, HeadLength(s) + 1, Len(s)))]

-----------------------------------------------------------------------------
(* Comparison divides the number of the higher exponent.                   *)
Divided(x, e) == Quot(x.mantissa, exp10(x.exponent - e))
HasRest(x, e) == Rem(x.mantissa, exp10(x.exponent - e)) # 0

Equal(x, y) ==
  IF x.exponent >= y.exponent
    THEN Divided(x, y.exponent) = y.mantissa /\ ~HasRest(x, y.exponent)
    ELSE x.mantissa = Divided(y, x.exponent) /\ ~HasRest(y, x.exponent)

\* forgets the remainder of the right operand
Less_noRest(x, y) ==
  IF x.exponent >= y.exponent
    THEN Divided(x, y.exponent) < y.mantissa
    ELSE x.mantissa < Divided(y, x.exponent)
Less(x, y) ==
  IF x.exponent >= y.exponent
    THEN Divided(x, y.exponent) < y.mantissa
    ELSE \/ x.mantissa < Divided(y, x.exponent)
         \/ HasRest(y, x.exponent) /\ x.mantissa = Divided(y, x.exponent)

LessEqual(x, y) ==
  IF x.exponent >= y.exponent
    THEN \/ Divided(x, y.exponent) < y.mantissa
         \/ Divided(x, y.exponent) = y.mantissa /\ ~HasRest(x, y.exponent)
    ELSE x.mantissa <= Divided(y, x.exponent)

\* strips one zero at most
Printed_once(x) ==
  LET digits == IF x.exponent > 0 /\ Abs(x.mantissa) % 10 = 0
                THEN x.exponent - 1 ELSE x.exponent
      m == Abs(x.mantissa) \div exp10(x.exponent - digits)
  IN  [negative |-> x.mantissa < 0, whole |-> m \div exp10(digits),
       digits |-> digits, fraction |-> m % exp10(digits)]
\* operator<<: the sign, the whole part, and as many digits behind the point
\* as are left without the zeros at the end.
Printed(x) ==
  LET digits == CHOOSE d \in 0 .. x.exponent :
                  /\ Abs(x.mantissa) % exp10(x.exponent - d) = 0
                  /\ d > 0 => Abs(x.mantissa) % exp10(x.exponent - d + 1) # 0
      m == Abs(x.mantissa) \div exp10(x.exponent - digits)
  IN  [negative |-> x.mantissa < 0, whole |-> m \div exp10(digits),
       digits |-> digits, fraction |-> m % exp10(digits)]

-----------------------------------------------------------------------------
Value(x) == x.mantissa * 10^(max_exponent - x.exponent)

Init == acc = Zero /\ exact = 0

Assign(o) == acc' = o /\ exact' = Value(o)

AddLoss(o) ==
  LET r == Add(acc, o)
  IN  acc' = r.this /\ exact' = IF r.loss THEN exact ELSE exact + Value(o)

SubLoss(o) ==
  LET r == Sub(acc, o)
  IN  acc' = r.this /\ exact' = IF r.loss THEN exact ELSE exact - Value(o)

NormalizeLoss(e) == acc' = Rescaled(acc, e) /\ UNCHANGED exact

\* The number is written out and read back.
Reload == acc' = Load(Store(acc)) /\ UNCHANGED exact

Next ==
  \/ \E o \in Operand : Assign(o) \/ AddLoss(o) \/ SubLoss(o)
  \/ \E e \in 0 .. max_exponent : NormalizeLoss(e)
  \/ Reload
Spec == Init /\ [][Next]_vars

-----------------------------------------------------------------------------
(* Whatever sequence of additions, subtractions, changes of exponent and   *)
(* reloads a number goes through, it is worth exactly what was added and   *)
(* taken without loss; an operation that reports a loss changes the        *)
(* exponent at most.  Includes the type of acc.                            *)
ValueExact == acc \in DFloats /\ Value(acc) = exact

(* Taking back what was added without loss never overflows and restores    *)
(* the number: test_add_sub_int32 (test_dfloat.cpp) tries it at random.    *)
UndoExact ==
  \A o \in Operand :
    ~Add(acc, o).loss =>
      /\ ~Sub(Plus(acc, o), o).loss
      /\ Equal(acc, Minus(Plus(acc, o), o))

(* The comparisons order numbers of any two exponents as the decimals they *)
(* stand for, and one way only: test_comp (test_dfloat.cpp) has six pairs. *)
Ordered ==
  \A o \in Operand :
    /\ Equal(acc, o) <=> Value(acc) = Value(o)
    /\ Less(acc, o) <=> Value(acc) < Value(o)
    /\ LessEqual(acc, o) <=> Value(acc) <= Value(o)

(* Two numbers print alike exactly when they are equal, so that a number   *)
(* printed and compared as text is the number.                             *)
PrintsValue ==
  \A o \in Operand : (Printed(acc) = Printed(o)) <=> (Value(acc) = Value(o))
=============================================================================
