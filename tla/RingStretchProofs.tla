-------------------------- MODULE RingStretchProofs --------------------------
(***************************************************************************)
(* In the optimised builds the stretches of RingStretch stay inside the    *)
(* array and apart, and the bytes arrive in order, for every capacity,     *)
(* every word size that is a larger multiple of it, and both callers.      *)
(***************************************************************************)
EXTENDS RingStretch, Integers, SequenceTheorems, TLAPS

-----------------------------------------------------------------------------
(* Arithmetic of the wrapping indices and of their masked values.          *)

(* Splitting a number by a divisor.                                        *)
LEMMA DivMod ==
  ASSUME NEW n \in Nat \ {0}, NEW x \in Nat
  PROVE  /\ x = n * (x \div n) + (x % n)
         /\ x \div n \in Nat
         /\ x % n \in 0 .. n - 1
  OBVIOUS

(* A remainder is determined by any quotient that leaves it in range.      *)
LEMMA ModUnique ==
  ASSUME NEW n \in Nat \ {0}, NEW q \in Nat, NEW r \in 0 .. n - 1
  PROVE  (n * q + r) % n = r
  OBVIOUS

(* Advancing by at most a divisor.                                         *)
LEMMA ModAdvance ==
  ASSUME NEW n \in Nat \ {0}, NEW x \in Nat, NEW d \in 0 .. n
  PROVE  (x + d) % n = IF (x % n) + d < n THEN (x % n) + d ELSE (x % n) + d - n
<1> DEFINE q == x \div n
           r == x % n
<1>1. x = n * q + r /\ q \in Nat /\ r \in 0 .. n - 1
  BY DivMod
<1>2. CASE r + d < n
  <2>1. (n * q + (r + d)) % n = r + d
    <3>1. r + d \in 0 .. n - 1
      BY <1>1, <1>2
    <3> QED  BY <1>1, <3>1, ModUnique
  <2>2. n * q + (r + d) = x + d
    BY <1>1
  <2> QED  BY <2>1, <2>2, <1>2
<1>3. CASE ~ (r + d < n)
  <2>1. q + 1 \in Nat /\ r + d - n \in 0 .. n - 1
    BY <1>1, <1>3
  <2>2. (n * (q + 1) + (r + d - n)) % n = r + d - n
    BY <2>1, ModUnique
  <2>3. n * (q + 1) + (r + d - n) = x + d
    BY <1>1
  <2> QED  BY <2>2, <2>3, <1>3
<1> QED  BY <1>2, <1>3

(* Removing a multiple of n leaves the remainder alone.                    *)
LEMMA ModShift ==
  ASSUME NEW n \in Nat \ {0}, NEW m \in Nat, m % n = 0, NEW x \in Nat, m <= x
  PROVE  (x - m) % n = x % n
<1> DEFINE d == m \div n
           q == (x - m) \div n
           r == (x - m) % n
<1>1. m = n * d /\ d \in Nat
  BY DivMod
<1>2. x - m = n * q + r /\ q \in Nat /\ r \in 0 .. n - 1
  <2>1. x - m \in Nat
    OBVIOUS
  <2> QED  BY <2>1, DivMod
<1>3. n * (q + d) + r = x /\ q + d \in Nat
  BY <1>1, <1>2
<1>4. (n * (q + d) + r) % n = r
  BY <1>2, <1>3, ModUnique
<1> QED  BY <1>3, <1>4

(* What the assumption says of the constants.                              *)
LEMMA Sizes ==
  /\ Capacity \in Nat \ {0} /\ WordSize \in Nat \ {0}
  /\ Capacity < WordSize /\ WordSize % Capacity = 0
  BY StretchAssumption

(* Advancing an index by less than a word.                                 *)
LEMMA WrapAdd ==
  ASSUME NEW p \in Word, NEW k \in 0 .. WordSize - 1
  PROVE  /\ Wrap(p + k) = IF p + k < WordSize THEN p + k ELSE p + k - WordSize
         /\ Wrap(p + k) \in Word
<1>1. CASE p + k < WordSize
  BY Sizes, <1>1 DEF Word, Wrap
<1>2. CASE p + k >= WordSize
  <2>1. (WordSize * 1 + (p + k - WordSize)) % WordSize = p + k - WordSize
    BY Sizes, <1>2, ModUnique DEF Word
  <2> QED  BY Sizes, <1>2, <2>1 DEF Word, Wrap
<1> QED  BY Sizes, <1>1, <1>2 DEF Word

(* The distance from one index back to another, in size_t.                 *)
LEMMA Distance ==
  ASSUME NEW a \in Word, NEW b \in Word
  PROVE  /\ Minus(b, a) = IF a <= b THEN b - a ELSE b + WordSize - a
         /\ Minus(b, a) \in 0 .. WordSize - 1
<1>1. CASE a <= b
  <2>1. b - a \in 0 .. WordSize - 1
    BY Sizes, <1>1 DEF Word
  <2>2. (WordSize * 1 + (b - a)) % WordSize = b - a
    BY Sizes, <2>1, ModUnique
  <2>3. WordSize * 1 + (b - a) = b + (WordSize - a)
    BY Sizes DEF Word
  <2> QED  BY <1>1, <2>1, <2>2, <2>3 DEF Wrap, Minus
<1>2. CASE a > b
  <2>1. b + (WordSize - a) \in 0 .. WordSize - 1
    BY Sizes, <1>2 DEF Word
  <2>2. (b + (WordSize - a)) % WordSize = b + (WordSize - a)
    BY Sizes, <2>1
  <2>3. b + (WordSize - a) = b + WordSize - a /\ ~ (a <= b)
    BY Sizes, <1>2 DEF Word
  <2> QED  BY <2>1, <2>2, <2>3 DEF Wrap, Minus
<1> QED  BY Sizes, <1>1, <1>2 DEF Word

(* An index is its distance ahead of any other.                            *)
LEMMA Ahead ==
  ASSUME NEW a \in Word, NEW b \in Word
  PROVE  /\ Wrap(a + Minus(b, a)) = b
         /\ Minus(b, a) = 0 <=> a = b
<1>1. PICK d \in 0 .. WordSize - 1 :
        d = Minus(b, a) /\ d = IF a <= b THEN b - a ELSE b + WordSize - a
  BY Distance
<1>2. Wrap(a + d) = IF a + d < WordSize THEN a + d ELSE a + d - WordSize
  BY WrapAdd
<1> QED  BY Sizes, <1>1, <1>2 DEF Word

(* Moving the far index on adds to the distance.                           *)
LEMMA Farther ==
  ASSUME NEW a \in Word, NEW b \in Word, NEW n \in Nat, Minus(b, a) + n < WordSize
  PROVE  /\ Wrap(b + n) \in Word
         /\ Minus(Wrap(b + n), a) = Minus(b, a) + n
<1>1. PICK d \in 0 .. WordSize - 1 :
        d = Minus(b, a) /\ d = IF a <= b THEN b - a ELSE b + WordSize - a
  BY Distance
<1>2. n \in 0 .. WordSize - 1
  BY Sizes, <1>1
<1>3. PICK c \in Word :
        c = Wrap(b + n) /\ c = IF b + n < WordSize THEN b + n ELSE b + n - WordSize
  BY <1>2, WrapAdd
<1>4. Minus(c, a) = IF a <= c THEN c - a ELSE c + WordSize - a
  BY Distance
<1>5. d + n < WordSize /\ n \in Nat
  BY <1>1
<1>6. Minus(c, a) = d + n
  BY Sizes, <1>1, <1>3, <1>4, <1>5 DEF Word
<1> QED  BY <1>1, <1>3, <1>6

(* Moving the near index on, no further than the far one, takes from it.   *)
LEMMA Closer ==
  ASSUME NEW a \in Word, NEW b \in Word, NEW n \in 0 .. Minus(b, a)
  PROVE  /\ Wrap(a + n) \in Word
         /\ Minus(b, Wrap(a + n)) = Minus(b, a) - n
<1>1. PICK d \in 0 .. WordSize - 1 :
        d = Minus(b, a) /\ d = IF a <= b THEN b - a ELSE b + WordSize - a
  BY Distance
<1>2. n \in 0 .. WordSize - 1
  BY Sizes, <1>1
<1>3. PICK c \in Word :
        c = Wrap(a + n) /\ c = IF a + n < WordSize THEN a + n ELSE a + n - WordSize
  BY <1>2, WrapAdd
<1>4. Minus(b, c) = IF c <= b THEN b - c ELSE b + WordSize - c
  BY Distance
<1>5. n \in 0 .. d
  BY <1>1
<1>6. Minus(b, c) = d - n
  BY Sizes, <1>1, <1>3, <1>4, <1>5 DEF Word
<1> QED  BY <1>1, <1>3, <1>6

(* A masked index is a slot.                                               *)
LEMMA SlotRange ==
  ASSUME NEW p \in Word
  PROVE  Slot(p) \in 0 .. Capacity - 1
  BY Sizes, DivMod DEF Slot, Word

(* The slot of an index moved on by at most a capacity.                    *)
LEMMA SlotAdvance ==
  ASSUME NEW p \in Word, NEW k \in 0 .. Capacity
  PROVE  Slot(Wrap(p + k)) = IF Slot(p) + k < Capacity THEN Slot(p) + k
                                                       ELSE Slot(p) + k - Capacity
<1>1. k \in 0 .. WordSize - 1
  BY Sizes
<1>2. Slot(p + k) = IF Slot(p) + k < Capacity THEN Slot(p) + k
                                              ELSE Slot(p) + k - Capacity
  <2>1. p \in Nat /\ Capacity \in Nat \ {0}
    BY Sizes DEF Word
  <2>2. (p + k) % Capacity = IF (p % Capacity) + k < Capacity
                             THEN (p % Capacity) + k ELSE (p % Capacity) + k - Capacity
    BY <2>1, ModAdvance
  <2> QED  BY <2>2 DEF Slot
<1>3. Slot(Wrap(p + k)) = Slot(p + k)
  <2>1. CASE p + k < WordSize
    BY <1>1, <2>1, WrapAdd
  <2>2. CASE p + k >= WordSize
    <3>1. PICK x \in Nat : x = p + k /\ WordSize <= x
      BY Sizes, <1>1, <2>2 DEF Word
    <3>2. (x - WordSize) % Capacity = x % Capacity
      BY Sizes, <3>1, ModShift
    <3>3. Wrap(p + k) = x - WordSize
      BY Sizes, <1>1, <3>1, WrapAdd DEF Word
    <3> QED  BY <3>1, <3>2, <3>3 DEF Slot
  <2> QED  BY Sizes, <1>1, <2>1, <2>2 DEF Word
<1> QED  BY <1>2, <1>3

(* The slots of two indices at most a capacity apart.                      *)
LEMMA SlotApart ==
  ASSUME NEW a \in Word, NEW b \in Word, Minus(b, a) <= Capacity
  PROVE  /\ Slot(a) \in 0 .. Capacity - 1 /\ Slot(b) \in 0 .. Capacity - 1
         /\ Minus(b, a) \in 0 .. Capacity
         /\ Slot(b) = IF Slot(a) + Minus(b, a) < Capacity
                      THEN Slot(a) + Minus(b, a) ELSE Slot(a) + Minus(b, a) - Capacity
<1>1. Minus(b, a) \in 0 .. Capacity
  BY Sizes, Distance
<1>2. PICK k \in 0 .. Capacity : k = Minus(b, a)
  BY <1>1
<1>3. Slot(Wrap(a + k)) = IF Slot(a) + k < Capacity THEN Slot(a) + k
                                                    ELSE Slot(a) + k - Capacity
  BY SlotAdvance
<1> QED  BY <1>1, <1>2, <1>3, Ahead, SlotRange

(* Two positions of a window of one capacity have slots of their own.      *)
LEMMA WindowDistinct ==
  ASSUME NEW p \in Word, NEW i \in 0 .. Capacity - 1, NEW j \in 0 .. Capacity - 1,
         i # j
  PROVE  Slot(Wrap(p + i)) # Slot(Wrap(p + j))
<1>1. /\ Slot(Wrap(p + i)) = IF Slot(p) + i < Capacity THEN Slot(p) + i
                                                       ELSE Slot(p) + i - Capacity
      /\ Slot(Wrap(p + j)) = IF Slot(p) + j < Capacity THEN Slot(p) + j
                                                       ELSE Slot(p) + j - Capacity
  BY Sizes, SlotAdvance
<1> QED  BY Sizes, <1>1, SlotRange

(* Moving on twice.                                                        *)
LEMMA WrapTwice ==
  ASSUME NEW p \in Word, NEW i \in Nat, NEW j \in Nat, i + j < WordSize
  PROVE  Wrap(Wrap(p + i) + j) = Wrap(p + (i + j))
<1>1. /\ i \in 0 .. WordSize - 1 /\ j \in 0 .. WordSize - 1
      /\ i + j \in 0 .. WordSize - 1
  BY Sizes
<1>2. PICK q \in Word : q = Wrap(p + i) /\ q = IF p + i < WordSize THEN p + i ELSE p + i - WordSize
  BY <1>1, WrapAdd
<1>3. Wrap(q + j) = IF q + j < WordSize THEN q + j ELSE q + j - WordSize
  BY <1>1, WrapAdd
<1>4. Wrap(p + (i + j)) = IF p + (i + j) < WordSize THEN p + (i + j) ELSE p + (i + j) - WordSize
  BY <1>1, WrapAdd
<1> QED  BY Sizes, <1>1, <1>2, <1>3, <1>4 DEF Word

-----------------------------------------------------------------------------
(* The inductive invariant.  A thread's copy of the other's index is old:  *)
(* the producer sees the ring fuller than it is, the consumer emptier.     *)
(* What a thread computes from its copy is therefore within what is free   *)
(* or used, and stays so, because only the thread itself uses it up.       *)
Behind(seen) == Minus(back_, seen)     \* the size the producer takes the ring to have
Seen(seen)   == Minus(seen, front_)    \* the size the consumer takes it to have

ProducerInv ==
  /\ ppc \notin {"assert", "abort"}
  /\ ppc \in {"idle", "side", "len"} => plen = <<0, 0>>
  /\ ppc \in {"side", "len"} => Size <= Behind(pseen) /\ Behind(pseen) < Capacity
  /\ ppc = "len" => Slot(back_) < Slot(pseen)
  /\ ppc = "second" => plen[2] = 0
  /\ ppc \in {"second", "fill"} => Slot(back_) + plen[1] <= Capacity
  /\ plen[1] + plen[2] <= Capacity - Size
  /\ plen[2] > 0 => plen[2] <= Slot(front_) /\ Slot(front_) <= Slot(back_)

ConsumerInv ==
  /\ cpc \in {"idle", "side", "len"} => clen = <<0, 0>>
  /\ cpc \in {"side", "len"} => Seen(cseen) <= Size /\ Seen(cseen) > 0
  /\ cpc = "len" => Slot(front_) < Slot(cseen)
  /\ cpc = "second" => clen[2] = 0
  /\ cpc \in {"second", "send"} => Slot(front_) + clen[1] <= Capacity
  /\ clen[1] + clen[2] <= Size
  /\ clen[2] > 0 => clen[2] <= Slot(back_) /\ Slot(back_) <= Slot(front_)

(* The bytes in the ring, those copied but not published included, are at  *)
(* the slots of their positions, if stretches are taken one at a time.     *)
Filled == Size + (IF ppc = "advance" THEN plen[1] ELSE 0)
Held   == \A k \in 0 .. Filled - 1 : data[Slot(Wrap(front_ + k))] = Wrap(front_ + k)
OneStretch ==
  /\ ppc # "second" /\ plen[2] = 0
  /\ cpc # "second" /\ clen[2] = 0

IndInv ==
  /\ TypeOK
  /\ Size <= Capacity
  /\ ProducerInv
  /\ ConsumerInv
  /\ caller = "tcp" => OneStretch /\ Held /\ Sequential

-----------------------------------------------------------------------------
(* The slots of the two indices are as far apart as the size says.         *)
LEMMA Geometry ==
  ASSUME TypeOK, Size <= Capacity
  PROVE  /\ Slot(front_) \in 0 .. Capacity - 1 /\ Slot(back_) \in 0 .. Capacity - 1
         /\ Size \in 0 .. Capacity
         /\ Slot(back_) = IF Slot(front_) + Size < Capacity
                          THEN Slot(front_) + Size ELSE Slot(front_) + Size - Capacity
         /\ back_ = Wrap(front_ + Size)
         /\ Size = 0 <=> front_ = back_
         /\ Size = Capacity <=> back_ = Wrap(front_ + Capacity)
<1>1. front_ \in Word /\ back_ \in Word
  BY DEF TypeOK
<1>2. Minus(back_, front_) <= Capacity /\ Size = Minus(back_, front_)
  BY DEF Size
<1>3. back_ = Wrap(front_ + Size) /\ (Size = 0 <=> front_ = back_)
  BY <1>1, <1>2, Ahead
<1>4. back_ = Wrap(front_ + Capacity) => Size = Capacity
  <2>1. front_ = Wrap(front_ + 0) /\ Minus(front_, front_) = 0
    BY <1>1, Sizes, WrapAdd, Ahead DEF Word
  <2>2. Minus(Wrap(front_ + Capacity), front_) = Minus(front_, front_) + Capacity
    BY <1>1, <2>1, Sizes, Farther
  <2> QED  BY <1>2, <2>1, <2>2, Sizes
<1>5. /\ Slot(front_) \in 0 .. Capacity - 1 /\ Slot(back_) \in 0 .. Capacity - 1
      /\ Size \in 0 .. Capacity
      /\ Slot(back_) = IF Slot(front_) + Size < Capacity
                       THEN Slot(front_) + Size ELSE Slot(front_) + Size - Capacity
  BY <1>1, <1>2, SlotApart
<1>6. Size = Capacity => back_ = Wrap(front_ + Capacity)
  BY <1>3
<1> QED  BY <1>3, <1>4, <1>5, <1>6

LEMMA InitInv == Init => IndInv
<1> SUFFICES ASSUME Init PROVE IndInv
  OBVIOUS
<1>1. 0 \in Word
  BY Sizes DEF Word
<1>2. TypeOK
  <2>1. data \in [0 .. Capacity - 1 -> Word]
    BY <1>1 DEF Init
  <2>2. plen \in Word \X Word /\ clen \in Word \X Word /\ wire \in Seq(Word)
    BY <1>1 DEF Init
  <2> QED  BY <1>1, <2>1, <2>2 DEF Init, TypeOK
<1>3. Size = 0
  BY <1>1, Ahead DEF Init, Size
<1>4. ProducerInv /\ ConsumerInv /\ Size <= Capacity
  BY <1>3, Sizes DEF Init, ProducerInv, ConsumerInv
<1>5. OneStretch /\ Held /\ Sequential
  BY <1>3 DEF Init, OneStretch, Held, Filled, Sequential
<1> QED  BY <1>2, <1>4, <1>5 DEF IndInv

-----------------------------------------------------------------------------
(* What a step of one thread that moves no index leaves to be shown.       *)
LEMMA ProducerStays ==
  ASSUME IndInv, UNCHANGED <<caller, build, front_, back_, cvars>>,
         TypeOK', ProducerInv',
         caller = "tcp" => ppc' # "second" /\ plen'[2] = 0 /\ Held'
  PROVE  IndInv'
<1>1. Size' = Size
  BY DEF Size
<1>2. ConsumerInv'
  BY <1>1 DEF IndInv, ConsumerInv, Seen, cvars
<1>3. Sequential' <=> Sequential
  BY DEF Sequential, cvars
<1>4. caller = "tcp" => OneStretch'
  BY DEF IndInv, OneStretch, cvars
<1> QED  BY <1>1, <1>2, <1>3, <1>4 DEF IndInv

LEMMA ConsumerStays ==
  ASSUME IndInv, UNCHANGED <<caller, build, front_, back_, data, pvars>>,
         TypeOK', ConsumerInv',
         caller = "tcp" => cpc' # "second" /\ clen'[2] = 0 /\ Sequential'
  PROVE  IndInv'
<1>1. Size' = Size
  BY DEF Size
<1>2. ProducerInv'
  BY <1>1 DEF IndInv, ProducerInv, Behind, pvars
<1>3. Held' <=> Held
  BY <1>1 DEF Held, Filled, pvars
<1>4. caller = "tcp" => OneStretch'
  BY DEF IndInv, OneStretch, pvars
<1> QED  BY <1>1, <1>2, <1>3, <1>4 DEF IndInv

(* While nothing is copied, what the ring holds stays put.                 *)
LEMMA NothingCopied ==
  ASSUME UNCHANGED <<front_, back_, data>>, Held, ppc # "advance", ppc' # "advance"
  PROVE  Held'
<1>1. Size' = Size
  BY DEF Size
<1>2. Filled' = Filled
  BY <1>1 DEF Filled
<1> QED  BY <1>2 DEF Held

LEMMA BackFullInv ==
  ASSUME Builds = {"release"}, IndInv, BackFull
  PROVE  IndInv'
<1>1. TypeOK'
  BY DEF IndInv, TypeOK, BackFull, cvars
<1>2. Size' = Size /\ Behind(pseen)' = Size /\ Size \in 0 .. Capacity /\ Size # Capacity
  BY Geometry DEF IndInv, BackFull, Size, Behind
<1>3. ProducerInv'
  <2>1. plen' = <<0, 0>> /\ Size < Capacity /\ Size \in Nat
    BY <1>2, Sizes DEF IndInv, ProducerInv, BackFull
  <2>2. plen'[1] + plen'[2] <= Capacity - Size
    BY <1>2, <2>1, Sizes
  <2> QED  BY <1>2, <2>1, <2>2 DEF BackFull, ProducerInv
<1>4. caller = "tcp" => ppc' # "second" /\ plen'[2] = 0 /\ Held'
  BY NothingCopied DEF IndInv, OneStretch, BackFull
<1> QED  BY <1>1, <1>3, <1>4, ProducerStays DEF BackFull

(* The slots as the producer sees them, from a copy of the front.          *)
LEMMA SeenFront ==
  ASSUME IndInv, ppc \in {"side", "len"}
  PROVE  /\ pseen \in Word /\ Slot(pseen) \in 0 .. Capacity - 1
         /\ Behind(pseen) \in 0 .. Capacity - 1 /\ Size <= Behind(pseen)
         /\ Slot(back_) = IF Slot(pseen) + Behind(pseen) < Capacity
                          THEN Slot(pseen) + Behind(pseen)
                          ELSE Slot(pseen) + Behind(pseen) - Capacity
<1>1. pseen \in Word /\ back_ \in Word /\ Minus(back_, pseen) < Capacity
      /\ Size <= Behind(pseen)
  BY DEF IndInv, TypeOK, ProducerInv, Behind
<1>2. Minus(back_, pseen) \in 0 .. WordSize - 1
  BY <1>1, Distance
<1>3. Minus(back_, pseen) <= Capacity
  BY <1>1, <1>2, Sizes
<1> QED  BY <1>1, <1>2, <1>3, SlotApart, Sizes DEF Behind

LEMMA BackSideInv ==
  ASSUME Builds = {"release"}, IndInv, BackSide
  PROVE  IndInv'
<1> USE Sizes
<1>1. /\ pseen' = pseen /\ plen = <<0, 0>> /\ ppc = "side"
      /\ UNCHANGED <<caller, build, front_, back_, data, cvars>>
      /\ build = "release"
  BY DEF BackSide, IndInv, TypeOK, ProducerInv
<1>2. Size' = Size /\ Behind(pseen)' = Behind(pseen) /\ Size \in 0 .. Capacity
      /\ Slot(back_) \in 0 .. Capacity - 1
  BY <1>1, Geometry DEF IndInv, Size, Behind
<1>3. CASE Slot(back_) >= Slot(pseen)
  <2>1. plen' = <<Capacity - Slot(back_), 0>> /\ ppc' = Found("fill")
    BY <1>1, <1>3 DEF BackSide, Load
  <2>2. Capacity - Slot(back_) \in Word /\ 0 \in Word
    BY <1>2 DEF Word
  <2>3. TypeOK'
    BY <1>1, <2>1, <2>2 DEF IndInv, TypeOK, Found, cvars
  <2>4. Capacity - Slot(back_) <= Capacity - Size
    BY <1>1, <1>2, <1>3, SeenFront
  <2>5. ProducerInv'
    BY <1>1, <1>2, <2>1, <2>2, <2>4 DEF ProducerInv, Found, Word
  <2>6. caller = "tcp" => ppc' # "second" /\ plen'[2] = 0 /\ Held'
    BY <1>1, <2>1, NothingCopied DEF Found, IndInv
  <2> QED  BY <1>1, <2>3, <2>5, <2>6, ProducerStays
<1>4. CASE ~ (Slot(back_) >= Slot(pseen))
  <2>1. plen' = <<0, 0>> /\ ppc' = "len"
    BY <1>1, <1>4 DEF BackSide, Load
  <2>2. TypeOK'
    BY <1>1, <2>1 DEF IndInv, TypeOK, cvars
  <2>3. Slot(back_) < Slot(pseen) /\ Size <= Behind(pseen) /\ Behind(pseen) < Capacity
    BY <1>1, <1>2, <1>4, SeenFront
  <2>4. ProducerInv'
    BY <1>1, <1>2, <2>1, <2>3 DEF ProducerInv
  <2>5. caller = "tcp" => ppc' # "second" /\ plen'[2] = 0 /\ Held'
    BY <1>1, <2>1, NothingCopied DEF IndInv
  <2> QED  BY <1>1, <2>2, <2>4, <2>5, ProducerStays
<1> QED  BY <1>3, <1>4

(* Where the back is at a slot before the front, as seen: the slots        *)
(* between them are those the ring has left.                               *)
LEMMA BetweenSlots ==
  ASSUME IndInv, ppc = "len"
  PROVE  /\ Minus(Slot(pseen), Slot(back_)) = Slot(pseen) - Slot(back_)
         /\ Slot(pseen) - Slot(back_) = Capacity - Behind(pseen)
         /\ Slot(pseen) - Slot(back_) \in 1 .. Capacity - 1
<1> USE Sizes
<1>1. Slot(back_) < Slot(pseen) /\ Slot(back_) \in 0 .. Capacity - 1
  BY Geometry DEF IndInv, ProducerInv
<1>2. Slot(pseen) \in 0 .. Capacity - 1
  BY SeenFront
<1>3. Slot(back_) \in Word /\ Slot(pseen) \in Word
  BY <1>1, <1>2 DEF Word
<1>4. Minus(Slot(pseen), Slot(back_)) = Slot(pseen) - Slot(back_)
  BY <1>1, <1>2, <1>3, Distance
<1>5. Slot(pseen) - Slot(back_) = Capacity - Behind(pseen)
  BY <1>1, <1>2, SeenFront
<1> QED  BY <1>1, <1>2, <1>4, <1>5

\* There are no assertions in the release build.
LEMMA BackAssertInv ==
  ASSUME Builds = {"release"}, IndInv, BackAssert
  PROVE  IndInv'
BY DEF BackAssert, IndInv, ProducerInv

LEMMA BackLenInv ==
  ASSUME Builds = {"release"}, IndInv, BackLen
  PROVE  IndInv'
<1> USE Sizes
<1>1. /\ pseen' = pseen /\ ppc = "len" /\ ppc' = Found("fill")
      /\ plen' = <<Minus(Slot(pseen), Slot(back_)), 0>>
      /\ UNCHANGED <<caller, build, front_, back_, data, cvars>>
  BY DEF BackLen, Load, IndInv, TypeOK
<1>2. PICK n \in 1 .. Capacity - 1 :
        /\ n = Slot(pseen) - Slot(back_) /\ n = Capacity - Behind(pseen)
        /\ plen' = <<n, 0>>
  BY <1>1, BetweenSlots
<1>3. Size' = Size /\ Size \in 0 .. Capacity /\ Slot(back_) \in 0 .. Capacity - 1
  BY <1>1, Geometry DEF IndInv, Size
<1>4. n <= Capacity - Size /\ Slot(back_) + n <= Capacity
  BY <1>1, <1>2, <1>3, SeenFront
<1>5. TypeOK'
  <2>1. n \in Word /\ 0 \in Word
    BY DEF Word
  <2> QED  BY <1>1, <1>2, <2>1 DEF IndInv, TypeOK, Found, cvars
<1>6. ProducerInv'
  BY <1>1, <1>2, <1>3, <1>4 DEF ProducerInv, Found
<1>7. caller = "tcp" => ppc' # "second" /\ plen'[2] = 0 /\ Held'
  BY <1>1, <1>2, NothingCopied DEF IndInv, Found
<1> QED  BY <1>1, <1>5, <1>6, <1>7, ProducerStays

LEMMA BackSecondInv ==
  ASSUME Builds = {"release"}, IndInv, BackSecond
  PROVE  IndInv'
<1> USE Sizes
<1>1. /\ ppc = "second" /\ ppc' = "fill"
      /\ UNCHANGED <<caller, build, front_, back_, data, cvars>>
      /\ caller # "tcp" /\ pseen' \in Word
  BY DEF BackSecond, IndInv, OneStretch, TypeOK
<1>2. /\ Size' = Size /\ Size \in 0 .. Capacity
      /\ Slot(front_) \in 0 .. Capacity - 1 /\ Slot(back_) \in 0 .. Capacity - 1
      /\ Slot(back_) = IF Slot(front_) + Size < Capacity
                       THEN Slot(front_) + Size ELSE Slot(front_) + Size - Capacity
      /\ Size = Capacity <=> back_ = Wrap(front_ + Capacity)
  BY <1>1, Geometry DEF IndInv, Size
<1>3. plen[1] \in Nat /\ plen[1] \in Word /\ plen[2] = 0 /\ plen \in Word \X Word
  BY <1>1 DEF IndInv, TypeOK, ProducerInv, Word
<1>4. plen[1] <= Capacity - Size /\ Slot(back_) + plen[1] <= Capacity
  BY <1>1, <1>3 DEF IndInv, ProducerInv
<1>5. PICK m \in Nat :
        /\ m = IF back_ # Wrap(front_ + Capacity) /\ Slot(back_) >= Slot(front_)
               THEN Slot(front_) ELSE 0
        /\ plen' = <<plen[1], m>>
  BY <1>2, <1>3 DEF BackSecond
<1>6. plen[1] + m <= Capacity - Size /\ (m > 0 => m <= Slot(front_) /\ Slot(front_) <= Slot(back_))
  BY <1>2, <1>3, <1>4, <1>5
<1>7. TypeOK'
  <2>1. m \in Word
    BY <1>2, <1>5 DEF Word
  <2> QED  BY <1>1, <1>3, <1>5, <2>1 DEF IndInv, TypeOK, cvars
<1>8. ProducerInv'
  BY <1>1, <1>2, <1>3, <1>4, <1>5, <1>6 DEF ProducerInv
<1> QED  BY <1>1, <1>7, <1>8, ProducerStays

(* The slots of a single stretch are those of the positions from its index *)
(* on.                                                                     *)
LEMMA StretchPositions ==
  ASSUME NEW p \in Word, NEW len \in Nat \X Nat, len[2] = 0,
         Slot(p) + len[1] <= Capacity, NEW j \in 1 .. len[1]
  PROVE  /\ Slots(Slot(p), len)[j] = Slot(p) + (j - 1)
         /\ Slot(Wrap(p + (j - 1))) = Slot(p) + (j - 1)
<1>1. Slot(p) \in 0 .. Capacity - 1 /\ j \in Nat /\ len[1] \in Nat
  BY SlotRange
<1>2. j - 1 \in 0 .. Capacity /\ Slot(p) + (j - 1) < Capacity
  BY <1>1, Sizes
<1>3. Slot(Wrap(p + (j - 1))) = Slot(p) + (j - 1)
  BY <1>1, <1>2, SlotAdvance
<1>4. Slots(Slot(p), len)[j] = Slot(p) + (j - 1)
  BY <1>1 DEF Slots
<1> QED  BY <1>3, <1>4

LEMMA FillInv ==
  ASSUME Builds = {"release"}, IndInv, NEW n \in 1 .. Capacity, Fill(n)
  PROVE  IndInv'
<1> USE Sizes
<1>1. /\ ppc = "fill" /\ ppc' = "advance" /\ plen' = <<n, 0>>
      /\ pseen' = pseen /\ UNCHANGED <<caller, build, front_, back_, cvars>>
  BY DEF Fill
<1>2. /\ plen[1] \in Nat /\ plen[2] \in Nat /\ plen \in Nat \X Nat
      /\ n <= plen[1] + plen[2] /\ n \in Nat
  BY DEF Fill, Inside, IndInv, TypeOK, Word
<1>3. /\ plen[1] + plen[2] <= Capacity - Size /\ Slot(back_) + plen[1] <= Capacity
      /\ caller = "tcp" => plen[2] = 0
  BY <1>1 DEF IndInv, ProducerInv, OneStretch
<1>4. /\ Size' = Size /\ Size \in 0 .. Capacity /\ n <= Capacity - Size
      /\ back_ = Wrap(front_ + Size) /\ front_ \in Word /\ back_ \in Word
      /\ Slot(back_) \in 0 .. Capacity - 1
  <2>1. /\ Size' = Size /\ Size \in 0 .. Capacity
        /\ back_ = Wrap(front_ + Size) /\ front_ \in Word /\ back_ \in Word
        /\ Slot(back_) \in 0 .. Capacity - 1
    BY <1>1, Geometry DEF IndInv, Size, TypeOK
  <2>2. n <= Capacity - Size
    BY <1>2, <1>3, <2>1
  <2> QED  BY <2>1, <2>2
<1>5. TypeOK'
  <2>1. n \in Word /\ 0 \in Word
    BY DEF Word
  <2>2. \A x \in Nat : Wrap(x) \in Word
    BY DEF Wrap, Word
  <2>3. data' \in [0 .. Capacity - 1 -> Word]
    <3>1. data \in [0 .. Capacity - 1 -> Word]
      BY DEF IndInv, TypeOK
    <3>2. ASSUME NEW s \in 0 .. Capacity - 1, \E i \in 1 .. n : Slots(Slot(back_), plen)[i] = s
          PROVE  Wrap(back_ + (CHOOSE i \in 1 .. n : Slots(Slot(back_), plen)[i] = s) - 1) \in Word
      <4>1. PICK c \in 1 .. n : c = CHOOSE i \in 1 .. n : Slots(Slot(back_), plen)[i] = s
        BY <3>2
      <4>2. back_ + c - 1 \in Nat
        BY <1>4 DEF Word
      <4> QED  BY <2>2, <4>1, <4>2
    <3> QED  BY <3>1, <3>2 DEF Fill
  <2> QED  BY <1>1, <2>1, <2>3 DEF IndInv, TypeOK, cvars
<1>6. ProducerInv'
  BY <1>1, <1>2, <1>4 DEF ProducerInv
<1>7. ASSUME caller = "tcp" PROVE Held'
  <2>1. Filled' = Size + n /\ Filled = Size
    BY <1>1, <1>2, <1>4 DEF Filled
  <2>2. \A i \in 1 .. n : /\ i - 1 \in 0 .. n - 1 /\ Size + (i - 1) \in 0 .. Capacity - 1
                          /\ Slots(Slot(back_), plen)[i] = Slot(Wrap(back_ + (i - 1)))
                          /\ Wrap(back_ + (i - 1)) = Wrap(front_ + (Size + (i - 1)))
    <3> TAKE i \in 1 .. n
    <3>1. i \in 1 .. plen[1] /\ plen[2] = 0
      BY <1>2, <1>3, <1>7
    <3>2. Slots(Slot(back_), plen)[i] = Slot(Wrap(back_ + (i - 1)))
      BY <1>2, <1>3, <1>4, <3>1, StretchPositions
    <3>3. Size + (i - 1) < WordSize /\ i - 1 \in Nat /\ Size \in Nat
      BY <1>2, <1>4
    <3>4. Wrap(back_ + (i - 1)) = Wrap(front_ + (Size + (i - 1)))
      BY <1>4, <3>3, WrapTwice
    <3> QED  BY <1>2, <1>4, <3>2, <3>4
  <2>3. \A i \in 1 .. n : Slots(Slot(back_), plen)[i] = Slot(Wrap(front_ + (Size + (i - 1))))
    BY <2>2
  <2>4. DOMAIN data = 0 .. Capacity - 1
    BY DEF IndInv, TypeOK
  <2> SUFFICES ASSUME NEW k \in 0 .. (Size + n) - 1
               PROVE  data'[Slot(Wrap(front_ + k))] = Wrap(front_ + k)
    BY <1>1, <2>1 DEF Held
  <2>5. k \in 0 .. Capacity - 1 /\ k \in Nat
    BY <1>2, <1>4
  <2>6. Slot(Wrap(front_ + k)) \in 0 .. Capacity - 1
    <3>1. k \in 0 .. WordSize - 1
      BY <2>5
    <3>2. Wrap(front_ + k) \in Word
      BY <1>4, <3>1, WrapAdd
    <3> QED  BY <3>2, SlotRange
  <2>7. CASE k < Size
    <3>1. \A i \in 1 .. n : Slots(Slot(back_), plen)[i] # Slot(Wrap(front_ + k))
      <4> TAKE i \in 1 .. n
      <4>1. Size + (i - 1) \in 0 .. Capacity - 1 /\ Size + (i - 1) # k
        BY <1>4, <2>2, <2>5, <2>7
      <4> QED  BY <1>4, <2>3, <2>5, <4>1, WindowDistinct
    <3>2. data'[Slot(Wrap(front_ + k))] = data[Slot(Wrap(front_ + k))]
      BY <2>4, <2>6, <3>1 DEF Fill
    <3>3. k \in 0 .. Filled - 1 /\ Held
      BY <1>7, <2>1, <2>5, <2>7, <1>4 DEF IndInv
    <3> QED  BY <3>2, <3>3 DEF Held
  <2>8. CASE ~ (k < Size)
    <3>1. PICK m \in 1 .. n : k = Size + (m - 1)
      <4>1. (k - Size) + 1 \in 1 .. n /\ k = Size + (((k - Size) + 1) - 1)
        BY <1>2, <1>4, <2>5, <2>8
      <4> QED  BY <4>1
    <3>2. Slots(Slot(back_), plen)[m] = Slot(Wrap(front_ + k))
      BY <2>3, <3>1
    <3>3. \A i \in 1 .. n : Slots(Slot(back_), plen)[i] = Slot(Wrap(front_ + k)) => i = m
      <4> SUFFICES ASSUME NEW i \in 1 .. n, i # m
                   PROVE  Slots(Slot(back_), plen)[i] # Slot(Wrap(front_ + k))
        OBVIOUS
      <4>1. Size + (i - 1) \in 0 .. Capacity - 1 /\ Size + (i - 1) # k
        BY <1>2, <1>4, <2>2, <2>5, <3>1
      <4> QED  BY <1>4, <2>3, <2>5, <4>1, WindowDistinct
    <3>4. (CHOOSE i \in 1 .. n : Slots(Slot(back_), plen)[i] = Slot(Wrap(front_ + k))) = m
      BY <3>2, <3>3
    <3>5. data'[Slot(Wrap(front_ + k))] = Wrap(back_ + m - 1)
      BY <2>4, <2>6, <3>2, <3>4 DEF Fill
    <3>6. back_ + m - 1 = back_ + (m - 1)
      BY <1>4 DEF Word
    <3> QED  BY <2>2, <3>1, <3>5, <3>6
  <2> QED  BY <2>7, <2>8
<1>8. caller = "tcp" => ppc' # "second" /\ plen'[2] = 0 /\ Held'
  BY <1>1, <1>7
<1> QED  BY <1>1, <1>5, <1>6, <1>8, ProducerStays

LEMMA FillNothingInv ==
  ASSUME Builds = {"release"}, IndInv, FillNothing
  PROVE  IndInv'
<1> USE Sizes
<1>1. /\ ppc = "fill" /\ ppc' = "idle" /\ plen' = <<0, 0>>
      /\ pseen' = pseen /\ UNCHANGED <<caller, build, front_, back_, data, cvars>>
  BY DEF FillNothing
<1>2. Size' = Size /\ Size \in 0 .. Capacity
  BY <1>1, Geometry DEF IndInv, Size
<1>3. TypeOK'
  <2>1. 0 \in Word
    BY DEF Word
  <2> QED  BY <1>1, <2>1 DEF IndInv, TypeOK, cvars
<1>4. ProducerInv'
  BY <1>1, <1>2 DEF ProducerInv
<1>5. caller = "tcp" => ppc' # "second" /\ plen'[2] = 0 /\ Held'
  BY <1>1, NothingCopied DEF IndInv
<1> QED  BY <1>1, <1>3, <1>4, <1>5, ProducerStays

(* Publishing takes slots from what is free and gives them to the consumer.*)
LEMMA AdvanceBackInv ==
  ASSUME Builds = {"release"}, IndInv, AdvanceBack
  PROVE  IndInv'
<1> USE Sizes
<1>1. /\ ppc = "advance" /\ ppc' = "idle" /\ plen' = <<0, 0>>
      /\ back_' = Wrap(back_ + plen[1])
      /\ pseen' = pseen /\ UNCHANGED <<caller, build, front_, data, cvars>>
  BY DEF AdvanceBack
<1>2. plen[1] \in Nat /\ plen[2] \in Nat /\ front_ \in Word /\ back_ \in Word
  BY DEF IndInv, TypeOK, Word
<1>3. PICK n \in Nat : n = plen[1] /\ n <= Capacity - Size /\ Size \in 0 .. Capacity
  BY <1>2, Geometry DEF IndInv, ProducerInv
<1>4. back_' \in Word /\ Size' = Size + n
  <2>1. Minus(back_, front_) + n < WordSize
    BY <1>3 DEF Size
  <2>2. /\ Wrap(back_ + n) \in Word
        /\ Minus(Wrap(back_ + n), front_) = Minus(back_, front_) + n
    BY <1>2, <2>1, Farther
  <2> QED  BY <1>1, <1>3, <2>2 DEF Size
<1>5. TypeOK'
  <2>1. 0 \in Word
    BY DEF Word
  <2> QED  BY <1>1, <1>4, <2>1 DEF IndInv, TypeOK, cvars
<1>6. ProducerInv' /\ Size' <= Capacity
  BY <1>1, <1>3, <1>4 DEF ProducerInv
<1>7. ConsumerInv'
  <2>1. clen[1] \in Nat /\ clen[2] \in Nat
    BY DEF IndInv, TypeOK, Word
  <2>2. clen[2] > 0 => clen[2] <= Slot(back_') /\ Slot(back_') <= Slot(front_)
    <3> HAVE clen[2] > 0
    <3>1. /\ clen[2] <= Slot(back_) /\ Slot(back_) <= Slot(front_)
          /\ clen[1] + clen[2] <= Size
      BY DEF IndInv, ConsumerInv
    <3>2. Size > 0
      BY <1>3, <2>1, <3>1
    <3>3. n \in 0 .. Capacity
      BY <1>3
    <3>4. Slot(back_') = IF Slot(back_) + n < Capacity THEN Slot(back_) + n
                                                       ELSE Slot(back_) + n - Capacity
      BY <1>1, <1>2, <1>3, <3>3, SlotAdvance
    <3>5. /\ Slot(front_) \in 0 .. Capacity - 1 /\ Slot(back_) \in 0 .. Capacity - 1
          /\ Slot(back_) = IF Slot(front_) + Size < Capacity
                           THEN Slot(front_) + Size ELSE Slot(front_) + Size - Capacity
      BY Geometry DEF IndInv
    <3> QED  BY <1>3, <2>1, <3>1, <3>2, <3>4, <3>5
  <2>3. Seen(cseen)' = Seen(cseen) /\ clen' = clen /\ cpc' = cpc /\ cseen' = cseen
    BY <1>1 DEF Seen, cvars
  <2>4. cpc \in {"side", "len"} => Seen(cseen) <= Size' /\ Seen(cseen) > 0
    <3>1. Seen(cseen) \in Nat
      <4>1. cseen \in Word
        BY DEF IndInv, TypeOK
      <4> QED  BY <1>2, <4>1, Distance DEF Seen
    <3> QED  BY <1>3, <1>4, <3>1 DEF IndInv, ConsumerInv
  <2>5. clen[1] + clen[2] <= Size'
    BY <1>3, <1>4, <2>1 DEF IndInv, ConsumerInv
  <2> QED  BY <1>1, <2>2, <2>3, <2>4, <2>5 DEF IndInv, ConsumerInv
<1>8. caller = "tcp" => OneStretch' /\ Held' /\ Sequential'
  <2>1. Filled' = Filled
    BY <1>1, <1>3, <1>4 DEF Filled
  <2>2. Held' <=> Held
    BY <1>1, <2>1 DEF Held
  <2> QED  BY <1>1, <2>2 DEF IndInv, OneStretch, Sequential, cvars
<1> QED  BY <1>1, <1>5, <1>6, <1>7, <1>8 DEF IndInv

-----------------------------------------------------------------------------
(* The consumer's steps.                                                   *)
LEMMA FrontEmptyInv ==
  ASSUME Builds = {"release"}, IndInv, FrontEmpty
  PROVE  IndInv'
<1> USE Sizes
<1>1. /\ cpc' = "side" /\ cseen' = back_ /\ clen' = clen /\ clen = <<0, 0>>
      /\ UNCHANGED <<caller, build, front_, back_, data, pvars, wire, sent>>
  BY DEF FrontEmpty, IndInv, ConsumerInv
<1>2. TypeOK'
  BY <1>1 DEF IndInv, TypeOK, pvars
<1>3. /\ Size' = Size /\ Seen(cseen)' = Size /\ Size \in 0 .. Capacity /\ Size # 0
  BY <1>1, Geometry DEF IndInv, FrontEmpty, Size, Seen
<1>4. ConsumerInv'
  BY <1>1, <1>3 DEF ConsumerInv
<1>5. caller = "tcp" => cpc' # "second" /\ clen'[2] = 0 /\ Sequential'
  BY <1>1 DEF IndInv, Sequential
<1> QED  BY <1>1, <1>2, <1>4, <1>5, ConsumerStays

(* The slots as the consumer sees them, from a copy of the back.           *)
LEMMA SeenBack ==
  ASSUME IndInv, cpc \in {"side", "len"}
  PROVE  /\ cseen \in Word /\ Slot(cseen) \in 0 .. Capacity - 1
         /\ Slot(front_) \in 0 .. Capacity - 1
         /\ Seen(cseen) \in 1 .. Capacity /\ Seen(cseen) <= Size
         /\ Slot(cseen) = IF Slot(front_) + Seen(cseen) < Capacity
                          THEN Slot(front_) + Seen(cseen)
                          ELSE Slot(front_) + Seen(cseen) - Capacity
<1>1. cseen \in Word /\ front_ \in Word /\ Minus(cseen, front_) <= Size
      /\ Minus(cseen, front_) > 0
  BY DEF IndInv, TypeOK, ConsumerInv, Seen
<1>2. Minus(cseen, front_) \in 0 .. WordSize - 1 /\ Size \in 0 .. Capacity
  BY <1>1, Distance, Geometry DEF IndInv
<1>3. Minus(cseen, front_) <= Capacity
  BY <1>1, <1>2, Sizes
<1> QED  BY <1>1, <1>2, <1>3, SlotApart, Sizes DEF Seen

LEMMA FrontSideInv ==
  ASSUME Builds = {"release"}, IndInv, FrontSide
  PROVE  IndInv'
<1> USE Sizes
<1>1. /\ cseen' = cseen /\ clen = <<0, 0>> /\ cpc = "side"
      /\ UNCHANGED <<caller, build, front_, back_, data, pvars, wire, sent>>
      /\ build = "release"
  BY DEF FrontSide, IndInv, TypeOK, ConsumerInv
<1>2. Size' = Size /\ Seen(cseen)' = Seen(cseen) /\ Size \in 0 .. Capacity
  BY <1>1, Geometry DEF IndInv, Size, Seen
<1>3. Slot(front_) \in 0 .. Capacity - 1
  BY <1>1, SeenBack
<1>4. CASE Slot(cseen) > Slot(front_)
  <2>1. clen' = <<0, 0>> /\ cpc' = "len"
    BY <1>1, <1>4 DEF FrontSide, Load
  <2>2. TypeOK'
    BY <1>1, <2>1 DEF IndInv, TypeOK, pvars
  <2>3. Slot(front_) < Slot(cseen) /\ Seen(cseen) <= Size /\ Seen(cseen) > 0
    BY <1>1, <1>3, <1>4, SeenBack
  <2>4. ConsumerInv'
    BY <1>1, <1>2, <2>1, <2>3 DEF ConsumerInv
  <2>5. caller = "tcp" => cpc' # "second" /\ clen'[2] = 0 /\ Sequential'
    BY <1>1, <2>1 DEF IndInv, Sequential
  <2> QED  BY <1>1, <2>2, <2>4, <2>5, ConsumerStays
<1>5. CASE ~ (Slot(cseen) > Slot(front_))
  <2>1. clen' = <<Capacity - Slot(front_), 0>> /\ cpc' = Found("send")
    BY <1>1, <1>5 DEF FrontSide, Load
  <2>2. Capacity - Slot(front_) \in Word /\ 0 \in Word
    BY <1>3 DEF Word
  <2>3. TypeOK'
    BY <1>1, <2>1, <2>2 DEF IndInv, TypeOK, Found, pvars
  <2>4. Capacity - Slot(front_) <= Size
    BY <1>1, <1>2, <1>5, SeenBack
  <2>5. ConsumerInv'
    BY <1>1, <1>2, <1>3, <2>1, <2>4 DEF ConsumerInv, Found
  <2>6. caller = "tcp" => cpc' # "second" /\ clen'[2] = 0 /\ Sequential'
    BY <1>1, <2>1 DEF IndInv, Sequential, Found
  <2> QED  BY <1>1, <2>3, <2>5, <2>6, ConsumerStays
<1> QED  BY <1>4, <1>5

LEMMA FrontLenInv ==
  ASSUME Builds = {"release"}, IndInv, FrontLen
  PROVE  IndInv'
<1> USE Sizes
<1>1. /\ cseen' = cseen /\ cpc = "len" /\ cpc' = Found("send")
      /\ clen' = <<Seen(cseen), 0>>
      /\ UNCHANGED <<caller, build, front_, back_, data, pvars, wire, sent>>
  BY DEF FrontLen, Load, Seen, IndInv, TypeOK
<1>2. Size' = Size /\ Size \in 0 .. Capacity
  BY <1>1, Geometry DEF IndInv, Size
<1>3. PICK n \in 1 .. Capacity :
        n = Seen(cseen) /\ clen' = <<n, 0>> /\ n <= Size
  BY <1>1, SeenBack
<1>4. Slot(front_) + n <= Capacity
  <2>1. Slot(front_) < Slot(cseen)
    BY <1>1 DEF IndInv, ConsumerInv
  <2> QED  BY <1>1, <1>3, <2>1, SeenBack
<1>5. TypeOK'
  <2>1. n \in Word /\ 0 \in Word
    BY DEF Word
  <2> QED  BY <1>1, <1>3, <2>1 DEF IndInv, TypeOK, Found, pvars
<1>6. ConsumerInv'
  BY <1>1, <1>2, <1>3, <1>4 DEF ConsumerInv, Found
<1>7. caller = "tcp" => cpc' # "second" /\ clen'[2] = 0 /\ Sequential'
  BY <1>1, <1>3 DEF IndInv, Sequential, Found
<1> QED  BY <1>1, <1>5, <1>6, <1>7, ConsumerStays

LEMMA FrontSecondInv ==
  ASSUME Builds = {"release"}, IndInv, FrontSecond
  PROVE  IndInv'
<1> USE Sizes
<1>1. /\ cpc = "second" /\ cpc' = "send"
      /\ UNCHANGED <<caller, build, front_, back_, data, pvars, wire, sent>>
      /\ caller # "tcp" /\ cseen' \in Word
  BY DEF FrontSecond, IndInv, OneStretch, TypeOK
<1>2. /\ Size' = Size /\ Size \in 0 .. Capacity
      /\ Slot(front_) \in 0 .. Capacity - 1 /\ Slot(back_) \in 0 .. Capacity - 1
      /\ Slot(back_) = IF Slot(front_) + Size < Capacity
                       THEN Slot(front_) + Size ELSE Slot(front_) + Size - Capacity
      /\ Size = 0 <=> front_ = back_
  BY <1>1, Geometry DEF IndInv, Size
<1>3. clen[1] \in Nat /\ clen[1] \in Word /\ clen[2] = 0 /\ clen \in Word \X Word
  BY <1>1 DEF IndInv, TypeOK, ConsumerInv, Word
<1>4. clen[1] <= Size /\ Slot(front_) + clen[1] <= Capacity
  BY <1>1, <1>3 DEF IndInv, ConsumerInv
<1>5. PICK m \in Nat :
        /\ m = IF back_ # front_ /\ Slot(back_) <= Slot(front_) THEN Slot(back_) ELSE 0
        /\ clen' = <<clen[1], m>>
  BY <1>2, <1>3 DEF FrontSecond
<1>6. clen[1] + m <= Size /\ (m > 0 => m <= Slot(back_) /\ Slot(back_) <= Slot(front_))
  BY <1>2, <1>3, <1>4, <1>5
<1>7. TypeOK'
  <2>1. m \in Word
    BY <1>2, <1>5 DEF Word
  <2> QED  BY <1>1, <1>3, <1>5, <2>1 DEF IndInv, TypeOK, pvars
<1>8. ConsumerInv'
  BY <1>1, <1>2, <1>3, <1>4, <1>5, <1>6 DEF ConsumerInv
<1> QED  BY <1>1, <1>7, <1>8, ConsumerStays

LEMMA SendInv ==
  ASSUME Builds = {"release"}, IndInv, NEW n \in 1 .. Capacity, Send(n)
  PROVE  IndInv'
<1> USE Sizes
<1>1. /\ cpc = "send" /\ cpc' = "advance" /\ clen' = <<n, 0>>
      /\ wire' = [i \in 1 .. n |-> data[Slots(Slot(front_), clen)[i]]]
      /\ sent' = front_
      /\ cseen' = cseen /\ UNCHANGED <<caller, build, front_, back_, data, pvars>>
  BY DEF Send
<1>2. /\ clen[1] \in Nat /\ clen[2] \in Nat /\ clen \in Nat \X Nat
      /\ n <= clen[1] + clen[2] /\ n \in Nat
      /\ \A i \in 1 .. n : Slots(Slot(front_), clen)[i] \in DOMAIN data
      /\ data \in [0 .. Capacity - 1 -> Word]
  BY DEF Send, Inside, IndInv, TypeOK, Word
<1>3. /\ clen[1] + clen[2] <= Size /\ Slot(front_) + clen[1] <= Capacity
      /\ caller = "tcp" => clen[2] = 0
  BY <1>1 DEF IndInv, ConsumerInv, OneStretch
<1>4. /\ Size' = Size /\ Size \in 0 .. Capacity /\ front_ \in Word
  BY <1>1, Geometry DEF IndInv, Size, TypeOK
<1>5. n <= Size
  BY <1>2, <1>3, <1>4
<1>6. TypeOK'
  <2>1. n \in Word /\ 0 \in Word
    BY DEF Word
  <2>2. wire' \in Seq(Word)
    BY <1>1, <1>2
  <2> QED  BY <1>1, <1>4, <2>1, <2>2 DEF IndInv, TypeOK, pvars
<1>7. ConsumerInv'
  BY <1>1, <1>2, <1>4, <1>5 DEF ConsumerInv
<1>8. ASSUME caller = "tcp" PROVE Sequential'
  <2>1. Len(wire') = n /\ clen[2] = 0 /\ n <= clen[1]
    BY <1>1, <1>2, <1>3, <1>8
  <2>2. Size <= Filled /\ Filled \in Nat
    BY <1>4 DEF Filled, IndInv, TypeOK, Word
  <2> SUFFICES ASSUME NEW i \in 1 .. n PROVE wire'[i] = Wrap(front_ + (i - 1))
    BY <1>1, <2>1 DEF Sequential
  <2>3. i \in 1 .. clen[1] /\ i - 1 \in 0 .. Filled - 1
    BY <1>2, <1>4, <1>5, <2>1, <2>2
  <2>4. Slots(Slot(front_), clen)[i] = Slot(Wrap(front_ + (i - 1)))
    BY <1>2, <1>3, <1>4, <2>1, <2>3, StretchPositions
  <2>5. data[Slot(Wrap(front_ + (i - 1)))] = Wrap(front_ + (i - 1))
    BY <1>8, <2>3 DEF IndInv, Held
  <2> QED  BY <1>1, <2>4, <2>5
<1>9. caller = "tcp" => cpc' # "second" /\ clen'[2] = 0 /\ Sequential'
  BY <1>1, <1>8
<1> QED  BY <1>1, <1>6, <1>7, <1>9, ConsumerStays

LEMMA SendNothingInv ==
  ASSUME Builds = {"release"}, IndInv, SendNothing
  PROVE  IndInv'
<1> USE Sizes
<1>1. /\ cpc' = "idle" /\ clen' = <<0, 0>> /\ cseen' = cseen
      /\ UNCHANGED <<caller, build, front_, back_, data, pvars, wire, sent>>
  BY DEF SendNothing
<1>2. Size' = Size /\ Size \in 0 .. Capacity
  BY <1>1, Geometry DEF IndInv, Size
<1>3. TypeOK'
  <2>1. 0 \in Word
    BY DEF Word
  <2> QED  BY <1>1, <2>1 DEF IndInv, TypeOK, pvars
<1>4. ConsumerInv'
  BY <1>1, <1>2 DEF ConsumerInv
<1>5. caller = "tcp" => cpc' # "second" /\ clen'[2] = 0 /\ Sequential'
  BY <1>1 DEF IndInv, Sequential
<1> QED  BY <1>1, <1>3, <1>4, <1>5, ConsumerStays

(* Releasing takes slots from what is used and gives them to the producer. *)
LEMMA AdvanceFrontInv ==
  ASSUME Builds = {"release"}, IndInv, AdvanceFront
  PROVE  IndInv'
<1> USE Sizes
<1>1. /\ cpc = "advance" /\ cpc' = "idle" /\ clen' = <<0, 0>>
      /\ front_' = Wrap(front_ + clen[1])
      /\ cseen' = cseen /\ UNCHANGED <<caller, build, back_, data, pvars, wire, sent>>
  BY DEF AdvanceFront
<1>2. /\ clen[1] \in Nat /\ clen[2] \in Nat /\ front_ \in Word /\ back_ \in Word
      /\ plen[1] \in Nat /\ plen[2] \in Nat
  BY DEF IndInv, TypeOK, Word
<1>3. PICK n \in 0 .. Capacity : n = clen[1] /\ n <= Size /\ Size \in 0 .. Capacity
  BY <1>2, Geometry DEF IndInv, ConsumerInv
<1>4. front_' \in Word /\ Size' = Size - n
  <2>1. n \in 0 .. Minus(back_, front_)
    BY <1>3 DEF Size
  <2>2. /\ Wrap(front_ + n) \in Word
        /\ Minus(back_, Wrap(front_ + n)) = Minus(back_, front_) - n
    BY <1>2, <2>1, Closer
  <2> QED  BY <1>1, <1>3, <2>2 DEF Size
<1>5. TypeOK'
  <2>1. 0 \in Word
    BY DEF Word
  <2> QED  BY <1>1, <1>4, <2>1 DEF IndInv, TypeOK, pvars
<1>6. ConsumerInv' /\ Size' <= Capacity
  BY <1>1, <1>3, <1>4 DEF ConsumerInv
<1>7. ProducerInv'
  <2>1. plen[1] + plen[2] <= Capacity - Size
    BY DEF IndInv, ProducerInv
  <2>2. plen[2] > 0 => plen[2] <= Slot(front_') /\ Slot(front_') <= Slot(back_)
    <3> HAVE plen[2] > 0
    <3>1. plen[2] <= Slot(front_) /\ Slot(front_) <= Slot(back_)
      BY DEF IndInv, ProducerInv
    <3>2. Size < Capacity
      BY <1>2, <1>3, <2>1
    <3>3. Slot(front_') = IF Slot(front_) + n < Capacity THEN Slot(front_) + n
                                                         ELSE Slot(front_) + n - Capacity
      BY <1>1, <1>2, <1>3, SlotAdvance
    <3>4. /\ Slot(front_) \in 0 .. Capacity - 1 /\ Slot(back_) \in 0 .. Capacity - 1
          /\ Slot(back_) = IF Slot(front_) + Size < Capacity
                           THEN Slot(front_) + Size ELSE Slot(front_) + Size - Capacity
      BY Geometry DEF IndInv
    <3> QED  BY <1>2, <1>3, <3>1, <3>2, <3>3, <3>4
  <2>3. Behind(pseen)' = Behind(pseen) /\ plen' = plen /\ ppc' = ppc /\ pseen' = pseen
    BY <1>1 DEF Behind, pvars
  <2>4. ppc \in {"side", "len"} => Size' <= Behind(pseen) /\ Behind(pseen) < Capacity
    BY <1>3, <1>4, SeenFront
  <2>5. plen[1] + plen[2] <= Capacity - Size'
    BY <1>2, <1>3, <1>4, <2>1
  <2> QED  BY <1>1, <2>2, <2>3, <2>4, <2>5 DEF IndInv, ProducerInv
<1>8. caller = "tcp" => OneStretch' /\ Held' /\ Sequential'
  <2> HAVE caller = "tcp"
  <2>1. OneStretch' /\ Sequential'
    BY <1>1 DEF IndInv, OneStretch, Sequential, pvars
  <2>2. Filled' = Filled - n /\ Filled \in 0 .. Capacity
    BY <1>1, <1>2, <1>3, <1>4 DEF Filled, IndInv, ProducerInv, pvars
  <2>3. ASSUME NEW k \in 0 .. (Filled - n) - 1
        PROVE  data[Slot(Wrap(front_' + k))] = Wrap(front_' + k)
    <3>1. n + k \in 0 .. Filled - 1 /\ n \in Nat /\ k \in Nat /\ n + k < WordSize
      BY <2>2
    <3>2. Wrap(front_' + k) = Wrap(front_ + (n + k))
      BY <1>1, <1>2, <1>3, <3>1, WrapTwice
    <3>3. data[Slot(Wrap(front_ + (n + k)))] = Wrap(front_ + (n + k))
      BY <3>1 DEF IndInv, Held
    <3> QED  BY <3>2, <3>3
  <2>4. Held'
    BY <1>1, <2>2, <2>3 DEF Held
  <2> QED  BY <2>1, <2>4
<1> QED  BY <1>1, <1>5, <1>6, <1>7, <1>8 DEF IndInv

-----------------------------------------------------------------------------
LEMMA NextInv == Builds = {"release"} /\ IndInv /\ [Next]_vars => IndInv'
<1> SUFFICES ASSUME Builds = {"release"}, IndInv, [Next]_vars PROVE IndInv'
  OBVIOUS
<1>1. CASE Producer
  BY <1>1, BackFullInv, BackSideInv, BackAssertInv, BackLenInv, BackSecondInv,
     FillInv, FillNothingInv, AdvanceBackInv DEF Producer
<1>2. CASE Consumer
  BY <1>2, FrontEmptyInv, FrontSideInv, FrontLenInv, FrontSecondInv, SendInv,
     SendNothingInv, AdvanceFrontInv DEF Consumer, Sends
<1>3. CASE UNCHANGED vars
  <2>1. UNCHANGED <<caller, build, front_, back_, data, pvars, cvars>>
    BY <1>3 DEF vars
  <2>2. Size' = Size
    BY <2>1 DEF Size
  <2>3. TypeOK' /\ Sequential' = Sequential /\ OneStretch' = OneStretch
    BY <2>1 DEF IndInv, TypeOK, Sequential, OneStretch, pvars, cvars
  <2>4. ProducerInv' /\ ConsumerInv'
    BY <2>1, <2>2 DEF IndInv, ProducerInv, ConsumerInv, Behind, Seen, pvars, cvars
  <2>5. Held' = Held
    BY <2>1, <2>2 DEF Held, Filled, pvars, cvars
  <2> QED  BY <2>1, <2>2, <2>3, <2>4, <2>5 DEF IndInv
<1> QED  BY <1>1, <1>2, <1>3 DEF Next

(* What each thread computes from its copy of the other's index stays      *)
(* within what it may use, in every reachable state.                       *)
THEOREM StretchInvariance == ASSUME Builds = {"release"} PROVE Spec => []IndInv
<1>1. Init => IndInv
  BY InitInv
<1>2. IndInv /\ [Next]_vars => IndInv'
  BY NextInv
<1> QED  BY <1>1, <1>2, PTL DEF Spec

(* In the optimised builds, no stretch handed to a socket or to memcpy     *)
(* leaves the array, for every capacity and word size.                     *)
THEOREM StretchInsideAlways == ASSUME Builds = {"release"} PROVE Spec => []StretchInside
<1>1. IndInv => StretchInside
  <2> SUFFICES ASSUME IndInv PROVE StretchInside
    OBVIOUS
  <2>1. /\ ppc = "fill" => ~ (Slot(back_) + plen[1] > Capacity)
        /\ cpc = "send" => ~ (Slot(front_) + clen[1] > Capacity)
    <3>1. /\ Slot(back_) \in Nat /\ Slot(front_) \in Nat /\ plen[1] \in Nat /\ clen[1] \in Nat
      BY Geometry DEF IndInv, TypeOK, Word
    <3> QED  BY <3>1, Sizes DEF IndInv, ProducerInv, ConsumerInv
  <2> QED  BY <2>1 DEF IndInv, ProducerInv, StretchInside
<1> QED  BY <1>1, StretchInvariance, PTL

(* The stretches the two threads work on at the same time share no slot.   *)
THEOREM StretchesApartAlways == ASSUME Builds = {"release"} PROVE Spec => []StretchesApart
<1>1. IndInv => StretchesApart
  <2> SUFFICES ASSUME IndInv, ppc = "fill", cpc = "send",
                      NEW i \in DOMAIN Slots(Slot(back_), plen),
                      NEW j \in DOMAIN Slots(Slot(front_), clen)
               PROVE  Slots(Slot(back_), plen)[i] # Slots(Slot(front_), clen)[j]
    BY DEF StretchesApart
  <2>1. /\ plen[1] \in Nat /\ plen[2] \in Nat /\ clen[1] \in Nat /\ clen[2] \in Nat
    BY DEF IndInv, TypeOK, Word
  <2>2. /\ Slot(front_) \in 0 .. Capacity - 1 /\ Slot(back_) \in 0 .. Capacity - 1
        /\ Size \in 0 .. Capacity /\ Capacity \in Nat
        /\ Slot(back_) = IF Slot(front_) + Size < Capacity
                         THEN Slot(front_) + Size ELSE Slot(front_) + Size - Capacity
    BY Geometry, Sizes DEF IndInv
  <2>3. /\ Slot(back_) + plen[1] <= Capacity
        /\ plen[1] + plen[2] <= Capacity - Size
        /\ plen[2] > 0 => plen[2] <= Slot(front_) /\ Slot(front_) <= Slot(back_)
    BY DEF IndInv, ProducerInv
  <2>4. /\ Slot(front_) + clen[1] <= Capacity
        /\ clen[1] + clen[2] <= Size
        /\ clen[2] > 0 => clen[2] <= Slot(back_) /\ Slot(back_) <= Slot(front_)
    BY DEF IndInv, ConsumerInv
  <2>5. /\ i \in 1 .. plen[1] + plen[2]
        /\ Slots(Slot(back_), plen)[i]
             = IF i <= plen[1] THEN Slot(back_) + (i - 1) ELSE i - plen[1] - 1
    BY DEF Slots
  <2>6. /\ j \in 1 .. clen[1] + clen[2]
        /\ Slots(Slot(front_), clen)[j]
             = IF j <= clen[1] THEN Slot(front_) + (j - 1) ELSE j - clen[1] - 1
    BY DEF Slots
  <2>7. CASE i <= plen[1] /\ j <= clen[1]
    BY <2>1, <2>2, <2>3, <2>4, <2>5, <2>6, <2>7
  <2>8. CASE i <= plen[1] /\ j > clen[1]
    BY <2>1, <2>2, <2>3, <2>4, <2>5, <2>6, <2>8
  <2>9. CASE i > plen[1] /\ j <= clen[1]
    BY <2>1, <2>2, <2>3, <2>4, <2>5, <2>6, <2>9
  <2>10. CASE i > plen[1] /\ j > clen[1]
    BY <2>1, <2>2, <2>3, <2>4, <2>5, <2>6, <2>10
  <2> QED  BY <2>1, <2>5, <2>6, <2>7, <2>8, <2>9, <2>10
<1> QED  BY <1>1, StretchInvariance, PTL

(* Taken one stretch at a time, the bytes leave in the order they came,    *)
(* none twice and none skipped.                                            *)
THEOREM StreamInOrderAlways == ASSUME Builds = {"release"} PROVE Spec => []StreamInOrder
<1>1. IndInv => StreamInOrder
  BY DEF IndInv, StreamInOrder
<1> QED  BY <1>1, StretchInvariance, PTL
=============================================================================
