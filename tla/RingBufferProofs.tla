-------------------------- MODULE RingBufferProofs --------------------------
(***************************************************************************)
(* RingBuffer implements BoundedFifo for every capacity, every word size   *)
(* that is a larger multiple of it, and every set of values.               *)
(***************************************************************************)
EXTENDS RingBuffer, Integers, SequenceTheorems, TLAPS

-----------------------------------------------------------------------------
(* Arithmetic of the masked, wrapping indices.                             *)

(* Splitting a number by a divisor.                                        *)
LEMMA DivMod ==
  ASSUME NEW n \in Nat \ {0}, NEW x \in Nat
  PROVE  /\ x = n * (x \div n) + (x % n)
         /\ x \div n \in Nat
         /\ x % n \in 0 .. n - 1
  OBVIOUS

(* A remainder is determined by any quotient that leaves it in range.      *)
LEMMA ModUnique ==
  ASSUME NEW n \in Nat \ {0}, NEW q \in Nat, NEW r \in 0 .. n - 1
  PROVE  (n * q + r) % n = r
  OBVIOUS

(* Two positions less than n apart have different remainders.              *)
LEMMA ModDistinct ==
  ASSUME NEW n \in Nat \ {0}, NEW x \in Nat, NEW k \in 1 .. n - 1
  PROVE  (x + k) % n # x % n
<1> DEFINE q == x \div n
           r == x % n
<1>1. x = n * q + r /\ q \in Nat /\ r \in 0 .. n - 1
  BY DivMod
<1>2. CASE r + k < n
  <2>1. (n * q + (r + k)) % n = r + k
    <3>1. r + k \in 0 .. n - 1
      BY <1>1, <1>2
    <3>2. QED BY <1>1, <3>1, ModUnique
  <2>2. n * q + (r + k) = x + k
    BY <1>1
  <2>3. QED BY <2>1, <2>2, <1>1
<1>3. CASE r + k >= n
  <2>1. q + 1 \in Nat /\ r + k - n \in 0 .. n - 1
    BY <1>1, <1>3
  <2>2. (n * (q + 1) + (r + k - n)) % n = r + k - n
    BY <2>1, ModUnique
  <2>3. n * (q + 1) + (r + k - n) = x + k
    BY <1>1
  <2>4. QED BY <2>2, <2>3, <1>1, <1>3
<1>4. QED BY <1>1, <1>2, <1>3

(* Removing a multiple of n leaves the remainder alone.                    *)
LEMMA ModShift ==
  ASSUME NEW n \in Nat \ {0}, NEW m \in Nat, m % n = 0, NEW x \in Nat, m <= x
  PROVE  (x - m) % n = x % n
<1> DEFINE d == m \div n
           q == (x - m) \div n
           r == (x - m) % n
<1>1. m = n * d /\ d \in Nat
  BY DivMod
<1>2. x - m = n * q + r /\ q \in Nat /\ r \in 0 .. n - 1
  <2>1. x - m \in Nat
    OBVIOUS
  <2>2. QED BY <2>1, DivMod
<1>3. n * (q + d) + r = x /\ q + d \in Nat
  BY <1>1, <1>2
<1>4. (n * (q + d) + r) % n = r
  BY <1>2, <1>3, ModUnique
<1>5. QED BY <1>3, <1>4

(* Advancing an index by less than a word.                                 *)
LEMMA WrapAdd ==
  ASSUME NEW p \in Word, NEW k \in 0 .. WordSize - 1
  PROVE  /\ Wrap(p + k) = IF p + k < WordSize THEN p + k ELSE p + k - WordSize
         /\ Wrap(p + k) \in Word
<1>1. WordSize \in Nat \ {0}
  BY WordAssumption, CapacityAssumption
<1>2. CASE p + k < WordSize
  BY <1>1, <1>2 DEF Word, Wrap
<1>3. CASE p + k >= WordSize
  <2>1. (WordSize * 1 + (p + k - WordSize)) % WordSize = p + k - WordSize
    BY <1>1, <1>3, ModUnique DEF Word
  <2>2. QED BY <1>1, <1>3, <2>1 DEF Word, Wrap
<1>4. QED BY <1>1, <1>2, <1>3 DEF Word

(* Not advancing an index.                                                 *)
LEMMA WrapZero ==
  ASSUME NEW p \in Word
  PROVE  Wrap(p + 0) = p
<1>1. WordSize \in Nat \ {0} /\ 0 \in 0 .. WordSize - 1
  BY WordAssumption, CapacityAssumption
<1>2. Wrap(p + 0) = IF p + 0 < WordSize THEN p + 0 ELSE p + 0 - WordSize
  BY <1>1, WrapAdd
<1>3. QED BY <1>1, <1>2 DEF Word

(* A masked index is a slot.                                               *)
LEMMA SlotRange ==
  ASSUME NEW p \in Nat
  PROVE  Slot(p) \in 0 .. Capacity - 1
  BY CapacityAssumption, DivMod DEF Slot

(* Positions less than a capacity apart fall in different slots, also      *)
(* when the index wraps between them.                                      *)
LEMMA SlotDistinct ==
  ASSUME NEW p \in Word, NEW k \in 1 .. Capacity - 1
  PROVE  Slot(Wrap(p + k)) # Slot(p)
<1>1. k \in 0 .. WordSize - 1 /\ Capacity \in Nat \ {0} /\ WordSize \in Nat
  BY WordAssumption, CapacityAssumption
<1>2. (p + k) % Capacity # p % Capacity
  BY <1>1, ModDistinct DEF Word
<1>3. CASE p + k < WordSize
  BY <1>1, <1>2, <1>3, WrapAdd DEF Slot
<1>4. CASE p + k >= WordSize
  <2>1. p + k \in Nat /\ WordSize <= p + k
    BY <1>1, <1>4 DEF Word
  <2>2. \A x \in Nat : WordSize <= x => (x - WordSize) % Capacity = x % Capacity
    BY <1>1, WordAssumption, ModShift
  <2>3. (p + k - WordSize) % Capacity = (p + k) % Capacity
    <3>1. PICK x \in Nat : x = p + k
      BY <2>1
    <3>2. WordSize <= x => (x - WordSize) % Capacity = x % Capacity
      BY <2>2
    <3>3. QED BY <1>1, <2>1, <3>1, <3>2 DEF Word
  <2>4. QED BY <1>1, <1>2, <1>4, <2>3, WrapAdd DEF Slot, Word
<1>5. QED BY <1>1, <1>3, <1>4 DEF Word

(* Any two distinct positions of a window of one capacity.                 *)
LEMMA WindowDistinct ==
  ASSUME NEW p \in Word, NEW i \in 0 .. Capacity - 1, NEW j \in 0 .. Capacity - 1,
         i < j
  PROVE  Slot(Wrap(p + i)) # Slot(Wrap(p + j))
<1>1. i \in 0 .. WordSize - 1 /\ j \in 0 .. WordSize - 1 /\ WordSize \in Nat
  BY WordAssumption, CapacityAssumption
<1>2. Wrap(p + i) \in Word /\ j - i \in 1 .. Capacity - 1
  BY <1>1, WrapAdd, CapacityAssumption
<1>3. j - i \in 0 .. WordSize - 1
  BY <1>1, <1>2, CapacityAssumption
<1>4. Wrap(Wrap(p + i) + (j - i)) = Wrap(p + j)
  BY <1>1, <1>2, <1>3, WrapAdd DEF Word
<1>5. QED BY <1>2, <1>4, SlotDistinct

-----------------------------------------------------------------------------
(* The distance from one index to another, as size() computes it.          *)
LEMMA WordDistance ==
  ASSUME NEW f \in Word, NEW b \in Word
  PROVE  /\ Wrap(b + (WordSize - f)) = IF f <= b THEN b - f ELSE b + WordSize - f
         /\ Wrap(b + (WordSize - f)) \in 0 .. WordSize - 1
<1>1. WordSize \in Nat \ {0}
  BY WordAssumption, CapacityAssumption
<1>2. CASE f <= b
  <2>1. b - f \in 0 .. WordSize - 1
    BY <1>1, <1>2 DEF Word
  <2>2. (WordSize * 1 + (b - f)) % WordSize = b - f
    BY <1>1, <2>1, ModUnique
  <2>3. WordSize * 1 + (b - f) = b + (WordSize - f)
    BY <1>1 DEF Word
  <2>4. QED BY <1>2, <2>1, <2>2, <2>3 DEF Wrap
<1>3. CASE f > b
  <2>1. b + (WordSize - f) \in 0 .. WordSize - 1
    BY <1>1, <1>3 DEF Word
  <2>2. (b + (WordSize - f)) % WordSize = b + (WordSize - f)
    BY <1>1, <2>1
  <2>3. b + (WordSize - f) = b + WordSize - f /\ ~ (f <= b)
    BY <1>1, <1>3 DEF Word
  <2>4. QED BY <2>1, <2>2, <2>3 DEF Wrap
<1>4. QED BY <1>2, <1>3, <1>1 DEF Word

(* The distance of the two indices is the size, and the back is that far   *)
(* from the front.                                                         *)
LEMMA SizeDistance ==
  ASSUME front_ \in Word, back_ \in Word
  PROVE  /\ Size = IF front_ <= back_ THEN back_ - front_
                                     ELSE back_ + WordSize - front_
         /\ Size \in 0 .. WordSize - 1
         /\ Wrap(front_ + Size) = back_
         /\ Size = 0 <=> front_ = back_
<1>1. WordSize \in Nat \ {0}
  BY WordAssumption, CapacityAssumption
<1>2. /\ Size = IF front_ <= back_ THEN back_ - front_
                                   ELSE back_ + WordSize - front_
      /\ Size \in 0 .. WordSize - 1
  BY WordDistance DEF Size
<1>3. Wrap(front_ + Size) = back_
  <2>1. PICK s \in 0 .. WordSize - 1 : s = Size
    BY <1>2
  <2>2. Wrap(front_ + s) = IF front_ + s < WordSize THEN front_ + s
                                                    ELSE front_ + s - WordSize
    BY WrapAdd
  <2>3. QED BY <1>1, <1>2, <2>1, <2>2 DEF Word
<1>4. QED BY <1>1, <1>2, <1>3 DEF Word

(* Publishing a slot adds one to the size, if there was room.              *)
LEMMA SizeAfterPublish ==
  ASSUME front_ \in Word, back_ \in Word, Size < Capacity
  PROVE  /\ Wrap(back_ + 1) \in Word
         /\ Wrap(Wrap(back_ + 1) + (WordSize - front_)) = Size + 1
<1>1. WordSize \in Nat \ {0} /\ 1 \in 0 .. WordSize - 1 /\ Capacity < WordSize
      /\ Capacity \in Nat
  BY WordAssumption, CapacityAssumption
<1>2. /\ Wrap(back_ + 1) = IF back_ + 1 < WordSize THEN back_ + 1
                                                  ELSE back_ + 1 - WordSize
      /\ Wrap(back_ + 1) \in Word
  BY <1>1, WrapAdd
<1>3. PICK b \in Word : b = Wrap(back_ + 1)
  BY <1>2
<1>4. Wrap(b + (WordSize - front_)) = IF front_ <= b THEN b - front_
                                                     ELSE b + WordSize - front_
  BY WordDistance
<1>5. QED BY <1>1, <1>2, <1>3, <1>4, SizeDistance DEF Word

(* Advancing the front by at most the size takes that much from it.        *)
LEMMA SizeAfterAdvance ==
  ASSUME front_ \in Word, back_ \in Word, NEW n \in Nat, n <= Size
  PROVE  /\ Wrap(front_ + n) \in Word
         /\ Wrap(back_ + (WordSize - Wrap(front_ + n))) = Size - n
<1>1. WordSize \in Nat \ {0} /\ n \in 0 .. WordSize - 1
  BY WordAssumption, CapacityAssumption, SizeDistance
<1>2. /\ Wrap(front_ + n) = IF front_ + n < WordSize THEN front_ + n
                                                    ELSE front_ + n - WordSize
      /\ Wrap(front_ + n) \in Word
  BY <1>1, WrapAdd
<1>3. PICK f \in Word : f = Wrap(front_ + n)
  BY <1>2
<1>4. Wrap(back_ + (WordSize - f)) = IF f <= back_ THEN back_ - f
                                                   ELSE back_ + WordSize - f
  BY WordDistance
<1>5. QED BY <1>1, <1>2, <1>3, <1>4, SizeDistance DEF Word

(* The slot at the back is outside the live window until it is published.  *)
LEMMA BackSlotFree ==
  ASSUME front_ \in Word, back_ \in Word, Size < Capacity,
         NEW i \in 0 .. Size - 1
  PROVE  Slot(Wrap(front_ + i)) # Slot(back_)
<1>1. Wrap(front_ + Size) = back_ /\ Size \in Nat
  BY SizeDistance, WordAssumption
<1>2. i \in 0 .. Capacity - 1 /\ Size \in 0 .. Capacity - 1 /\ i < Size
  BY <1>1, CapacityAssumption
<1>3. QED BY <1>1, <1>2, WindowDistinct

-----------------------------------------------------------------------------
(* Steps that leave both indices alone leave the size alone.               *)
LEMMA SizeUnchanged ==
  ASSUME UNCHANGED <<front_, back_>>
  PROVE  Size' = Size /\ Empty' = Empty
  BY DEF Size, Empty

(* The initial buffer is empty and no thread is inside an operation.       *)
LEMMA InitIndInv == Init => IndInv
<1> SUFFICES ASSUME Init PROVE IndInv
  OBVIOUS
<1>1. 0 \in Word /\ WordSize \in Nat \ {0} /\ Capacity \in Nat
  BY WordAssumption, CapacityAssumption DEF Word
<1>2. Size = 0
  BY <1>1, SizeDistance DEF Init
<1>3. QED
  BY <1>1, <1>2 DEF Init, IndInv, TypeOK, NeverOverfull, ProducerRoom, WrittenSlot,
     ConsumerData, Empty

(* A producer step keeps the inductive invariant: only the publication     *)
(* changes an index, and there was room for it since PushWait.             *)
LEMMA ProducerIndInv == IndInv /\ Producer => IndInv'
<1> SUFFICES ASSUME IndInv, Producer PROVE IndInv'
  OBVIOUS
<1> USE DEF IndInv, TypeOK, NeverOverfull, ProducerRoom, WrittenSlot, ConsumerData
<1>1. WordSize \in Nat \ {0} /\ Capacity \in Nat /\ Size \in Nat
  BY WordAssumption, CapacityAssumption, SizeDistance
<1>2. ASSUME NEW v \in Value, PushWait(v) PROVE IndInv'
  <2>1. Size' = Size /\ Empty' = Empty
    BY <1>2, SizeUnchanged DEF PushWait
  <2>2. Size < Capacity
    BY <1>1, <1>2 DEF PushWait, Full
  <2>3. QED BY <1>2, <2>1, <2>2 DEF PushWait, cvars
<1>3. CASE PushWrite
  <2>1. Size' = Size /\ Empty' = Empty
    BY <1>3, SizeUnchanged DEF PushWrite
  <2>2. Slot(back_) \in 0 .. Capacity - 1
    BY <1>1, SlotRange DEF Word
  <2>3. data' \in [0 .. Capacity - 1 -> Value] /\ data'[Slot(back_)] = pval
    BY <1>3, <2>2 DEF PushWrite
  <2>4. QED BY <1>3, <2>1, <2>3 DEF PushWrite, cvars
<1>4. CASE PushPublish
  <2>1. Size < Capacity
    BY <1>4 DEF PushPublish
  <2>2. back_' \in Word /\ Size' = Size + 1
    BY <1>4, <2>1, SizeAfterPublish DEF PushPublish, Size
  <2>3. Size + 1 # 0 /\ front_' \in Word
    BY <1>1, <1>4 DEF PushPublish
  <2>4. ~Empty'
    <3>1. PICK f \in Word, b \in Word : f = front_' /\ b = back_'
      BY <2>2, <2>3
    <3>2. Wrap(b + (WordSize - f)) = Size + 1
      BY <2>2, <3>1 DEF Size
    <3>3. Wrap(b + (WordSize - f)) = IF f <= b THEN b - f ELSE b + WordSize - f
      BY WordDistance
    <3>4. f # b
      BY <1>1, <2>3, <3>2, <3>3 DEF Word
    <3>5. QED BY <3>1, <3>4 DEF Empty
  <2>5. QED BY <1>1, <1>4, <2>1, <2>2, <2>4 DEF PushPublish, cvars
<1>5. QED BY <1>2, <1>3, <1>4 DEF Producer

(* A consumer step keeps it: what Advance removes was there when its size  *)
(* was computed, and the producer only ever adds.                          *)
LEMMA ConsumerIndInv == IndInv /\ Consumer => IndInv'
<1> SUFFICES ASSUME IndInv, Consumer PROVE IndInv'
  OBVIOUS
<1> USE DEF IndInv, TypeOK, NeverOverfull, ProducerRoom, WrittenSlot, ConsumerData
<1>1. WordSize \in Nat \ {0} /\ Capacity \in Nat \ {0} /\ Size \in Nat
  BY WordAssumption, CapacityAssumption, SizeDistance
<1>2. CASE FrontWait
  BY <1>2, SizeUnchanged DEF FrontWait, pvars
<1>3. CASE FrontRead
  <2>1. data[Slot(front_)] \in Value
    BY <1>1, SlotRange DEF Word
  <2>2. QED BY <1>3, <2>1, SizeUnchanged DEF FrontRead, pvars
<1>4. ASSUME NEW n \in 1 .. MaxPop, PopCall(n) PROVE IndInv'
  BY <1>4, SizeUnchanged, PopAssumption DEF PopCall, pvars
<1>5. CASE PopSize
  <2>1. Size' = Size /\ Empty' = Empty
    BY <1>5, SizeUnchanged DEF PopSize
  <2>2. Size > 0
    BY <1>1, <1>5, SizeDistance DEF PopSize, Empty
  <2>3. step' \in Nat /\ step' <= Size /\ step' <= want /\ step' > 0
    BY <1>1, <1>5, <2>2 DEF PopSize
  <2>4. QED BY <1>1, <1>5, <2>1, <2>3 DEF PopSize, pvars
<1>6. CASE Clear
  <2>1. Size' = Size /\ Empty' = Empty
    BY <1>6, SizeUnchanged DEF Clear
  <2>2. QED BY <1>1, <1>6, <2>1 DEF Clear, pvars
<1>7. CASE Advance
  <2>1. step <= Size /\ step <= want /\ (step = 0 => want = 0)
    BY <1>7 DEF Advance
  <2>2. front_' \in Word /\ Size' = Size - step
    BY <1>7, <2>1, SizeAfterAdvance DEF Advance, Size
  <2>3. Size - step <= Capacity /\ (Size < Capacity => Size - step < Capacity)
    BY <1>1, <2>1
  <2>4. want - step \in Nat /\ (want # step => want - step > 0)
    BY <2>1
  <2>5. QED BY <1>7, <2>2, <2>3, <2>4 DEF Advance, pvars
<1>8. QED BY <1>2, <1>3, <1>4, <1>5, <1>6, <1>7 DEF Consumer

(* The invariant holds throughout every behaviour of the two threads.      *)
THEOREM Invariance == Spec => []IndInv
<1>1. IndInv /\ UNCHANGED vars => IndInv'
  BY SizeUnchanged DEF vars, pvars, cvars, IndInv, TypeOK, NeverOverfull,
     ProducerRoom, WrittenSlot, ConsumerData
<1>2. IndInv /\ [Next]_vars => IndInv'
  BY <1>1, ProducerIndInv, ConsumerIndInv DEF Next
<1>3. QED BY InitIndInv, <1>2, PTL DEF Spec

(* Hence size() never exceeds the capacity.                                *)
THEOREM NeverOverfullAlways == Spec => []NeverOverfull
<1>1. IndInv => NeverOverfull
  BY DEF IndInv
<1>2. QED BY <1>1, Invariance, PTL

(* Hence the thread that writes a slot and the thread that reads one are   *)
(* never at the same slot.                                                 *)
THEOREM NoSlotRaceAlways == Spec => []NoSlotRace
<1>1. ASSUME IndInv PROVE NoSlotRace
  <2>1. front_ \in Word /\ back_ \in Word /\ Size \in Nat
    BY <1>1, SizeDistance, WordAssumption DEF IndInv, TypeOK
  <2>2. ASSUME ppc \in {"write", "publish"} PROVE Slot(back_) \notin LiveSlots
    <3>1. Size < Capacity
      BY <1>1, <2>2 DEF IndInv, ProducerRoom
    <3>2. QED BY <2>1, <3>1, BackSlotFree DEF LiveSlots
  <2>3. ASSUME cpc = "read" PROVE Slot(front_) \in LiveSlots
    <3>1. Size # 0
      BY <1>1, <2>1, <2>3, SizeDistance DEF IndInv, ConsumerData, Empty
    <3>2. 0 \in 0 .. Size - 1
      BY <2>1, <3>1
    <3>3. Wrap(front_ + 0) = front_
      BY <2>1, WrapZero
    <3>4. QED BY <3>2, <3>3 DEF LiveSlots
  <2>4. QED BY <2>2, <2>3 DEF NoSlotRace
<1>2. QED BY <1>1, Invariance, PTL

-----------------------------------------------------------------------------
(* The published slots as a sequence.                                      *)
LEMMA ContentsSeq ==
  ASSUME TypeOK
  PROVE  /\ Contents \in Seq(Value)
         /\ Len(Contents) = Size
         /\ \A i \in 1 .. Size : Contents[i] = data[Slot(Wrap(front_ + (i - 1)))]
<1>1. front_ \in Word /\ Size \in 0 .. WordSize - 1 /\ WordSize \in Nat
  BY SizeDistance, WordAssumption DEF TypeOK
<1>2. ASSUME NEW i \in 1 .. Size
      PROVE  data[Slot(Wrap(front_ + (i - 1)))] \in Value
  <2>1. i - 1 \in 0 .. WordSize - 1
    BY <1>1
  <2>2. \A k \in 0 .. WordSize - 1 : Wrap(front_ + k) \in Nat
    BY <1>1, WrapAdd DEF Word
  <2>3. Wrap(front_ + (i - 1)) \in Nat
    BY <2>1, <2>2
  <2>4. QED BY <2>3, SlotRange DEF TypeOK
<1>3. QED BY <1>1, <1>2 DEF Contents

(* What is queued is a sequence of the published size.                    *)
LEMMA ContentsLength == TypeOK => Contents \in Seq(Value) /\ Len(Contents) = Size
  BY ContentsSeq

(* The empty buffer stands for the empty queue.                            *)
LEMMA InitRefines == Init => Fifo!Init
<1> SUFFICES ASSUME Init PROVE Fifo!Init
  OBVIOUS
<1>1. TypeOK
  BY InitIndInv DEF IndInv
<1>2. Size = 0
  BY <1>1, SizeDistance DEF Init, TypeOK
<1>3. Contents = <<>>
  BY <1>1, <1>2, ContentsSeq
<1>4. QED BY <1>3 DEF Fifo!Init, Init

(* Writing a slot is invisible until it is published.                      *)
LEMMA WriteStutters == IndInv /\ PushWrite => UNCHANGED <<Contents, out>>
<1> SUFFICES ASSUME IndInv, PushWrite PROVE UNCHANGED <<Contents, out>>
  OBVIOUS
<1>1. /\ front_ \in Word /\ back_ \in Word /\ Size < Capacity
      /\ data \in [0 .. Capacity - 1 -> Value] /\ Size \in Nat
  BY SizeDistance, WordAssumption
  DEF IndInv, TypeOK, ProducerRoom, PushWrite
<1>2. /\ Size' = Size /\ front_' = front_ /\ out' = out
      /\ data' = [data EXCEPT ![Slot(back_)] = pval]
  BY SizeUnchanged DEF PushWrite, cvars
<1>3. ASSUME NEW i \in 1 .. Size
      PROVE  data'[Slot(Wrap(front_ + (i - 1)))] = data[Slot(Wrap(front_ + (i - 1)))]
  <2>1. i - 1 \in 0 .. Size - 1
    BY <1>1
  <2>2. Slot(Wrap(front_ + (i - 1))) # Slot(back_)
    BY <1>1, <2>1, BackSlotFree
  <2>3. QED BY <1>1, <1>2, <2>2
<1>4. QED BY <1>2, <1>3 DEF Contents

(* Publishing appends the pending value.                                   *)
LEMMA PublishPushes == IndInv /\ IndInv' /\ PushPublish => Fifo!Push(pval)
<1> SUFFICES ASSUME IndInv, IndInv', PushPublish PROVE Fifo!Push(pval)
  OBVIOUS
<1>1. /\ TypeOK /\ TypeOK' /\ Size < Capacity /\ Size \in Nat
      /\ front_ \in Word /\ back_ \in Word /\ data[Slot(back_)] = pval
      /\ pval \in Value
  BY SizeDistance, WordAssumption
  DEF IndInv, TypeOK, ProducerRoom, WrittenSlot, PushPublish
<1>2. Size' = Size + 1 /\ front_' = front_ /\ data' = data /\ out' = out
  BY <1>1, SizeAfterPublish DEF PushPublish, Size, cvars
<1>3. /\ Contents \in Seq(Value) /\ Len(Contents) = Size
      /\ \A i \in 1 .. Size : Contents[i] = data[Slot(Wrap(front_ + (i - 1)))]
  BY <1>1, ContentsSeq
<1>4. Contents' = [i \in 1 .. Size + 1 |-> data[Slot(Wrap(front_ + (i - 1)))]]
  BY <1>2 DEF Contents
<1>5. Wrap(front_ + ((Size + 1) - 1)) = back_
  <2>1. (Size + 1) - 1 = Size
    BY <1>1
  <2>2. QED BY <1>1, <2>1, SizeDistance
<1>6. /\ Append(Contents, pval) \in Seq(Value)
      /\ Len(Append(Contents, pval)) = Size + 1
      /\ \A i \in 1 .. Size : Append(Contents, pval)[i] = Contents[i]
      /\ Append(Contents, pval)[Size + 1] = pval
  BY <1>1, <1>3, AppendProperties
<1>7. Contents' \in Seq(Value) /\ Len(Contents') = Size + 1
  <2>1. TypeOK' => (Contents \in Seq(Value) /\ Len(Contents) = Size)'
    BY ContentsLength, PTL
  <2>2. QED BY <1>1, <1>2, <2>1
<1>8. Contents' = Append(Contents, pval)
  <2>1. ASSUME NEW i \in 1 .. Size + 1
        PROVE  Contents'[i] = Append(Contents, pval)[i]
    <3>1. CASE i = Size + 1
      BY <1>1, <1>4, <1>5, <1>6, <3>1
    <3>2. CASE i # Size + 1
      <4>1. i \in 1 .. Size
        BY <1>1, <3>2
      <4>2. QED BY <1>3, <1>4, <1>6, <4>1
    <3>3. QED BY <3>1, <3>2
  <2>2. QED BY <1>6, <1>7, <2>1, SeqEqual
<1>9. QED BY <1>1, <1>2, <1>3, <1>8 DEF Fifo!Push

(* Reading through front() returns the oldest published value.             *)
LEMMA ReadFronts == IndInv /\ FrontRead => Fifo!Front
<1> SUFFICES ASSUME IndInv, FrontRead PROVE Fifo!Front
  OBVIOUS
<1>1. TypeOK /\ Size \in Nat /\ Size # 0 /\ front_ \in Word
  BY SizeDistance, WordAssumption
  DEF IndInv, TypeOK, ConsumerData, FrontRead, Empty
<1>2. Wrap(front_ + (1 - 1)) = front_
  <2>1. Wrap(front_ + 0) = front_
    BY <1>1, WrapZero
  <2>2. QED BY <2>1
<1>3. Contents # <<>> /\ Head(Contents) = data[Slot(front_)]
  BY <1>1, <1>2, ContentsSeq
<1>4. UNCHANGED Contents
  BY SizeUnchanged DEF Contents, FrontRead
<1>5. QED BY <1>3, <1>4 DEF Fifo!Front, FrontRead

(* Advancing the front removes the oldest values, and only those whose     *)
(* presence the consumer had established.                                  *)
LEMMA AdvanceDrops == IndInv /\ IndInv' /\ Advance => Fifo!Drop(step)
<1> SUFFICES ASSUME IndInv, IndInv', Advance PROVE Fifo!Drop(step)
  OBVIOUS
<1>1. /\ TypeOK /\ TypeOK' /\ Size \in 0 .. WordSize - 1 /\ WordSize \in Nat
      /\ front_ \in Word /\ back_ \in Word /\ step \in 0 .. Size
      /\ Size \in Nat /\ step \in Nat
  BY SizeDistance, WordAssumption DEF IndInv, TypeOK, ConsumerData, Advance
<1>2. /\ Size' = Size - step /\ data' = data /\ out' = out
      /\ front_' = Wrap(front_ + step) /\ front_' \in Word
  BY <1>1, SizeAfterAdvance DEF Advance, Size
<1>3. /\ Contents \in Seq(Value) /\ Len(Contents) = Size
      /\ \A i \in 1 .. Size : Contents[i] = data[Slot(Wrap(front_ + (i - 1)))]
  BY <1>1, ContentsSeq
<1>4. /\ Contents' \in Seq(Value) /\ Len(Contents') = Size - step
  <2>1. TypeOK' => (Contents \in Seq(Value) /\ Len(Contents) = Size)'
    BY ContentsLength, PTL
  <2>2. QED BY <1>1, <1>2, <2>1
<1>5. Contents' = [i \in 1 .. Size - step |-> data[Slot(Wrap(front_' + (i - 1)))]]
  BY <1>2 DEF Contents
<1>6. /\ SubSeq(Contents, step + 1, Size) \in Seq(Value)
      /\ Len(SubSeq(Contents, step + 1, Size)) = Size - step
      /\ \A i \in 1 .. Size - step :
            SubSeq(Contents, step + 1, Size)[i] = Contents[step + i]
  <2>1. step + 1 \in Int /\ Size \in Int
    BY <1>1
  <2>2. \A i \in step + 1 .. Size : Contents[i] \in Value
    BY <1>1, <1>3, ElementOfSeq
  <2>3. /\ SubSeq(Contents, step + 1, Size) \in Seq(Value)
        /\ Len(SubSeq(Contents, step + 1, Size))
              = IF step + 1 <= Size THEN Size - (step + 1) + 1 ELSE 0
        /\ \A i \in 1 .. Size - (step + 1) + 1 :
             SubSeq(Contents, step + 1, Size)[i] = Contents[step + 1 + i - 1]
    BY <2>1, <2>2, SubSeqProperties
  <2>4. QED BY <1>1, <2>3
<1>7. Contents' = SubSeq(Contents, step + 1, Size)
  <2>1. ASSUME NEW i \in 1 .. Size - step
        PROVE  Contents'[i] = SubSeq(Contents, step + 1, Size)[i]
    <3>1. Wrap(front_' + (i - 1)) = Wrap(front_ + ((step + i) - 1))
      <4>1. PICK k \in 0 .. WordSize - 1 : k = i - 1
        BY <1>1
      <4>2. step + k \in 0 .. WordSize - 1 /\ step \in 0 .. WordSize - 1
        BY <1>1, <4>1
      <4>3. PICK m \in 0 .. WordSize - 1 : m = step + k
        BY <4>2
      <4>4. /\ Wrap(front_ + m) = IF front_ + m < WordSize THEN front_ + m
                                                          ELSE front_ + m - WordSize
            /\ front_' = IF front_ + step < WordSize THEN front_ + step
                                                     ELSE front_ + step - WordSize
            /\ Wrap(front_' + k) = IF front_' + k < WordSize THEN front_' + k
                                                           ELSE front_' + k - WordSize
        BY <1>1, <1>2, <4>2, WrapAdd
      <4>5. Wrap(front_' + k) = Wrap(front_ + m)
        BY <1>1, <1>2, <4>1, <4>3, <4>4 DEF Word
      <4>6. (step + i) - 1 = m
        BY <1>1, <4>1, <4>3
      <4>7. QED BY <4>1, <4>5, <4>6
    <3>2. step + i \in 1 .. Size
      BY <1>1
    <3>3. Contents[step + i] = data[Slot(Wrap(front_ + ((step + i) - 1)))]
      BY <1>3, <3>2
    <3>4. QED BY <1>5, <1>6, <3>1, <3>3
  <2>2. QED BY <1>4, <1>6, <2>1, SeqEqual
<1>8. QED BY <1>1, <1>2, <1>3, <1>7 DEF Fifo!Drop

(* A step that changes neither the indices, nor the slots, nor what the    *)
(* consumer has read is invisible.                                         *)
LEMMA Invisible ==
  UNCHANGED <<front_, back_, data, out>> => UNCHANGED <<Contents, out>>
  BY SizeUnchanged DEF Contents

(* Every step of the two threads is a step of the bounded queue, or        *)
(* invisible to it.                                                        *)
LEMMA StepRefines == IndInv /\ IndInv' /\ [Next]_vars => [Fifo!Next]_(Fifo!vars)
<1> SUFFICES ASSUME IndInv, IndInv', [Next]_vars PROVE [Fifo!Next]_(Fifo!vars)
  OBVIOUS
<1> USE DEF Fifo!vars
<1>1. ASSUME NEW v \in Value, PushWait(v) PROVE UNCHANGED <<Contents, out>>
  BY <1>1, Invisible DEF PushWait, cvars
<1>2. CASE PushWrite
  BY <1>2, WriteStutters
<1>3. CASE PushPublish
  <2>1. pval \in Value
    BY DEF IndInv, TypeOK
  <2>2. QED BY <1>3, <2>1, PublishPushes DEF Fifo!Next
<1>4. CASE FrontWait
  BY <1>4, Invisible DEF FrontWait
<1>5. CASE FrontRead
  BY <1>5, ReadFronts DEF Fifo!Next
<1>6. ASSUME NEW n \in 1 .. MaxPop, PopCall(n) PROVE UNCHANGED <<Contents, out>>
  BY <1>6, Invisible DEF PopCall
<1>7. CASE PopSize
  BY <1>7, Invisible DEF PopSize
<1>8. CASE Clear
  BY <1>8, Invisible DEF Clear
<1>9. CASE Advance
  <2>1. step \in 0 .. Capacity
    BY <1>9, CapacityAssumption, SizeDistance, WordAssumption
    DEF IndInv, TypeOK, ConsumerData, NeverOverfull, Advance
  <2>2. QED BY <1>9, <2>1, AdvanceDrops DEF Fifo!Next
<1>10. CASE UNCHANGED vars
  BY <1>10, Invisible DEF vars, cvars
<1>11. QED
  BY <1>1, <1>2, <1>3, <1>4, <1>5, <1>6, <1>7, <1>8, <1>9, <1>10
  DEF Next, Producer, Consumer

(* ring_buffer is a bounded first-in first-out queue between its two       *)
(* threads, for every capacity and through every wrap of its indices.      *)
THEOREM RingBufferRefinesFifo == Spec => RefinesFifo
<1>1. Spec => Fifo!Init
  BY InitRefines DEF Spec
<1>2. Spec => [][Fifo!Next]_(Fifo!vars)
  BY Invariance, StepRefines, PTL DEF Spec
<1>3. QED BY <1>1, <1>2, PTL DEF RefinesFifo, Fifo!Spec
=============================================================================
