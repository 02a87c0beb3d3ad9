----------------------------- MODULE RingBuffer -----------------------------
(***************************************************************************)
(* utttil::ring_buffer shared by one producer and one consumer thread, at  *)
(* the granularity of its loads and stores.  front_ and back_ run freely   *)
(* through a size_t and are masked on every access; nothing else           *)
(* synchronises the threads.                                               *)
(*                                                                         *)
(* A step reads the other thread's index at most once, and the stores of a *)
(* thread become visible in program order (the default debug build, and    *)
(* the order x86 gives to stores the compiler emits in order).             *)
(***************************************************************************)
EXTENDS Naturals, Sequences

CONSTANTS Capacity,   \* 1 << size_in_bits
          WordSize,   \* number of values of size_t
          Value,      \* what the slots hold
          MaxPop      \* bound on the argument of pop_front(n)

ASSUME CapacityAssumption == Capacity \in Nat \ {0}
ASSUME WordAssumption ==
  /\ WordSize \in Nat
  /\ WordSize > Capacity
  /\ WordSize % Capacity = 0
ASSUME ValueAssumption == Value # {}
ASSUME PopAssumption == MaxPop \in Nat \ {0}

VARIABLES
  front_, back_,   \* the free-running indices
  data,            \* the slots
  ppc, pval,       \* producer: where it is in push_back, and its argument
  cpc, want, step, \* consumer: where it is, what pop_front(n) still has to
                   \* remove, and the size it last computed
  out              \* the value the consumer last read through front()

pvars == <<ppc, pval>>
cvars == <<cpc, want, step, out>>
vars  == <<front_, back_, data, pvars, cvars>>

-----------------------------------------------------------------------------
Word    == 0 .. WordSize - 1
Wrap(x) == x % WordSize
Slot(p) == p % Capacity                             \* p & Mask

Size  == Wrap(back_ + (WordSize - front_))          \* back_ - front_ in size_t
Empty == front_ = back_
\* compares without the wrap of size_t
Full_unwrapped == back_ = front_ + Capacity
Full  == Size = Capacity

Init ==
  /\ front_ = 0 /\ back_ = 0
  /\ data \in [0 .. Capacity - 1 -> Value]
  /\ ppc = "idle" /\ pval \in Value
  /\ cpc = "idle" /\ want = 0 /\ step = 0 /\ out \in Value

-----------------------------------------------------------------------------
(* Producer: push_back(const T&), push_back(T&&), emplace_back, and the    *)
(* pair back() / advance_back() all wait for room, write the slot, and     *)
(* then publish it.                                                        *)

\* does not wait for room
PushWait_unchecked(v) ==
  /\ ppc = "idle"
  /\ ppc' = "write" /\ pval' = v
  /\ UNCHANGED <<front_, back_, data, cvars>>
PushWait(v) ==
  /\ ppc = "idle" /\ ~Full
  /\ ppc' = "write" /\ pval' = v
  /\ UNCHANGED <<front_, back_, data, cvars>>

PushWrite ==
  /\ ppc = "write"
  /\ data' = [data EXCEPT ![Slot(back_)] = pval]
  /\ ppc' = "publish"
  /\ UNCHANGED <<front_, back_, pval, cvars>>

PushPublish ==
  /\ ppc = "publish"
  /\ back_' = Wrap(back_ + 1)
  /\ ppc' = "idle"
  /\ UNCHANGED <<front_, data, pval, cvars>>

-----------------------------------------------------------------------------
(* Consumer: front() waits for a value and returns a reference the caller  *)
(* then reads.                                                             *)

\* does not wait for a value
FrontWait_unchecked ==
  /\ cpc = "idle"
  /\ cpc' = "read"
  /\ UNCHANGED <<front_, back_, data, pvars, want, step, out>>
FrontWait ==
  /\ cpc = "idle" /\ ~Empty
  /\ cpc' = "read"
  /\ UNCHANGED <<front_, back_, data, pvars, want, step, out>>

FrontRead ==
  /\ cpc = "read"
  /\ out' = data[Slot(front_)]
  /\ cpc' = "idle"
  /\ UNCHANGED <<front_, back_, data, pvars, want, step>>

(* pop_front(n) removes what is there, and waits for the rest.             *)
PopCall(n) ==
  /\ cpc = "idle"
  /\ cpc' = "pop" /\ want' = n
  /\ UNCHANGED <<front_, back_, data, pvars, step, out>>

\* waits until everything it wants is there
PopSize_all ==
  /\ cpc = "pop" /\ Size >= want
  /\ step' = want
  /\ cpc' = "advance"
  /\ UNCHANGED <<front_, back_, data, pvars, want, out>>
PopSize ==
  /\ cpc = "pop" /\ ~Empty
  /\ step' = IF Size < want THEN Size ELSE want
  /\ cpc' = "advance"
  /\ UNCHANGED <<front_, back_, data, pvars, want, out>>

(* clear() reads back_ once and stores it into front_: it advances over    *)
(* exactly what it saw.                                                    *)
Clear ==
  /\ cpc = "idle"
  /\ step' = Size /\ want' = Size
  /\ cpc' = "advance"
  /\ UNCHANGED <<front_, back_, data, pvars, out>>

Advance ==
  /\ cpc = "advance"
  /\ front_' = Wrap(front_ + step)
  /\ want' = want - step
  /\ step' = 0
  /\ cpc' = IF want = step THEN "idle" ELSE "pop"
  /\ UNCHANGED <<back_, data, pvars, out>>

-----------------------------------------------------------------------------
Producer == (\E v \in Value : PushWait(v)) \/ PushWrite \/ PushPublish
Consumer ==
  \/ FrontWait \/ FrontRead
  \/ \E n \in 1 .. MaxPop : PopCall(n)
  \/ PopSize \/ Clear \/ Advance

Next == Producer \/ Consumer

Spec == Init /\ [][Next]_vars

(* Threads are scheduled by the operating system and the producer of the   *)
(* fuzz test keeps pushing, so each thread takes the step it is at.        *)
FairSpec == Spec /\ WF_vars(Producer) /\ WF_vars(PopSize) /\ WF_vars(Advance)

-----------------------------------------------------------------------------
(* Type invariant.                                                         *)
TypeOK ==
  /\ front_ \in Word /\ back_ \in Word
  /\ data \in [0 .. Capacity - 1 -> Value]
  /\ ppc \in {"idle", "write", "publish"} /\ pval \in Value
  /\ cpc \in {"idle", "read", "pop", "advance"}
  /\ want \in Nat /\ step \in Nat
  /\ out \in Value

(* size() never exceeds the capacity, whatever wraps: a thread that works  *)
(* from a stale view of the other index errs on the safe side.             *)
NeverOverfull == Size <= Capacity

(* The slot the producer is writing is not one of those the consumer may   *)
(* be reading: the two threads never touch a slot at the same time,        *)
(* although no lock protects it.                                           *)
LiveSlots == {Slot(Wrap(front_ + i)) : i \in 0 .. Size - 1}
NoSlotRace ==
  /\ ppc \in {"write", "publish"} => Slot(back_) \notin LiveSlots
  /\ cpc = "read" => Slot(front_) \in LiveSlots

(* The abstract queue: the published slots, oldest first.                  *)
Contents == [i \in 1 .. Size |-> data[Slot(Wrap(front_ + (i - 1)))]]

Fifo == INSTANCE BoundedFifo WITH Bound <- Capacity, queue <- Contents, seen <- out
(* The buffer behaves as a bounded queue: test_ring_buffer.cpp's fuzz test *)
(* asserts this order for one schedule at a time.                          *)
RefinesFifo == Fifo!Spec

(* pop_front(n) returns, even for n beyond the capacity, as long as the    *)
(* producer keeps pushing.                                                 *)
PopTerminates == (cpc = "pop") ~> (cpc = "idle")

-----------------------------------------------------------------------------
(* The inductive invariant.                                                *)
ProducerRoom == ppc \in {"write", "publish"} => Size < Capacity
WrittenSlot  == ppc = "publish" => data[Slot(back_)] = pval
ConsumerData ==
  /\ cpc = "read" => ~Empty
  /\ cpc = "pop" => want > 0
  /\ cpc = "advance" => step <= Size /\ step <= want
  /\ cpc = "advance" /\ step = 0 => want = 0

IndInv ==
  /\ TypeOK
  /\ NeverOverfull
  /\ ProducerRoom
  /\ WrittenSlot
  /\ ConsumerData
=============================================================================
