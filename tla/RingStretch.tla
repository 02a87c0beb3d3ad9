----------------------------- MODULE RingStretch -----------------------------
(***************************************************************************)
(* The byte rings between a socket and the application: one thread fills   *)
(* the free slots back_stretch() finds and calls advance_back, the other   *)
(* empties those front_stretch() finds and calls advance_front.            *)
(*                                                                         *)
(* Both functions mention the other thread's index several times, and      *)
(* nothing is atomic.  The debug build, which the Makefile makes unless    *)
(* told otherwise, loads it at each mention and checks the assertions; the *)
(* others are optimised, load it once a call, and define NDEBUG.           *)
(***************************************************************************)
EXTENDS Naturals, Sequences

CONSTANTS Capacity,   \* 1 << size_in_bits
          WordSize,   \* number of values of size_t
          Builds,     \* which of "debug" and "release" there are
          Callers     \* "tcp" takes one stretch at a time; "iou" takes both,
                      \* for readv and writev

ASSUME StretchAssumption ==
  /\ Capacity \in Nat \ {0} /\ WordSize \in Nat
  /\ WordSize > Capacity /\ WordSize % Capacity = 0
ASSUME BuildAssumption ==
  /\ Builds \subseteq {"debug", "release"} /\ Builds # {}
  /\ Callers \subseteq {"tcp", "iou"} /\ Callers # {}

VARIABLES
  build,
  caller,            \* the code that uses the ring
  front_, back_,
  data,              \* each slot holds the stream position of its byte
  ppc, pseen, plen,  \* producer: where it is, front_ as it first loaded it
                     \* in this call, the stretches
  cpc, cseen, clen,  \* consumer: likewise, with back_
  wire,              \* the bytes of the last send
  sent               \* the stream position they should start at

pvars == <<ppc, pseen, plen>>
cvars == <<cpc, cseen, clen, wire, sent>>
vars  == <<caller, build, front_, back_, data, pvars, cvars>>

Word       == 0 .. WordSize - 1
Wrap(x)    == x % WordSize
Minus(a,b) == Wrap(a + (WordSize - b))      \* a - b in size_t
Slot(p)    == p % Capacity                  \* p & Mask

Size  == Minus(back_, front_)
\* An index at a mention of it, when `seen` was loaded before.
Load(seen, index) == IF build = "debug" THEN index ELSE seen

(* The slots of two stretches, in the order they are filled or emptied.    *)
(* The second starts at the beginning of the array.                        *)
Slots(first, len) ==
  [i \in 1 .. len[1] + len[2] |-> IF i <= len[1] THEN first + (i - 1) ELSE i - len[1] - 1]

\* The first n of them; what lies outside the array is not modelled, see
\* StretchInside.
Inside(first, len, n) ==
  /\ n <= len[1] + len[2]
  /\ \A i \in 1 .. n : Slots(first, len)[i] \in DOMAIN data

Init ==
  /\ build \in Builds /\ caller \in Callers
  /\ build = "debug" => caller = "tcp"   \* the second stretch has one load here
  /\ front_ = 0 /\ back_ = 0
  /\ data = [s \in 0 .. Capacity - 1 |-> 0]
  /\ ppc = "idle" /\ pseen = 0 /\ plen = <<0, 0>>
  /\ cpc = "idle" /\ cseen = 0 /\ clen = <<0, 0>>
  /\ wire = <<>> /\ sent = 0

-----------------------------------------------------------------------------
(* Producer: read(), async_write() or readv.                               *)

\* does not test for a full ring
BackFull_unchecked ==
  /\ ppc = "idle"
  /\ pseen' = front_
  /\ ppc' = "side"
  /\ UNCHANGED <<caller, build, front_, back_, data, plen, cvars>>
\* full() of the caller and the first test of back_stretch
BackFull ==
  /\ ppc = "idle" /\ back_ # Wrap(front_ + Capacity)
  /\ pseen' = front_
  /\ ppc' = "side"
  /\ UNCHANGED <<caller, build, front_, back_, data, plen, cvars>>

Found(pc) == IF caller = "iou" THEN "second" ELSE pc

\* The free slots reach the end of the array, or the front.
BackSide ==
  /\ ppc = "side"
  /\ IF Slot(back_) >= Slot(Load(pseen, front_))
     THEN plen' = <<Capacity - Slot(back_), 0>> /\ ppc' = Found("fill")
     ELSE UNCHANGED plen /\ ppc' = IF build = "debug" THEN "assert" ELSE "len"
  /\ UNCHANGED <<caller, build, front_, back_, data, pseen, cvars>>

\* assert(front_ - back_ <= free_size()), masked; it ends the program if it fails
BackAssert ==
  /\ ppc = "assert"
  /\ ppc' = IF Minus(Slot(front_), Slot(back_)) <= Capacity - Minus(back_, front_)
            THEN "len" ELSE "abort"
  /\ UNCHANGED <<caller, build, front_, back_, data, pseen, plen, cvars>>

BackLen ==
  /\ ppc = "len"
  /\ plen' = <<Minus(Slot(Load(pseen, front_)), Slot(back_)), 0>>
  /\ ppc' = Found("fill")
  /\ UNCHANGED <<caller, build, front_, back_, data, pseen, cvars>>

\* back_stretch_2, a call of its own
BackSecond ==
  /\ ppc = "second"
  /\ pseen' = front_
  /\ plen' = [plen EXCEPT ![2] =
       IF back_ # Wrap(front_ + Capacity) /\ Slot(back_) >= Slot(front_)
       THEN Slot(front_) ELSE 0]
  /\ ppc' = "fill"
  /\ UNCHANGED <<caller, build, front_, back_, data, cvars>>

\* The socket or the caller has n bytes, and they are copied.
Fill(n) ==
  /\ ppc = "fill" /\ Inside(Slot(back_), plen, n)
  /\ data' = [s \in DOMAIN data |->
       IF \E i \in 1 .. n : Slots(Slot(back_), plen)[i] = s
       THEN Wrap(back_ + (CHOOSE i \in 1 .. n : Slots(Slot(back_), plen)[i] = s) - 1)
       ELSE data[s]]
  /\ plen' = <<n, 0>>
  /\ ppc' = "advance"
  /\ UNCHANGED <<caller, build, front_, back_, pseen, cvars>>

\* There are no bytes, or the stretch turned out to be empty.
FillNothing ==
  /\ ppc = "fill"
  /\ plen' = <<0, 0>> /\ ppc' = "idle"
  /\ UNCHANGED <<caller, build, front_, back_, data, pseen, cvars>>

AdvanceBack ==
  /\ ppc = "advance"
  /\ back_' = Wrap(back_ + plen[1])
  /\ plen' = <<0, 0>> /\ ppc' = "idle"
  /\ UNCHANGED <<caller, build, front_, data, pseen, cvars>>

-----------------------------------------------------------------------------
(* Consumer: write() or writev.                                            *)

\* tests the masked indices, which are equal when the ring is full as well
FrontEmpty_masked ==
  /\ cpc = "idle" /\ Slot(back_) # Slot(front_)
  /\ cseen' = back_
  /\ cpc' = "side"
  /\ UNCHANGED <<caller, build, front_, back_, data, pvars, clen, wire, sent>>
FrontEmpty ==
  /\ cpc = "idle" /\ back_ # front_
  /\ cseen' = back_
  /\ cpc' = "side"
  /\ UNCHANGED <<caller, build, front_, back_, data, pvars, clen, wire, sent>>

\* takes a full ring for one that does not wrap
FrontSide_full ==
  /\ cpc = "side"
  /\ IF Slot(Load(cseen, back_)) >= Slot(front_)
     THEN UNCHANGED clen /\ cpc' = "len"
     ELSE clen' = <<Capacity - Slot(front_), 0>> /\ cpc' = Found("send")
  /\ UNCHANGED <<caller, build, front_, back_, data, pvars, cseen, wire, sent>>
\* The bytes reach the back, or the end of the array.
FrontSide ==
  /\ cpc = "side"
  /\ IF Slot(Load(cseen, back_)) > Slot(front_)
     THEN UNCHANGED clen /\ cpc' = "len"
     ELSE clen' = <<Capacity - Slot(front_), 0>> /\ cpc' = Found("send")
  /\ UNCHANGED <<caller, build, front_, back_, data, pvars, cseen, wire, sent>>

FrontLen ==
  /\ cpc = "len"
  /\ clen' = <<Minus(Load(cseen, back_), front_), 0>>
  /\ cpc' = Found("send")
  /\ UNCHANGED <<caller, build, front_, back_, data, pvars, cseen, wire, sent>>

\* front_stretch_2, a call of its own
FrontSecond ==
  /\ cpc = "second"
  /\ cseen' = back_
  /\ clen' = [clen EXCEPT ![2] =
       IF back_ # front_ /\ Slot(back_) <= Slot(front_) THEN Slot(back_) ELSE 0]
  /\ cpc' = "send"
  /\ UNCHANGED <<caller, build, front_, back_, data, pvars, wire, sent>>

\* The socket takes n bytes.
Send(n) ==
  /\ cpc = "send" /\ Inside(Slot(front_), clen, n)
  /\ wire' = [i \in 1 .. n |-> data[Slots(Slot(front_), clen)[i]]]
  /\ sent' = front_
  /\ clen' = <<n, 0>>
  /\ cpc' = "advance"
  /\ UNCHANGED <<caller, build, front_, back_, data, pvars, cseen>>

\* EAGAIN
SendNothing ==
  /\ cpc = "send"
  /\ clen' = <<0, 0>> /\ cpc' = "idle"
  /\ UNCHANGED <<caller, build, front_, back_, data, pvars, cseen, wire, sent>>

\* releases one slot more than was sent
AdvanceFront_offByOne ==
  /\ cpc = "advance"
  /\ front_' = Wrap(front_ + clen[1] + 1)
  /\ clen' = <<0, 0>> /\ cpc' = "idle"
  /\ UNCHANGED <<caller, build, back_, data, pvars, cseen, wire, sent>>
AdvanceFront ==
  /\ cpc = "advance"
  /\ front_' = Wrap(front_ + clen[1])
  /\ clen' = <<0, 0>> /\ cpc' = "idle"
  /\ UNCHANGED <<caller, build, back_, data, pvars, cseen, wire, sent>>

-----------------------------------------------------------------------------
Producer ==
  \/ BackFull \/ BackSide \/ BackAssert \/ BackLen \/ BackSecond
  \/ \E n \in 1 .. Capacity : Fill(n)
  \/ FillNothing \/ AdvanceBack
Sends == ppc # "abort" /\ \E n \in 1 .. Capacity : Send(n)
Consumer ==
  /\ ppc # "abort"
  /\ FrontEmpty \/ FrontSide \/ FrontLen \/ FrontSecond \/ Sends \/ SendNothing \/ AdvanceFront
Next == Producer \/ Consumer

Spec == Init /\ [][Next]_vars

(* The consumer's thread keeps polling, and its socket does not refuse     *)
(* bytes forever: the peer reads.  Nothing is asked of the producer.       *)
FairSpec == Spec /\ WF_vars(Consumer) /\ SF_vars(Sends)

-----------------------------------------------------------------------------
(* Type invariant.                                                         *)
TypeOK ==
  /\ build \in Builds /\ caller \in Callers
  /\ front_ \in Word /\ back_ \in Word
  /\ data \in [0 .. Capacity - 1 -> Word]
  /\ ppc \in {"idle", "side", "assert", "len", "second", "fill", "advance", "abort"}
  /\ cpc \in {"idle", "side", "len", "second", "send", "advance"}
  /\ pseen \in Word /\ cseen \in Word
  /\ plen \in Word \X Word /\ clen \in Word \X Word
  /\ wire \in Seq(Word) /\ sent \in Word

(* In the optimised builds every stretch handed to read(), send() or       *)
(* memcpy stays inside the array, however old the copy of the other index. *)
(* In the debug build one leaves it, or the assertion that should prevent  *)
(* that fails and ends the program, but only if the other thread has       *)
(* passed the end of the array since the call began.                       *)
Lap(p) == p \div Capacity
StretchInside ==
  /\ TypeOK
  /\ ppc = "abort" \/ (ppc = "fill" /\ Slot(back_) + plen[1] > Capacity)
       => build = "debug" /\ Lap(front_) # Lap(pseen)
  /\ cpc = "send" /\ Slot(front_) + clen[1] > Capacity
       => build = "debug" /\ Lap(back_) # Lap(cseen)

(* What the producer is about to fill and what the consumer is about to    *)
(* send never share a slot, though each stretch was computed from an index *)
(* the other thread may have moved since.                                  *)
StretchesApart ==
  (ppc = "fill" /\ cpc = "send") =>
    \A i \in DOMAIN Slots(Slot(back_), plen), j \in DOMAIN Slots(Slot(front_), clen) :
      Slots(Slot(back_), plen)[i] # Slots(Slot(front_), clen)[j]

(* The peer receives the bytes in the order they were written, none twice  *)
(* and none skipped, when each send takes one stretch: test_io.cpp         *)
(* compares them.  The two stretches of one writev need not be Sequential: *)
(* the producer may wrap between the two calls that compute them.          *)
Sequential == \A i \in 1 .. Len(wire) : wire[i] = Wrap(sent + (i - 1))
StreamInOrder == caller = "tcp" => Sequential

(* A full ring is emptied: the stretches of a full ring are not mistaken   *)
(* for those of an empty one.                                              *)
Drains == (Size = Capacity) ~> (Size < Capacity)
=============================================================================
