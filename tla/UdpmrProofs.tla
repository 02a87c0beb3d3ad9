----------------------------- MODULE UdpmrProofs -----------------------------
(***************************************************************************)
(* The safety of the reliable multicast protocol, for every capacity, any  *)
(* number of messages and whatever the network does to the datagrams.      *)
(***************************************************************************)
EXTENDS Udpmr, Integers, SequenceTheorems, TLAPS

-----------------------------------------------------------------------------
(* Sequences of consecutive numbers: one is extended by the next number,   *)
(* or by one that continues it.                                            *)
LEMMA RunSeq ==
  ASSUME NEW a \in Nat, NEW n \in Nat
  PROVE  Run(a, n) \in Seq(Nat) /\ Len(Run(a, n)) = n
  BY DEF Run

LEMMA RunAppend ==
  ASSUME NEW n \in Nat
  PROVE  Append(Run(0, n), n) = Run(0, n + 1)
  BY DEF Run

LEMMA RunConcat ==
  ASSUME NEW n \in Nat, NEW k \in Nat
  PROVE  Run(0, n) \o Run(n, k) = Run(0, n + k)
  BY DEF Run

-----------------------------------------------------------------------------
(* The tuples of variables are abbreviations throughout.                   *)
USE DEF history, mcast, serverRead, requests, responses, clientRead, inbox, server, vars

(* The invariant by the parts of the system.                               *)
ServerType ==
  /\ front \in Nat /\ back \in Nat /\ sentIt \in Nat /\ mcFront \in Nat
  /\ sendBuf \in SUBSET Frame /\ net \in SUBSET Frame
  /\ wpc \in {"pack", "copy", "out"} /\ spc \in {"poll", "handle", "replay", "trim"}
  /\ cursor \in [next : Nat, end : Nat]
PipeType ==
  /\ req \in Seq(Request) /\ reqSent \in Nat /\ reqHere \in Nat
  /\ resp \in Seq(Response) /\ respSent \in Nat /\ respHere \in Nat
ClientType ==
  /\ cpc \in {"read", "request", "unpack", "responses", "frames", "gone"}
  /\ pending \in SUBSET Frame /\ buffers \in Seq(Frame) /\ it \in Nat \ {0}
  /\ nextExpected \in Nat /\ nextOrdered \in Nat
FlagType  == link \in {"none", "open", "dropped"} /\ good \in BOOLEAN /\ erase \in BOOLEAN
InboxType == delivered \in Seq(Nat) /\ taken \in 0 .. Len(delivered)

LEMMA InvParts ==
  IndInv <=> /\ ServerType /\ PipeType /\ ClientType /\ FlagType /\ InboxType
             /\ Indices /\ Marks /\ Datagrams /\ InProgress
             /\ FramesSorted /\ RequestsSorted /\ ResponsesKnown /\ InOrder /\ Paths
  BY DEF IndInv, BaseInv, TypeOK, ServerType, PipeType, ClientType, FlagType, InboxType
LEMMA InvNext ==
  ASSUME ServerType', PipeType', ClientType', FlagType', InboxType',
         Indices', Marks', Datagrams', InProgress',
         FramesSorted', RequestsSorted', ResponsesKnown', InOrder', Paths'
  PROVE  IndInv'
  BY DEF IndInv, BaseInv, TypeOK, ServerType, PipeType, ClientType, FlagType, InboxType

(* The initial state satisfies the invariant: nothing is on its way.       *)
LEMMA InitInv == Init => IndInv
<1> SUFFICES ASSUME Init PROVE IndInv
  OBVIOUS
<1>1. ServerType /\ PipeType
  BY BaseAssumption DEF Init, ServerType, PipeType
<1>2. ClientType /\ InboxType
  BY DEF Init, ClientType, InboxType
<1>3. FlagType
  BY DEF Init, FlagType
<1>4. Indices /\ Marks /\ Datagrams /\ InProgress
  BY BaseAssumption, SizeAssumption DEF Init, Handed, Indices, Marks, Datagrams, InProgress
<1>5. FramesSorted /\ RequestsSorted /\ ResponsesKnown
  BY DEF Init, FramesSorted, RequestsSorted, ResponsesKnown
<1>6. InOrder
  BY DEF Init, InOrder, Run
<1>7. Paths
  BY DEF Init, Paths, PipeSorted, FramesApart, Covered, Interval, Queued
<1> QED  BY <1>1, <1>2, <1>3, <1>4, <1>5, <1>6, <1>7, InvParts

(* What depends only on the datagrams held, on the requests, the responses *)
(* and the replay in progress is kept by the steps that change none.       *)
LEMMA Kept ==
  ASSUME IndInv, UNCHANGED <<req, resp, cursor, buffers, nextExpected, nextOrdered, delivered>>,
         spc = "replay" <=> spc' = "replay"
  PROVE  FramesSorted' /\ RequestsSorted' /\ ResponsesKnown' /\ InOrder' /\ Paths'
<1> USE InvParts
<1>1. FramesSorted'
  BY DEF FramesSorted
<1>2. RequestsSorted'
  BY DEF RequestsSorted
<1>3. ResponsesKnown'
  BY DEF ResponsesKnown
<1>4. InOrder'
  BY DEF InOrder
<1>5. Queued' = Queued
  BY DEF Queued
<1>6. Paths'
  <2>1. Refused' = Refused
    BY DEF Refused
  <2>2. PipeSorted => PipeSorted'
    BY <1>5 DEF PipeSorted
  <2>3. FramesApart => FramesApart'
    BY <1>5 DEF FramesApart
  <2>4. Covered => Covered'
    BY <1>5 DEF Covered, OnItsWay
  <2> QED  BY <2>1, <2>2, <2>3, <2>4 DEF Paths
<1> QED  BY <1>1, <1>2, <1>3, <1>4, <1>6

-----------------------------------------------------------------------------
(* Steps of the server that neither start nor serve a replay.              *)
LEMMA AsyncSendInv == ASSUME IndInv, AsyncSend PROVE IndInv'
<1> USE InvParts DEF AsyncSend
<1>1. ServerType'
  BY DEF ServerType
<1>2. Indices'
  BY SizeAssumption DEF Indices, ServerType, Handed
<1>3. InProgress'
  BY DEF InProgress, ServerType
<1>4. PipeType' /\ ClientType' /\ FlagType' /\ InboxType'
  BY DEF PipeType, ClientType, FlagType, InboxType
<1>5. Marks' /\ Datagrams'
  BY DEF Marks, Datagrams
<1> QED  BY <1>1, <1>2, <1>3, <1>4, <1>5, Kept, InvNext

LEMMA HandOverInv == ASSUME IndInv, HandOver \/ Copy PROVE IndInv'
<1> USE InvParts DEF HandOver, Copy
<1>1. ServerType'
  BY DEF ServerType
<1>2. Indices'
  BY SizeAssumption DEF Indices, ServerType, Handed, More
<1>3. PipeType' /\ ClientType' /\ FlagType' /\ InboxType'
  BY DEF PipeType, ClientType, FlagType, InboxType
<1>4. Marks' /\ Datagrams' /\ InProgress'
  BY DEF Marks, Datagrams, InProgress
<1> QED  BY <1>1, <1>2, <1>3, <1>4, Kept, InvNext

LEMMA PackInv == ASSUME IndInv, NEW n \in 1 .. FrameMax, Pack(n) PROVE IndInv'
<1> USE InvParts DEF Pack
<1>1. /\ {mcFront, sentIt, back} \subseteq Nat /\ n \in Nat \ {0}
      /\ wpc' = wpc /\ Handed' = Handed /\ n <= Handed - mcFront /\ Handed \in Int
      /\ sendBuf' = {[first |-> mcFront, last |-> mcFront + n - 1]} /\ mcFront' = mcFront + n
  BY SizeAssumption DEF ServerType, Handed
<1>2. Indices'
  BY <1>1, SizeAssumption DEF Indices, ServerType
<1>3. ServerType'
  BY <1>1 DEF ServerType, Frame
<1>4. Datagrams'
  <2>1. mcFront <= mcFront' /\ mcFront' \in Nat
    BY <1>1
  <2>2. ASSUME NEW f \in sendBuf'
        PROVE  f.first <= f.last /\ f.last < mcFront'
    BY <1>1
  <2>3. ASSUME NEW f \in net \cup pending
        PROVE  f.first <= f.last /\ f.last < mcFront'
    <3>1. f.last \in Nat /\ f.first <= f.last /\ f.last < mcFront
      BY InvParts DEF Datagrams, ServerType, ClientType, Frame
    <3> QED  BY <1>1, <2>1, <3>1
  <2>4. nextExpected <= mcFront'
    BY <1>1, <2>1, InvParts DEF Datagrams, ClientType
  <2> QED  BY <2>2, <2>3, <2>4 DEF Datagrams
<1>5. PipeType' /\ ClientType' /\ FlagType' /\ InboxType'
  BY DEF PipeType, ClientType, FlagType, InboxType
<1>6. Marks' /\ InProgress'
  BY DEF Marks, InProgress
<1> QED  BY <1>2, <1>3, <1>4, <1>5, <1>6, Kept, InvNext

LEMMA MulticastInv == ASSUME IndInv, Multicast \/ MulticastFails PROVE IndInv'
<1> USE InvParts DEF Multicast, MulticastFails
<1>1. ServerType'
  BY DEF ServerType
<1>2. Datagrams'
  BY DEF Datagrams
<1>3. PipeType' /\ ClientType' /\ FlagType' /\ InboxType'
  BY DEF PipeType, ClientType, FlagType, InboxType
<1>4. Indices' /\ Marks' /\ InProgress'
  BY DEF Indices, Marks, InProgress, Handed, ServerType
<1> QED  BY <1>1, <1>2, <1>3, <1>4, Kept, InvNext

LEMMA WriteResponseInv == ASSUME IndInv, WriteResponse PROVE IndInv'
<1> USE InvParts DEF WriteResponse
<1>1. PipeType'
  BY DEF PipeType
<1>2. Marks'
  <2>1. Len(req) \in Nat /\ Len(resp) \in Nat /\ TcpCap \in Nat /\ WireCap \in Nat
    BY SizeAssumption DEF PipeType
  <2> QED  BY <2>1 DEF Marks, PipeType
<1>3. ServerType' /\ ClientType' /\ FlagType' /\ InboxType'
  BY DEF ServerType, ClientType, FlagType, InboxType
<1>4. Indices' /\ Datagrams' /\ InProgress'
  BY DEF Indices, Datagrams, InProgress, Handed
<1> QED  BY <1>1, <1>2, <1>3, <1>4, Kept, InvNext

LEMMA LinkInv == ASSUME IndInv, Accept \/ DropClient PROVE IndInv'
<1> USE InvParts DEF Accept, DropClient
<1>1. FlagType'
  BY DEF FlagType
<1>2. ServerType' /\ PipeType' /\ ClientType' /\ InboxType'
  BY DEF ServerType, PipeType, ClientType, InboxType
<1>3. Indices' /\ Marks' /\ Datagrams' /\ InProgress'
  BY DEF Indices, Marks, Datagrams, InProgress, Handed
<1> QED  BY <1>1, <1>2, <1>3, Kept, InvNext

LEMMA TrimInv == ASSUME IndInv, Trim PROVE IndInv'
<1> USE InvParts DEF Trim
<1>1. ServerType'
  BY SizeAssumption DEF ServerType
<1>2. Indices'
  BY SizeAssumption DEF Indices, ServerType, Handed
<1>3. Marks' /\ InProgress'
  BY DEF Marks, InProgress
<1>4. PipeType' /\ ClientType' /\ FlagType' /\ InboxType'
  BY DEF PipeType, ClientType, FlagType, InboxType
<1>5. Datagrams'
  BY DEF Datagrams
<1> QED  BY <1>1, <1>2, <1>3, <1>4, <1>5, Kept, InvNext

(* Steps of the client that neither keep nor deliver a message.            *)
LEMMA WriteRequestInv == ASSUME IndInv, WriteRequest PROVE IndInv'
<1> USE InvParts DEF WriteRequest
<1>1. PipeType'
  BY DEF PipeType
<1>2. Marks'
  <2>1. Len(req) \in Nat /\ Len(resp) \in Nat /\ TcpCap \in Nat /\ WireCap \in Nat
    BY SizeAssumption DEF PipeType
  <2> QED  BY <2>1 DEF Marks, PipeType
<1>3. ServerType' /\ ClientType' /\ FlagType' /\ InboxType'
  BY DEF ServerType, ClientType, FlagType, InboxType
<1>4. Indices' /\ Datagrams' /\ InProgress'
  BY DEF Indices, Datagrams, InProgress, Handed
<1> QED  BY <1>1, <1>2, <1>3, <1>4, Kept, InvNext

LEMMA ReadFailsInv == ASSUME IndInv, ReadFails PROVE IndInv'
<1> USE InvParts DEF ReadFails
<1>1. ClientType'
  BY DEF ClientType
<1>2. FlagType'
  BY DEF FlagType
<1>3. Datagrams'
  BY DEF Datagrams
<1>4. ServerType' /\ PipeType' /\ InboxType'
  BY DEF ServerType, PipeType, InboxType
<1>5. Indices' /\ Marks' /\ InProgress'
  BY DEF Indices, Marks, InProgress, Handed
<1> QED  BY <1>1, <1>2, <1>3, <1>4, <1>5, Kept, InvNext

LEMMA GiveUpInv == ASSUME IndInv, GiveUp PROVE IndInv'
<1> USE InvParts DEF GiveUp
<1>1. ClientType'
  BY DEF ClientType
<1>2. FlagType'
  BY DEF FlagType
<1>3. Datagrams'
  BY DEF Datagrams
<1>4. ServerType' /\ PipeType' /\ InboxType'
  BY DEF ServerType, PipeType, InboxType
<1>5. Indices' /\ Marks' /\ InProgress'
  BY DEF Indices, Marks, InProgress, Handed
<1> QED  BY <1>1, <1>2, <1>3, <1>4, <1>5, Kept, InvNext

LEMMA ReadNothingInv == ASSUME IndInv, ReadNothing PROVE IndInv'
<1> USE InvParts DEF ReadNothing
<1>1. ClientType'
  BY DEF ClientType
<1>2. Datagrams'
  BY DEF Datagrams
<1>3. ServerType' /\ PipeType' /\ FlagType' /\ InboxType'
  BY DEF ServerType, PipeType, FlagType, InboxType
<1>4. Indices' /\ Marks' /\ InProgress'
  BY DEF Indices, Marks, InProgress, Handed
<1> QED  BY <1>1, <1>2, <1>3, <1>4, Kept, InvNext

LEMMA EndResponsesInv == ASSUME IndInv, EndResponses PROVE IndInv'
<1> USE InvParts DEF EndResponses
<1>1. ClientType'
  BY DEF ClientType
<1>2. Datagrams'
  BY DEF Datagrams
<1>3. ServerType' /\ PipeType' /\ FlagType' /\ InboxType'
  BY DEF ServerType, PipeType, FlagType, InboxType
<1>4. Indices' /\ Marks' /\ InProgress'
  BY DEF Indices, Marks, InProgress, Handed
<1> QED  BY <1>1, <1>2, <1>3, <1>4, Kept, InvNext

LEMMA EndDropInv == ASSUME IndInv, EndDrop PROVE IndInv'
<1> USE InvParts DEF EndDrop, Walked, Ended
<1>1. ClientType'
  BY DEF ClientType
<1>2. Datagrams'
  BY DEF Datagrams
<1>3. ServerType' /\ PipeType' /\ FlagType' /\ InboxType'
  BY DEF ServerType, PipeType, FlagType, InboxType
<1>4. Indices' /\ Marks' /\ InProgress'
  BY DEF Indices, Marks, InProgress, Handed
<1> QED  BY <1>1, <1>2, <1>3, <1>4, Kept, InvNext

LEMMA TakeInv == ASSUME IndInv, Take PROVE IndInv'
<1> USE InvParts DEF Take
<1>1. InboxType'
  BY DEF InboxType
<1>2. ServerType' /\ PipeType' /\ ClientType' /\ FlagType'
  BY DEF ServerType, PipeType, ClientType, FlagType
<1>3. Indices' /\ Marks' /\ Datagrams' /\ InProgress'
  BY DEF Indices, Marks, Datagrams, InProgress, Handed
<1> QED  BY <1>1, <1>2, <1>3, Kept, InvNext

(* Steps that take what has arrived, or meet a gap.                        *)
LEMMA PollInv == ASSUME IndInv, NEW k \in 0 .. WireCap, Poll(k) PROVE IndInv'
<1> USE InvParts DEF Poll
<1>1. ServerType'
  BY DEF ServerType
<1>2. /\ k \in Nat /\ k <= reqSent - reqHere /\ k <= TcpCap - reqHere
      /\ {TcpCap, reqSent, reqHere} \subseteq Nat
  BY SizeAssumption DEF Smaller, PipeType
<1>3. PipeType'
  BY <1>2 DEF PipeType
<1>4. Marks'
  <2>1. Len(req) \in Nat /\ Len(resp) \in Nat
    BY DEF PipeType
  <2> QED  BY <1>2, <2>1 DEF Marks, PipeType
<1>5. ClientType' /\ FlagType' /\ InboxType'
  BY DEF ClientType, FlagType, InboxType
<1>6. Indices' /\ Datagrams' /\ InProgress'
  BY DEF Indices, Datagrams, InProgress, Handed
<1> QED  BY <1>1, <1>3, <1>4, <1>5, <1>6, Kept, InvNext

LEMMA UnpackInv == ASSUME IndInv, NEW k \in 0 .. WireCap, Unpack(k) PROVE IndInv'
<1> USE InvParts DEF Unpack, Ended
<1>1. ClientType'
  BY DEF ClientType
<1>2. /\ k \in Nat /\ k <= respSent - respHere /\ k <= TcpCap - respHere
      /\ {TcpCap, respSent, respHere} \subseteq Nat
  BY SizeAssumption DEF Smaller, PipeType
<1>3. PipeType'
  BY <1>2 DEF PipeType
<1>4. Marks'
  <2>1. Len(req) \in Nat /\ Len(resp) \in Nat
    BY DEF PipeType
  <2> QED  BY <1>2, <2>1 DEF Marks, PipeType
<1>5. ServerType' /\ FlagType' /\ InboxType'
  BY DEF ServerType, FlagType, InboxType
<1>6. Indices' /\ Datagrams' /\ InProgress'
  BY DEF Indices, Datagrams, InProgress, Handed
<1> QED  BY <1>1, <1>3, <1>4, <1>5, <1>6, Kept, InvNext

LEMMA ReadGapInv == ASSUME IndInv, NEW f \in net, ReadGap(f) PROVE IndInv'
<1> USE InvParts DEF ReadGap
<1>1. f \in Frame
  BY DEF ServerType
<1>2. ClientType'
  BY <1>1 DEF ClientType
<1>3. Datagrams'
  BY <1>1 DEF Datagrams, Frame, ClientType
<1>4. ServerType' /\ PipeType' /\ FlagType' /\ InboxType'
  BY DEF ServerType, PipeType, FlagType, InboxType
<1>5. Indices' /\ Marks' /\ InProgress'
  BY DEF Indices, Marks, InProgress, Handed
<1> QED  BY <1>2, <1>3, <1>4, <1>5, Kept, InvNext

-----------------------------------------------------------------------------
(* The queues of the protocol, element by element.                         *)
LEMMA AppendAt ==
  ASSUME NEW S, NEW q \in Seq(S), NEW e \in S
  PROVE  /\ Append(q, e) \in Seq(S) /\ Len(q) \in Nat
         /\ Len(Append(q, e)) = Len(q) + 1
         /\ \A i \in 1 .. Len(q) : Append(q, e)[i] = q[i] /\ q[i] \in S
         /\ Append(q, e)[Len(q) + 1] = e
  OBVIOUS

LEMMA TailAt ==
  ASSUME NEW S, NEW q \in Seq(S), Len(q) > 0
  PROVE  /\ Tail(q) \in Seq(S) /\ Len(q) \in Nat
         /\ Len(Tail(q)) = Len(q) - 1
         /\ \A i \in 1 .. Len(q) - 1 : Tail(q)[i] = q[i + 1]
         /\ \A i \in 1 .. Len(q) : q[i] \in S
         /\ Head(q) = q[1]
  OBVIOUS

(* The server starts a replay: the request at the head of the queue becomes *)
(* the replay in progress, and every message stays where it was.           *)
LEMMA StartReplayInv == ASSUME IndInv, StartReplay PROVE IndInv'
<1> DEFINE r == req[1]
<1>1. /\ Len(req) \in Nat \ {0} /\ Len(resp) \in Nat
      /\ \A j \in 1 .. Len(req) : req[j] \in Request
      /\ \A i \in 1 .. Len(resp) : resp[i] \in Response
      /\ Head(req) = r
  BY InvParts DEF StartReplay, Marks, PipeType
<1>2. /\ r \in Request /\ r.begin \in Nat /\ r.end \in Nat /\ r.begin < r.end
      /\ r.end < nextExpected /\ {front, back, nextExpected} \subseteq Nat
      /\ front <= r.begin /\ r.end < back
  <2>1. r \in Request /\ r.begin \in Nat /\ r.end \in Nat
    BY <1>1 DEF Request
  <2>2. r.begin < r.end /\ r.end < nextExpected
    BY <1>1, InvParts DEF RequestsSorted
  <2>3. {front, back, nextExpected} \subseteq Nat
    BY InvParts DEF ServerType, ClientType
  <2>4. front <= r.begin /\ r.end < back
    BY <1>1, <2>1, <2>3 DEF StartReplay, TooOld, TooNew
  <2> QED  BY <2>1, <2>2, <2>3, <2>4
<1>3. /\ spc = "handle" /\ spc' = "replay" /\ cursor'.next = r.begin /\ cursor'.end = r.end
      /\ UNCHANGED <<front, back, req, resp, buffers, nextExpected, nextOrdered, delivered>>
  BY <1>1 DEF StartReplay
<1>4. ServerType'
  BY <1>1, <1>2, InvParts DEF StartReplay, ServerType
<1>5. PipeType' /\ ClientType' /\ FlagType' /\ InboxType'
  BY InvParts DEF StartReplay, PipeType, ClientType, FlagType, InboxType
<1>6. Indices' /\ Datagrams'
  BY InvParts DEF StartReplay, Indices, Datagrams, Handed
<1>7. Marks'
  BY InvParts DEF StartReplay, Marks
<1>8. InProgress'
  BY <1>2, <1>3 DEF InProgress
<1>9. FramesSorted' /\ RequestsSorted' /\ ResponsesKnown' /\ InOrder'
  BY <1>3, InvParts DEF FramesSorted, RequestsSorted, ResponsesKnown, InOrder
<1>10. Paths'
  <2> SUFFICES ASSUME ~Refused' PROVE PipeSorted' /\ FramesApart' /\ Covered'
    BY DEF Paths
  <2>1. PipeSorted /\ FramesApart /\ Covered
    BY <1>3, InvParts DEF Refused, Paths
  <2>2. /\ Queued = 1 .. Len(req) /\ Queued' = 2 .. Len(req) /\ 1 \in Queued
        /\ \A j \in Queued' : j \in Queued
        /\ \A j \in Queued : j = 1 \/ j \in Queued'
    BY <1>1, <1>3 DEF Queued
  <2>3. PipeSorted'
    BY <1>3, <2>1, <2>2 DEF PipeSorted
  <2>4. FramesApart'
    BY <1>3, <2>1, <2>2 DEF FramesApart
  <2>5. Covered'
    <3> SUFFICES ASSUME NEW s \in Interval(nextOrdered, nextExpected) PROVE OnItsWay(s)'
      BY <1>3 DEF Covered
    <3>1. OnItsWay(s)
      BY <2>1 DEF Covered
    <3> QED  BY <1>3, <2>2, <3>1 DEF OnItsWay
  <2> QED  BY <2>3, <2>4, <2>5
<1> QED  BY <1>4, <1>5, <1>6, <1>7, <1>8, <1>9, <1>10, InvNext

(* It moves the next message of the replay into the outgoing queue, behind  *)
(* smaller numbers and before all those still to be replayed.              *)
LEMMA ReplayOneInv == ASSUME IndInv, ReplayOne PROVE IndInv'
<1>1. /\ Len(req) \in Nat /\ Len(req) > 0 /\ Len(resp) \in Nat
      /\ \A j \in 1 .. Len(req) : req[j] \in Request
      /\ \A i \in 1 .. Len(resp) : resp[i] \in Response /\ resp[i].seq \in Nat
  <2>1. /\ Len(req) \in Nat /\ Len(req) > 0 /\ Len(resp) \in Nat
        /\ \A j \in 1 .. Len(req) : req[j] \in Request
        /\ \A i \in 1 .. Len(resp) : resp[i] \in Response
    BY InvParts DEF ReplayOne, Marks, PipeType
  <2> QED  BY <2>1 DEF Response
<1>2. /\ req[1].begin \in Nat /\ req[1].end \in Nat
      /\ cursor.next \in Nat /\ cursor.end \in Nat /\ cursor.next < cursor.end
      /\ cursor.end = req[1].end /\ cursor.end < nextExpected /\ front \in Nat /\ back \in Nat
      /\ nextExpected \in Nat /\ nextOrdered \in Nat
      /\ req[1].begin <= cursor.next /\ front <= cursor.next /\ cursor.end < back
  <2>1. /\ front \in Nat /\ back \in Nat /\ nextExpected \in Nat /\ nextOrdered \in Nat
        /\ cursor.next \in Nat /\ cursor.end \in Nat
    BY InvParts DEF ServerType, ClientType
  <2>2. req[1].begin \in Nat /\ req[1].end \in Nat
    BY <1>1 DEF Request
  <2>3. /\ cursor.end = req[1].end /\ req[1].begin <= cursor.next /\ cursor.next <= cursor.end
        /\ front <= cursor.next /\ cursor.end < back /\ cursor.next # cursor.end
    BY InvParts DEF InProgress, ReplayOne
  <2>4. req[1].end < nextExpected
    BY <1>1, InvParts DEF RequestsSorted
  <2> QED  BY <2>1, <2>2, <2>3, <2>4
<1>3. /\ spc = "replay" /\ spc' = "replay" /\ cursor'.next = cursor.next + 1 /\ cursor'.end = cursor.end
      /\ UNCHANGED <<front, back, req, buffers, nextExpected, nextOrdered, delivered>>
  <2>1. cursor \in [next : Nat, end : Nat] /\ cursor' = [cursor EXCEPT !.next = @ + 1]
    BY InvParts DEF ServerType, ReplayOne
  <2>2. cursor'.next = cursor.next + 1 /\ cursor'.end = cursor.end
    BY <2>1
  <2> QED  BY <2>2 DEF ReplayOne
<1>4. /\ resp' \in Seq(Response) /\ Len(resp') = Len(resp) + 1
      /\ \A i \in 1 .. Len(resp) : resp'[i] = resp[i]
      /\ resp'[Len(resp) + 1].status = 0 /\ resp'[Len(resp) + 1].seq = cursor.next
  <2> DEFINE e == [status |-> 0, seq |-> cursor.next]
  <2>1. e \in Response /\ resp' = Append(resp, e) /\ resp \in Seq(Response)
    BY <1>2, InvParts DEF ReplayOne, Response, PipeType
  <2> HIDE DEF e
  <2>2. /\ resp' \in Seq(Response) /\ Len(resp') = Len(resp) + 1
        /\ \A i \in 1 .. Len(resp) : resp'[i] = resp[i]
        /\ resp'[Len(resp) + 1] = e
    BY <2>1, AppendAt
  <2> QED  BY <2>2 DEF e
<1> DEFINE Old(i) == i \in 1 .. Len(resp) /\ resp'[i] = resp[i] /\ resp'[i].seq \in Nat
           New(i) == i = Len(resp) + 1 /\ resp'[i].status = 0 /\ resp'[i].seq = cursor.next
<1>0. \A i \in 1 .. Len(resp') : i \in Nat /\ (Old(i) \/ New(i))
  BY <1>1, <1>4
<1> HIDE DEF Old, New
<1>5. ServerType'
  <2>1. cursor' \in [next : Nat, end : Nat]
    BY InvParts DEF ReplayOne, ServerType
  <2> QED  BY <2>1, InvParts DEF ReplayOne, ServerType
<1>6. PipeType'
  BY <1>4, InvParts DEF ReplayOne, PipeType
<1>7. ClientType' /\ FlagType' /\ InboxType'
  BY InvParts DEF ReplayOne, ClientType, FlagType, InboxType
<1>8. Indices' /\ Datagrams'
  BY InvParts DEF ReplayOne, Indices, Datagrams, Handed
<1>9. Marks'
  <2>1. TcpCap \in Nat /\ {respSent, respHere} \subseteq Nat
    BY SizeAssumption, InvParts DEF PipeType
  <2> QED  BY <1>1, <1>4, <2>1, InvParts DEF ReplayOne, RespRoom, Marks
<1>10. InProgress'
  BY <1>2, <1>3 DEF InProgress
<1>11. FramesSorted' /\ RequestsSorted' /\ InOrder'
  BY <1>3, InvParts DEF FramesSorted, RequestsSorted, InOrder
<1>12. ResponsesKnown'
  <2> SUFFICES ASSUME NEW i \in 1 .. Len(resp')
               PROVE  /\ resp'[i].status # 1
                      /\ resp'[i].status = 0 => resp'[i].seq < nextExpected'
    BY DEF ResponsesKnown
  <2>1. CASE Old(i)
    BY <1>3, <2>1, InvParts DEF Old, ResponsesKnown
  <2>2. CASE New(i)
    BY <1>2, <1>3, <2>2 DEF New
  <2> QED  BY <1>0, <2>1, <2>2
<1>13. Paths'
  <2> SUFFICES ASSUME ~Refused' PROVE PipeSorted' /\ FramesApart' /\ Covered'
    BY DEF Paths
  <2>1. PipeSorted /\ FramesApart /\ Covered
    BY <1>1, <1>4, InvParts DEF Refused, Paths
  <2>2. /\ Queued' = Queued /\ Queued = 2 .. Len(req)
        /\ \A j \in Queued : cursor.end <= req[j].begin
        /\ \A j \in Queued : req[j] \in Request
    <3>1. Queued' = Queued /\ Queued = 2 .. Len(req)
      BY <1>3 DEF Queued
    <3>2. \A j \in Queued : j \in 1 .. Len(req) /\ 1 < j /\ 1 \in 1 .. Len(req)
      BY <1>1, <3>1
    <3>3. \A j \in Queued : cursor.end <= req[j].begin
      BY <1>2, <3>2, InvParts DEF RequestsSorted
    <3> QED  BY <1>1, <3>1, <3>2, <3>3
  <2>3. PipeSorted'
    <3>1. ASSUME NEW i \in 1 .. Len(resp')
          PROVE  /\ nextOrdered <= resp'[i].seq /\ resp'[i].seq < cursor.next + 1
                 /\ \A j \in Queued : resp'[i].seq < req[j].begin
      <4>1. CASE Old(i)
        BY <1>2, <1>3, <2>1, <4>1 DEF Old, PipeSorted
      <4>2. CASE New(i)
        <5>1. \A j \in Queued : cursor.next < req[j].begin
          BY <1>2, <2>2 DEF Request
        <5> QED  BY <1>2, <1>3, <2>1, <4>2, <5>1 DEF New, PipeSorted
      <4> QED  BY <1>0, <4>1, <4>2
    <3>2. ASSUME NEW i \in 1 .. Len(resp'), NEW j \in 1 .. Len(resp'), i < j
          PROVE  resp'[i].seq < resp'[j].seq
      <4>1. Old(i)
        BY <1>0, <1>1, <1>4, <3>2 DEF Old, New
      <4>2. CASE Old(j)
        BY <2>1, <3>2, <4>1, <4>2 DEF Old, PipeSorted
      <4>3. CASE New(j)
        BY <1>3, <2>1, <4>1, <4>3 DEF Old, New, PipeSorted
      <4> QED  BY <1>0, <4>2, <4>3
    <3> QED  BY <1>2, <1>3, <2>1, <2>2, <3>1, <3>2 DEF PipeSorted
  <2>4. FramesApart'
    <3>1. ASSUME NEW b \in 1 .. Len(buffers)
          PROVE  buffers[b].first \in Nat /\ buffers[b].last \in Nat
      <4>1. buffers[b] \in Frame
        BY InvParts DEF ClientType
      <4> QED  BY <4>1 DEF Frame
    <3>2. ASSUME NEW b \in 1 .. Len(buffers), NEW i \in 1 .. Len(resp')
          PROVE  resp'[i].seq < buffers[b].first \/ buffers[b].last < resp'[i].seq
      <4>1. CASE Old(i)
        BY <2>1, <4>1 DEF Old, FramesApart
      <4>2. CASE New(i)
        BY <1>2, <1>3, <2>1, <3>1, <4>2 DEF New, FramesApart
      <4> QED  BY <1>0, <4>1, <4>2
    <3>3. ASSUME NEW b \in 1 .. Len(buffers)
          PROVE  cursor.end <= buffers[b].first \/ buffers[b].last < cursor.next + 1
      BY <1>2, <1>3, <2>1, <3>1 DEF FramesApart
    <3> QED  BY <1>3, <2>1, <2>2, <3>2, <3>3 DEF FramesApart
  <2>5. Covered'
    <3> SUFFICES ASSUME NEW s \in Interval(nextOrdered, nextExpected) PROVE OnItsWay(s)'
      BY <1>3 DEF Covered
    <3>1. OnItsWay(s) /\ s \in Nat
      BY <1>2, <2>1 DEF Covered, Interval
    <3>2. CASE s = cursor.next
      BY <1>1, <1>4, <3>2 DEF OnItsWay
    <3>3. CASE s # cursor.next
      <4>1. cursor.next <= s => cursor'.next <= s
        BY <1>2, <1>3, <3>1, <3>3
      <4>2. \A i \in 1 .. Len(resp) : i \in 1 .. Len(resp') /\ resp'[i] = resp[i]
        BY <1>1, <1>4
      <4> QED  BY <1>3, <2>2, <3>1, <4>1, <4>2 DEF OnItsWay
    <3> QED  BY <3>2, <3>3
  <2> QED  BY <2>3, <2>4, <2>5
<1> QED  BY <1>5, <1>6, <1>7, <1>8, <1>9, <1>10, <1>11, <1>12, <1>13, InvNext

(* The request at the head leaves: the others keep their order.            *)
LEMMA PopRequestKeeps ==
  ASSUME IndInv, spc \in {"handle", "replay"}, PopRequest, UNCHANGED nextExpected
  PROVE  /\ Len(req) \in Nat /\ Len(req) > 0 /\ Len(req') = Len(req) - 1
         /\ req' \in Seq(Request)
         /\ \A j \in 1 .. Len(req') : req'[j] = req[j + 1] /\ req[j + 1] \in Request
         /\ reqSent' \in Nat /\ reqHere' \in Nat
         /\ reqHere' <= reqSent' /\ reqSent' <= Len(req') /\ reqHere' <= TcpCap
         /\ Len(req') - reqSent' <= TcpCap
         /\ RequestsSorted'
<1>1. /\ req \in Seq(Request) /\ reqSent \in Nat /\ reqHere \in Nat /\ TcpCap \in Nat
      /\ reqHere > 0 /\ reqHere <= reqSent /\ reqSent <= Len(req) /\ reqHere <= TcpCap
      /\ Len(req) - reqSent <= TcpCap
  BY SizeAssumption, InvParts DEF PipeType, Marks
<1>2. Len(req) \in Nat /\ Len(req) > 0
  BY <1>1
<1>3. /\ req' \in Seq(Request) /\ Len(req') = Len(req) - 1
      /\ \A j \in 1 .. Len(req) - 1 : req'[j] = req[j + 1]
      /\ \A j \in 1 .. Len(req) : req[j] \in Request
  BY <1>1, <1>2, TailAt DEF PopRequest
<1>4. \A j \in 1 .. Len(req') : j + 1 \in 1 .. Len(req) /\ req'[j] = req[j + 1]
  BY <1>2, <1>3
<1>5. RequestsSorted'
  <2> SUFFICES ASSUME NEW i \in 1 .. Len(req')
               PROVE  /\ req'[i].begin < req'[i].end /\ req'[i].end < nextExpected'
                      /\ \A j \in 1 .. Len(req') : i < j => req'[i].end <= req'[j].begin
    BY DEF RequestsSorted
  <2>1. \A j \in 1 .. Len(req') : i < j => i + 1 < j + 1
    BY <1>2, <1>3
  <2> QED  BY <1>4, <2>1, InvParts DEF RequestsSorted
<1> QED  BY <1>1, <1>2, <1>3, <1>4, <1>5 DEF PopRequest

(* A replay ends when nothing is left of its request.                      *)
LEMMA EndReplayInv == ASSUME IndInv, EndReplay PROVE IndInv'
<1>1. /\ Len(req) \in Nat /\ Len(req) > 0 /\ Len(req') = Len(req) - 1
      /\ req' \in Seq(Request)
      /\ \A j \in 1 .. Len(req') : req'[j] = req[j + 1]
      /\ reqSent' \in Nat /\ reqHere' \in Nat
      /\ reqHere' <= reqSent' /\ reqSent' <= Len(req') /\ reqHere' <= TcpCap
      /\ Len(req') - reqSent' <= TcpCap
      /\ RequestsSorted'
  BY PopRequestKeeps DEF EndReplay
<1>2. /\ spc = "replay" /\ spc' = "trim" /\ cursor.next = cursor.end
      /\ cursor.next \in Nat /\ cursor.end \in Nat
      /\ UNCHANGED <<resp, buffers, nextExpected, nextOrdered, delivered>>
  BY InvParts DEF EndReplay, ServerType
<1>3. ServerType'
  BY InvParts DEF EndReplay, ServerType
<1>4. PipeType'
  BY <1>1, InvParts DEF EndReplay, PipeType
<1>5. ClientType' /\ FlagType' /\ InboxType'
  BY InvParts DEF EndReplay, ClientType, FlagType, InboxType
<1>6. Indices' /\ Datagrams' /\ InProgress'
  BY InvParts DEF EndReplay, Indices, Datagrams, InProgress, Handed
<1>7. Marks'
  BY <1>1, <1>2, InvParts DEF EndReplay, Marks
<1>8. FramesSorted' /\ ResponsesKnown' /\ InOrder'
  BY <1>2, InvParts DEF FramesSorted, ResponsesKnown, InOrder
<1>9. Paths'
  <2> SUFFICES ASSUME ~Refused' PROVE PipeSorted' /\ FramesApart' /\ Covered'
    BY DEF Paths
  <2>1. PipeSorted /\ FramesApart /\ Covered
    BY <1>2, InvParts DEF Refused, Paths
  <2>2. /\ Queued = 2 .. Len(req) /\ Queued' = 1 .. Len(req')
        /\ \A j \in Queued' : j + 1 \in Queued /\ req'[j] = req[j + 1]
        /\ \A j \in Queued : j - 1 \in Queued' /\ req'[j - 1] = req[j]
    BY <1>1, <1>2 DEF Queued
  <2>3. PipeSorted'
    BY <1>2, <2>1, <2>2 DEF PipeSorted
  <2>4. FramesApart'
    BY <1>2, <2>1, <2>2 DEF FramesApart
  <2>5. Covered'
    <3> SUFFICES ASSUME NEW s \in Interval(nextOrdered, nextExpected) PROVE OnItsWay(s)'
      BY <1>2 DEF Covered
    <3>1. OnItsWay(s) /\ s \in Nat
      BY <2>1, InvParts DEF Covered, Interval, ClientType
    <3>2. ASSUME NEW j \in Queued, req[j].begin <= s, s < req[j].end
          PROVE  OnItsWay(s)'
      BY <2>2, <3>2 DEF OnItsWay
    <3> QED  BY <1>2, <3>1, <3>2 DEF OnItsWay
  <2> QED  BY <2>3, <2>4, <2>5
<1> QED  BY <1>1, <1>3, <1>4, <1>5, <1>6, <1>7, <1>8, <1>9, InvNext

(* Only a request that reaches before the history is refused: no request   *)
(* reaches beyond it.                                                      *)
LEMMA RefuseInv == ASSUME IndInv, Refuse PROVE IndInv'
<1>1. /\ Len(req) \in Nat /\ Len(req) > 0 /\ Len(req') = Len(req) - 1
      /\ req' \in Seq(Request)
      /\ reqSent' \in Nat /\ reqHere' \in Nat
      /\ reqHere' <= reqSent' /\ reqSent' <= Len(req') /\ reqHere' <= TcpCap
      /\ Len(req') - reqSent' <= TcpCap
      /\ RequestsSorted'
  BY PopRequestKeeps DEF Refuse
<1>2. /\ req[1] \in Request /\ Head(req) = req[1]
      /\ resp \in Seq(Response) /\ Len(resp) \in Nat
  BY <1>1, InvParts DEF PipeType
<1>3. /\ req[1].begin \in Nat /\ req[1].end \in Nat
      /\ req[1].begin < req[1].end /\ req[1].end < back
  <2>1. req[1].begin \in Nat /\ req[1].end \in Nat
    BY <1>2 DEF Request
  <2>2. req[1].begin < req[1].end /\ req[1].end < nextExpected
    BY <1>1, InvParts DEF RequestsSorted
  <2>3. nextExpected <= mcFront /\ mcFront <= sentIt /\ sentIt <= back
    BY InvParts DEF Datagrams, Indices, Handed, ServerType
  <2> QED  BY <2>1, <2>2, <2>3, InvParts DEF ServerType, ClientType
<1>4. PICK e \in Response :
        /\ e.status = 2 /\ resp' = Append(resp, e)
  <2>1. TooOld(req[1].begin) \/ TooOld(req[1].end)
    <3>1. /\ front \in Nat /\ back \in Nat
          /\ \/ TooOld(req[1].begin) \/ TooOld(req[1].end)
             \/ TooNew(req[1].begin) \/ TooNew(req[1].end)
      BY <1>2, InvParts DEF Refuse, ServerType
    <3> QED  BY <1>3, <3>1 DEF TooOld, TooNew
  <2>2. resp' = Append(resp, [status |-> 2, seq |-> req[1].end])
    BY <1>2, <2>1 DEF Refuse
  <2> QED  BY <1>3, <2>2 DEF Response
<1>5. /\ resp' \in Seq(Response) /\ Len(resp') = Len(resp) + 1
      /\ \A i \in 1 .. Len(resp) : resp'[i] = resp[i]
      /\ resp'[Len(resp) + 1] = e
  BY <1>2, <1>4, AppendAt
<1>6. ServerType'
  BY InvParts DEF Refuse, ServerType
<1>7. PipeType'
  BY <1>1, <1>5, InvParts DEF Refuse, PipeType
<1>8. ClientType' /\ FlagType' /\ InboxType'
  BY InvParts DEF Refuse, ClientType, FlagType, InboxType
<1>9. Indices' /\ Datagrams' /\ InProgress'
  BY InvParts DEF Refuse, Indices, Datagrams, InProgress, Handed
<1>10. Marks'
  <2>1. TcpCap \in Nat /\ respSent \in Nat /\ respHere \in Nat
    BY SizeAssumption, InvParts DEF PipeType
  <2>2. /\ respHere <= respSent /\ respSent <= Len(resp) /\ respHere <= TcpCap
        /\ Len(resp) - respSent < TcpCap /\ UNCHANGED <<respHere, respSent>> /\ spc' = "trim"
    BY InvParts DEF Refuse, RespRoom, Marks
  <2>3. Len(resp') - respSent' <= TcpCap /\ respSent' <= Len(resp')
    BY <1>2, <1>5, <2>1, <2>2
  <2> QED  BY <1>1, <2>2, <2>3 DEF Marks
<1>11. FramesSorted' /\ InOrder'
  BY InvParts DEF Refuse, FramesSorted, InOrder
<1>12. ResponsesKnown'
  <2>1. \A i \in 1 .. Len(resp') : i \in 1 .. Len(resp) \/ resp'[i] = e
    BY <1>2, <1>5
  <2> QED  BY <1>4, <1>5, <2>1, InvParts DEF Refuse, ResponsesKnown
<1>13. Paths'
  BY <1>2, <1>4, <1>5 DEF Paths, Refused
<1> QED  BY <1>1, <1>6, <1>7, <1>8, <1>9, <1>10, <1>11, <1>12, <1>13, InvNext

(* The client keeps a datagram behind those it already holds.              *)
LEMMA KeepFrame ==
  ASSUME IndInv, NEW f \in Frame, f.first <= f.last, nextExpected <= f.first,
         buffers' = Append(buffers, f), nextExpected' = f.last + 1
  PROVE  /\ f.first \in Nat /\ f.last \in Nat
         /\ Len(buffers) \in Nat /\ Len(buffers') = Len(buffers) + 1
         /\ buffers' \in Seq(Frame) /\ buffers'[Len(buffers) + 1] = f
         /\ \A b \in 1 .. Len(buffers) :
              /\ buffers'[b] = buffers[b]
              /\ buffers[b].first \in Nat /\ buffers[b].last \in Nat
              /\ buffers[b].last < nextExpected
         /\ FramesSorted'
<1>1. f.first \in Nat /\ f.last \in Nat /\ nextExpected \in Nat
  BY InvParts DEF Frame, ClientType
<1>2. /\ Len(buffers) \in Nat /\ Len(buffers') = Len(buffers) + 1
      /\ buffers' \in Seq(Frame) /\ buffers'[Len(buffers) + 1] = f
      /\ \A b \in 1 .. Len(buffers) : buffers'[b] = buffers[b] /\ buffers[b] \in Frame
  <2>1. buffers \in Seq(Frame)
    BY InvParts DEF ClientType
  <2> QED  BY <2>1, AppendAt
<1>3. \A b \in 1 .. Len(buffers) :
        buffers[b].first \in Nat /\ buffers[b].last \in Nat /\ buffers[b].last < nextExpected
  BY <1>2, InvParts DEF Frame, FramesSorted
<1>4. FramesSorted'
  <2> SUFFICES ASSUME NEW i \in 1 .. Len(buffers')
               PROVE  /\ buffers'[i].first <= buffers'[i].last
                      /\ buffers'[i].last < nextExpected'
                      /\ \A j \in 1 .. Len(buffers') :
                           i < j => buffers'[i].last < buffers'[j].first
    BY DEF FramesSorted
  <2>1. CASE i = Len(buffers) + 1
    BY <1>1, <1>2, <2>1
  <2>2. CASE i \in 1 .. Len(buffers)
    <3>1. /\ buffers[i].first <= buffers[i].last /\ buffers[i].last < nextExpected
          /\ \A j \in 1 .. Len(buffers) : i < j => buffers[i].last < buffers[j].first
      BY <2>2, InvParts DEF FramesSorted
    <3>2. ASSUME NEW j \in 1 .. Len(buffers'), i < j
          PROVE  buffers'[i].last < buffers'[j].first
      <4>1. CASE j = Len(buffers) + 1
        BY <1>1, <1>2, <1>3, <2>2, <3>1, <4>1
      <4>2. CASE j \in 1 .. Len(buffers)
        BY <1>2, <2>2, <3>1, <3>2, <4>2
      <4> QED  BY <1>2, <4>1, <4>2
    <3>3. buffers[i].last < nextExpected'
      BY <1>1, <1>3, <2>2
    <3> QED  BY <1>2, <2>2, <3>1, <3>2, <3>3
  <2> QED  BY <1>2, <2>1, <2>2
<1> QED  BY <1>1, <1>2, <1>3, <1>4

(* A datagram in its turn takes the place of what was not known before.    *)
LEMMA ReadFrameInv == ASSUME IndInv, NEW f \in net, ReadFrame(f) PROVE IndInv'
<1>1. f \in Frame /\ f.first <= f.last /\ f.last < mcFront
  BY InvParts DEF ServerType, Datagrams
<1>2. /\ f.first \in Nat /\ f.last \in Nat /\ nextExpected \in Nat /\ nextOrdered \in Nat
      /\ mcFront \in Nat /\ nextOrdered <= nextExpected
  BY <1>1, InvParts DEF Frame, ClientType, ServerType, InOrder
<1>3. /\ f.first = nextExpected /\ nextExpected' = f.last + 1 /\ buffers' = Append(buffers, f)
      /\ UNCHANGED <<req, resp, spc, cursor, nextOrdered, delivered>>
  BY DEF ReadFrame
<1>4. /\ Len(buffers) \in Nat /\ Len(buffers') = Len(buffers) + 1
      /\ buffers' \in Seq(Frame) /\ buffers'[Len(buffers) + 1] = f
      /\ \A b \in 1 .. Len(buffers) : buffers'[b] = buffers[b]
      /\ FramesSorted'
  BY <1>1, <1>2, <1>3, KeepFrame
<1>5. ServerType' /\ PipeType' /\ FlagType' /\ InboxType'
  BY InvParts DEF ReadFrame, ServerType, PipeType, FlagType, InboxType
<1>6. ClientType'
  BY <1>2, <1>4, InvParts DEF ReadFrame, ClientType
<1>7. Indices' /\ Marks' /\ InProgress'
  BY InvParts DEF ReadFrame, Indices, Marks, InProgress, Handed
<1>8. Datagrams'
  BY <1>1, <1>2, InvParts DEF ReadFrame, Datagrams
<1>9. InOrder'
  BY <1>1, <1>2, <1>3, InvParts DEF InOrder
<1>10. /\ Len(req) \in Nat /\ Len(resp) \in Nat
       /\ \A j \in 1 .. Len(req) : req[j].end \in Nat /\ req[j].end < nextExpected
       /\ \A i \in 1 .. Len(resp) :
            resp[i].seq \in Nat /\ (resp[i].status = 0 => resp[i].seq < nextExpected)
  <2>1. /\ Len(req) \in Nat /\ Len(resp) \in Nat
        /\ \A j \in 1 .. Len(req) : req[j] \in Request
        /\ \A i \in 1 .. Len(resp) : resp[i] \in Response
    BY InvParts DEF PipeType
  <2> QED  BY <2>1, InvParts DEF Request, Response, RequestsSorted, ResponsesKnown
<1>11. RequestsSorted'
  BY <1>1, <1>2, <1>3, <1>10, InvParts DEF RequestsSorted
<1>12. ResponsesKnown'
  BY <1>1, <1>2, <1>3, <1>10, InvParts DEF ResponsesKnown
<1>13. Paths'
  <2> SUFFICES ASSUME ~Refused' PROVE PipeSorted' /\ FramesApart' /\ Covered'
    BY DEF Paths
  <2>1. PipeSorted /\ FramesApart /\ Covered
    BY <1>3, InvParts DEF Refused, Paths
  <2>2. /\ Queued' = Queued /\ \A j \in Queued : j \in 1 .. Len(req)
        /\ \A i \in 1 .. Len(resp) : resp[i].status = 0
    BY <1>3, <1>10 DEF Queued, Refused
  <2>3. PipeSorted'
    BY <1>3, <2>1, <2>2 DEF PipeSorted
  <2>4. FramesApart'
    <3>1. ASSUME NEW b \in 1 .. Len(buffers')
          PROVE  (b \in 1 .. Len(buffers) /\ buffers'[b] = buffers[b]) \/ buffers'[b] = f
      BY <1>4
    <3>2. /\ nextOrdered <= f.first
          /\ \A i \in 1 .. Len(resp) : resp[i].seq < f.first
          /\ \A j \in Queued : req[j].end <= f.first
      BY <1>2, <1>3, <1>10, <2>2
    <3>3. spc = "replay" => cursor.end <= f.first
      <4>1. spc = "replay" => cursor.end = req[1].end /\ 1 \in 1 .. Len(req)
        BY InvParts, <1>10 DEF InProgress, Marks, PipeType
      <4>2. \A j \in 1 .. Len(req) : req[j].end <= f.first
        BY <1>2, <1>3, <1>10
      <4> QED  BY <4>1, <4>2
    <3> QED  BY <1>3, <2>1, <2>2, <3>1, <3>2, <3>3 DEF FramesApart
  <2>5. Covered'
    <3> SUFFICES ASSUME NEW s \in Interval(nextOrdered, f.last + 1) PROVE OnItsWay(s)'
      BY <1>3 DEF Covered
    <3>1. CASE s < nextExpected
      <4>1. OnItsWay(s)
        BY <1>2, <2>1, <3>1 DEF Covered, Interval
      <4> QED  BY <1>3, <1>4, <2>2, <4>1 DEF OnItsWay
    <3>2. CASE nextExpected <= s
      <4>1. f.first <= s /\ s <= f.last
        BY <1>2, <1>3, <3>2 DEF Interval
      <4> QED  BY <1>4, <4>1 DEF OnItsWay
    <3> QED  BY <1>2, <3>1, <3>2 DEF Interval
  <2> QED  BY <2>3, <2>4, <2>5
<1> QED  BY <1>4, <1>5, <1>6, <1>7, <1>8, <1>9, <1>11, <1>12, <1>13, InvNext

(* A datagram beyond a gap is kept once the gap has been asked for.        *)
LEMMA RequestReplayInv == ASSUME IndInv, RequestReplay PROVE IndInv'
<1>1. PICK f \in pending : /\ req' = Append(req, [begin |-> nextExpected, end |-> f.first])
                           /\ nextExpected' = f.last + 1
                           /\ buffers' = Append(buffers, f)
  BY DEF RequestReplay
<1>2. f \in Frame /\ f.first <= f.last /\ f.last < mcFront /\ nextExpected < f.first
  BY InvParts DEF ClientType, Datagrams
<1>3. /\ f.first \in Nat /\ f.last \in Nat /\ nextExpected \in Nat /\ nextOrdered \in Nat
      /\ mcFront \in Nat /\ nextOrdered <= nextExpected
  BY <1>2, InvParts DEF Frame, ClientType, ServerType, InOrder
<1>4. /\ Len(buffers) \in Nat /\ Len(buffers') = Len(buffers) + 1
      /\ buffers' \in Seq(Frame) /\ buffers'[Len(buffers) + 1] = f
      /\ \A b \in 1 .. Len(buffers) :
           /\ buffers'[b] = buffers[b]
           /\ buffers[b].first \in Nat /\ buffers[b].last \in Nat
           /\ buffers[b].last < nextExpected
      /\ FramesSorted'
  BY <1>1, <1>2, <1>3, KeepFrame
<1>5. /\ req' \in Seq(Request) /\ Len(req') = Len(req) + 1 /\ Len(req) \in Nat
      /\ \A j \in 1 .. Len(req) : req'[j] = req[j] /\ req[j] \in Request
      /\ req'[Len(req) + 1].begin = nextExpected /\ req'[Len(req) + 1].end = f.first
  <2> DEFINE r == [begin |-> nextExpected, end |-> f.first]
  <2>1. r \in Request /\ req' = Append(req, r) /\ req \in Seq(Request)
    BY <1>1, <1>3, InvParts DEF Request, PipeType
  <2> HIDE DEF r
  <2>2. /\ req' \in Seq(Request) /\ Len(req') = Len(req) + 1 /\ Len(req) \in Nat
        /\ \A j \in 1 .. Len(req) : req'[j] = req[j] /\ req[j] \in Request
        /\ req'[Len(req) + 1] = r
    BY <2>1, AppendAt
  <2> QED  BY <2>2 DEF r
<1>6. /\ UNCHANGED <<resp, spc, cursor, nextOrdered, delivered>>
      /\ reqHere' = reqHere /\ reqSent' = reqSent
  BY DEF RequestReplay
<1>7. /\ Len(resp) \in Nat
      /\ \A j \in 1 .. Len(req) :
           req[j].begin \in Nat /\ req[j].end \in Nat /\ req[j].end < nextExpected
      /\ \A i \in 1 .. Len(resp) :
           resp[i].seq \in Nat /\ (resp[i].status = 0 => resp[i].seq < nextExpected)
  <2>1. Len(resp) \in Nat /\ \A i \in 1 .. Len(resp) : resp[i] \in Response
    BY InvParts DEF PipeType
  <2> QED  BY <1>5, <2>1, InvParts DEF Request, Response, RequestsSorted, ResponsesKnown
<1>8. ServerType' /\ FlagType' /\ InboxType'
  BY InvParts DEF RequestReplay, ServerType, FlagType, InboxType
<1>9. PipeType'
  BY <1>5, InvParts DEF RequestReplay, PipeType
<1>10. ClientType'
  BY <1>1, <1>3, <1>4, InvParts DEF RequestReplay, ClientType
<1>11. Indices'
  BY InvParts DEF RequestReplay, Handed, Indices
<1>12. Marks'
  <2>1. TcpCap \in Nat /\ reqSent \in Nat /\ reqHere \in Nat
    BY SizeAssumption, InvParts DEF PipeType
  <2> QED  BY <1>5, <2>1, InvParts DEF RequestReplay, ReqRoom, Marks
<1>13. Datagrams'
  BY <1>1, <1>2, <1>3, InvParts DEF RequestReplay, Datagrams
<1>14. InProgress'
  <2>1. spc = "replay" => 1 \in 1 .. Len(req)
    BY InvParts, <1>5 DEF Marks, PipeType
  <2> QED  BY <1>5, <2>1, InvParts DEF RequestReplay, InProgress
<1>15. InOrder'
  BY <1>1, <1>2, <1>3, InvParts DEF RequestReplay, InOrder
<1>16. RequestsSorted'
  <2> SUFFICES ASSUME NEW i \in 1 .. Len(req')
               PROVE  /\ req'[i].begin < req'[i].end /\ req'[i].end < nextExpected'
                      /\ \A j \in 1 .. Len(req') : i < j => req'[i].end <= req'[j].begin
    BY DEF RequestsSorted
  <2>1. CASE i = Len(req) + 1
    BY <1>1, <1>2, <1>3, <1>5, <2>1
  <2>2. CASE i \in 1 .. Len(req)
    <3>1. /\ req[i].begin < req[i].end /\ req[i].end < f.last + 1
          /\ \A j \in 1 .. Len(req) : i < j => req[i].end <= req[j].begin
      <4>1. req[i].end < f.last + 1
        BY <1>2, <1>3, <1>7, <2>2
      <4> QED  BY <2>2, <4>1, InvParts DEF RequestsSorted
    <3>2. ASSUME NEW j \in 1 .. Len(req'), i < j
          PROVE  req'[i].end <= req'[j].begin
      <4>1. CASE j = Len(req) + 1
        BY <1>3, <1>5, <1>7, <2>2, <4>1
      <4>2. CASE j \in 1 .. Len(req)
        BY <1>5, <2>2, <3>1, <3>2, <4>2
      <4> QED  BY <1>5, <4>1, <4>2
    <3> QED  BY <1>1, <1>5, <2>2, <3>1, <3>2
  <2> QED  BY <1>5, <2>1, <2>2
<1>17. ResponsesKnown'
  <2>1. \A i \in 1 .. Len(resp) : resp[i].status = 0 => resp[i].seq < f.last + 1
    BY <1>2, <1>3, <1>7
  <2> QED  BY <1>1, <1>6, <2>1, InvParts DEF ResponsesKnown
<1>18. Paths'
  <2> SUFFICES ASSUME ~Refused' PROVE PipeSorted' /\ FramesApart' /\ Covered'
    BY DEF Paths
  <2>1. PipeSorted /\ FramesApart /\ Covered
    BY <1>6, InvParts DEF Refused, Paths
  <2>2. /\ Queued' = Queued \cup {Len(req) + 1}
        /\ \A j \in Queued : j \in 1 .. Len(req) /\ req'[j] = req[j]
        /\ \A i \in 1 .. Len(resp) : resp[i].status = 0
    <3>1. spc = "replay" => Len(req) > 0
      BY InvParts, <1>5 DEF Marks, PipeType
    <3> QED  BY <1>5, <1>6, <3>1 DEF Queued, Refused
  <2>3. spc = "replay" => cursor.end < nextExpected /\ cursor.end \in Nat
    <3>1. spc = "replay" => cursor.end = req[1].end /\ 1 \in 1 .. Len(req)
      BY InvParts, <1>5 DEF InProgress, Marks, PipeType
    <3> QED  BY <1>7, <3>1
  <2>4. PipeSorted'
    <3>1. \A i \in 1 .. Len(resp) : resp[i].seq < req'[Len(req) + 1].begin
      BY <1>5, <1>7, <2>2
    <3>2. nextOrdered <= req'[Len(req) + 1].begin
      BY <1>3, <1>5
    <3> QED  BY <1>6, <2>1, <2>2, <3>1, <3>2 DEF PipeSorted
  <2>5. FramesApart'
    <3> SUFFICES ASSUME NEW b \in 1 .. Len(buffers')
                 PROVE  /\ buffers'[b].last < nextOrdered \/ nextOrdered <= buffers'[b].first
                        /\ \A i \in 1 .. Len(resp) :
                             resp[i].seq < buffers'[b].first \/ buffers'[b].last < resp[i].seq
                        /\ \A j \in Queued' :
                             req'[j].end <= buffers'[b].first \/ buffers'[b].last < req'[j].begin
                        /\ (spc = "replay" /\ cursor.next < cursor.end)
                             => cursor.end <= buffers'[b].first \/ buffers'[b].last < cursor.next
      BY <1>6 DEF FramesApart
    <3>1. CASE b = Len(buffers) + 1
      <4>1. nextOrdered <= f.first /\ (spc = "replay" => cursor.end <= f.first)
        BY <1>2, <1>3, <2>3
      <4>2. ASSUME NEW i \in 1 .. Len(resp) PROVE resp[i].seq < f.first
        <5>1. resp[i].seq \in Nat /\ resp[i].seq < nextExpected
          BY <1>7, <2>2
        <5> QED  BY <1>2, <1>3, <5>1
      <4>3. ASSUME NEW j \in 1 .. Len(req) PROVE req'[j].end <= f.first
        <5>1. req'[j] = req[j] /\ req[j].end \in Nat /\ req[j].end < nextExpected
          BY <1>5, <1>7
        <5> QED  BY <1>2, <1>3, <5>1
      <4>4. req'[Len(req) + 1].end <= f.first
        BY <1>3, <1>5
      <4>5. \A j \in Queued' : req'[j].end <= f.first
        BY <2>2, <4>3, <4>4
      <4> QED  BY <1>4, <3>1, <4>1, <4>2, <4>5
    <3>2. CASE b \in 1 .. Len(buffers)
      <4>1. buffers'[b] = buffers[b] /\ buffers[b].last < req'[Len(req) + 1].begin
        BY <1>4, <1>5, <3>2
      <4> QED  BY <2>1, <2>2, <3>2, <4>1 DEF FramesApart
    <3> QED  BY <1>4, <3>1, <3>2
  <2>6. Covered'
    <3> SUFFICES ASSUME NEW s \in Interval(nextOrdered, f.last + 1) PROVE OnItsWay(s)'
      BY <1>1, <1>6 DEF Covered
    <3>1. CASE s < nextExpected
      <4>1. OnItsWay(s)
        BY <1>3, <2>1, <3>1 DEF Covered, Interval
      <4> QED  BY <1>4, <1>6, <2>2, <4>1 DEF OnItsWay
    <3>2. CASE nextExpected <= s /\ s < f.first
      BY <1>5, <2>2, <3>2 DEF OnItsWay
    <3>3. CASE f.first <= s
      BY <1>3, <1>4, <3>3 DEF OnItsWay, Interval
    <3> QED  BY <1>3, <3>1, <3>2, <3>3 DEF Interval
  <2> QED  BY <2>4, <2>5, <2>6
<1> QED  BY <1>4, <1>8, <1>9, <1>10, <1>11, <1>12, <1>13, <1>14, <1>15, <1>16, <1>17, <1>18,
            InvNext

-----------------------------------------------------------------------------
(* The message whose turn it is leaves the replay connection; the next one *)
(* is behind it or in a datagram.                                          *)
LEMMA PopReplayedInv == ASSUME IndInv, PopReplayed PROVE IndInv'
<1>1. /\ resp \in Seq(Response) /\ Len(resp) > 0
      /\ respHere \in Nat /\ respSent \in Nat /\ TcpCap \in Nat
  <2>1. /\ resp \in Seq(Response) /\ respHere \in Nat /\ respSent \in Nat /\ TcpCap \in Nat
    BY SizeAssumption, InvParts DEF PipeType
  <2> QED  BY <2>1, InvParts DEF PopReplayed, Marks
<1>2. /\ resp' \in Seq(Response) /\ Len(resp) \in Nat /\ Len(resp') = Len(resp) - 1
      /\ \A i \in 1 .. Len(resp') : resp'[i] = resp[i + 1] /\ i + 1 \in 1 .. Len(resp)
      /\ \A i \in 1 .. Len(resp) : resp[i] \in Response
      /\ Head(resp) = resp[1]
  BY <1>1, TailAt DEF PopReplayed
<1>3. /\ resp[1].status = 0 /\ resp[1].seq \in Nat /\ resp[1].seq < nextExpected
      /\ \A i \in 1 .. Len(resp) : resp[i].seq \in Nat
  BY <1>1, <1>2, InvParts DEF PopReplayed, ResponsesKnown, Response
<1>4. /\ nextExpected \in Nat /\ nextOrdered \in Nat /\ nextOrdered' \in Nat
      /\ nextOrdered <= nextOrdered' /\ nextOrdered' <= nextExpected
      /\ nextOrdered' = IF resp[1].seq = nextOrdered THEN nextOrdered + 1 ELSE nextOrdered
      /\ resp[1].seq <= nextOrdered
  <2>1. nextExpected \in Nat /\ nextOrdered \in Nat /\ nextOrdered <= nextExpected
    BY InvParts DEF ClientType, InOrder
  <2> QED  BY <1>2, <1>3, <2>1 DEF PopReplayed
<1>5. UNCHANGED <<spc, cursor, req, buffers, nextExpected>>
  BY DEF PopReplayed
<1>6. ServerType' /\ FlagType'
  BY InvParts DEF PopReplayed, ServerType, FlagType
<1>7. Marks' /\ PipeType'
  <2>1. /\ respHere > 0 /\ respHere <= respSent /\ respSent <= Len(resp) /\ respHere <= TcpCap
        /\ Len(resp) - respSent <= TcpCap
    BY InvParts DEF PopReplayed, Marks
  <2>2. respHere' = respHere - 1 /\ respSent' = respSent - 1
    BY DEF PopReplayed
  <2>3. PipeType'
    BY <1>1, <1>2, <2>1, <2>2, InvParts DEF PopReplayed, PipeType
  <2>4. /\ respHere' <= respSent' /\ respSent' <= Len(resp') /\ respHere' <= TcpCap
        /\ Len(resp') - respSent' <= TcpCap
    BY <1>1, <1>2, <2>1, <2>2
  <2> QED  BY <2>3, <2>4, InvParts DEF PopReplayed, Marks
<1>8. ClientType'
  BY <1>4, InvParts DEF PopReplayed, ClientType
<1>9. InOrder' /\ InboxType'
  <2>1. CASE resp[1].seq = nextOrdered
    <3>1. delivered' = Append(Run(0, nextOrdered), nextOrdered) /\ taken' = taken
      BY <1>2, <2>1, InvParts DEF PopReplayed, InOrder
    <3>2. delivered' = Run(0, nextOrdered') /\ delivered = Run(0, nextOrdered)
      BY <1>4, <2>1, <3>1, RunAppend, InvParts DEF InOrder
    <3>3. /\ delivered' \in Seq(Nat) /\ Len(delivered') = nextOrdered'
          /\ Len(delivered) = nextOrdered
      BY <1>4, <3>2, RunSeq
    <3> QED  BY <1>4, <1>5, <3>1, <3>2, <3>3, InvParts DEF InOrder, InboxType
  <2>2. CASE resp[1].seq # nextOrdered
    BY <1>2, <2>2, InvParts DEF PopReplayed, InOrder, InboxType
  <2> QED  BY <2>1, <2>2
<1>10. Indices' /\ Datagrams' /\ InProgress'
  BY InvParts DEF PopReplayed, Indices, Datagrams, InProgress, Handed
<1>11. FramesSorted' /\ RequestsSorted'
  BY <1>5, InvParts DEF FramesSorted, RequestsSorted
<1>12. ResponsesKnown'
  BY <1>2, <1>5, InvParts DEF ResponsesKnown
<1>13. Paths'
  <2> SUFFICES ASSUME ~Refused' PROVE PipeSorted' /\ FramesApart' /\ Covered'
    BY DEF Paths
  <2>1. PipeSorted /\ FramesApart /\ Covered
    <3>1. ~Refused
      <4> SUFFICES ASSUME NEW i \in 1 .. Len(resp) PROVE resp[i].status = 0
        BY DEF Refused
      <4>1. CASE i = 1
        BY <1>3, <4>1
      <4>2. CASE i # 1
        <5>1. i - 1 \in 1 .. Len(resp') /\ (i - 1) + 1 = i
          BY <1>2, <4>2
        <5>2. resp'[i - 1] = resp[i]
          BY <1>2, <5>1
        <5> QED  BY <5>1, <5>2 DEF Refused
      <4> QED  BY <4>1, <4>2
    <3> QED  BY <3>1, InvParts DEF Paths
  <2>2. resp[1].seq = nextOrdered /\ nextOrdered' = nextOrdered + 1
    BY <1>1, <1>2, <1>3, <1>4, <2>1 DEF PipeSorted
  <2>3. /\ Queued' = Queued /\ \A j \in Queued : req[j].begin \in Nat
        /\ (spc = "replay" => cursor.next \in Nat /\ cursor.end \in Nat)
    <3>1. \A j \in Queued : req[j] \in Request
      BY InvParts DEF PipeType, Queued
    <3> QED  BY <1>5, <3>1, InvParts DEF Queued, Request, ServerType
  <2>4. PipeSorted'
    <3>1. ASSUME NEW i \in 1 .. Len(resp')
          PROVE  /\ nextOrdered + 1 <= resp'[i].seq
                 /\ \A j \in 1 .. Len(resp') : i < j => resp'[i].seq < resp'[j].seq
                 /\ spc = "replay" => resp'[i].seq < cursor.next
                 /\ \A j \in Queued : resp'[i].seq < req[j].begin
      <4>1. /\ i + 1 \in 1 .. Len(resp) /\ resp'[i] = resp[i + 1] /\ 1 < i + 1
            /\ 1 \in 1 .. Len(resp)
        BY <1>1, <1>2
      <4>2. resp[1].seq < resp[i + 1].seq
        BY <2>1, <4>1 DEF PipeSorted
      <4>3. ASSUME NEW j \in 1 .. Len(resp'), i < j PROVE resp'[i].seq < resp'[j].seq
        <5>1. i + 1 < j + 1 /\ j + 1 \in 1 .. Len(resp) /\ resp'[j] = resp[j + 1]
          BY <1>2, <4>3
        <5> QED  BY <2>1, <4>1, <5>1 DEF PipeSorted
      <4> QED  BY <1>3, <1>4, <2>1, <2>2, <4>1, <4>2, <4>3 DEF PipeSorted
    <3>2. /\ \A j \in Queued : resp[1].seq < req[j].begin
          /\ spc = "replay" => resp[1].seq < cursor.next
      BY <1>1, <1>2, <2>1 DEF PipeSorted
    <3>3. /\ \A j \in Queued : nextOrdered + 1 <= req[j].begin
          /\ spc = "replay" => nextOrdered + 1 <= cursor.next
      BY <1>4, <2>2, <2>3, <3>2
    <3> QED  BY <1>5, <2>2, <2>3, <3>1, <3>3 DEF PipeSorted
  <2>5. FramesApart'
    <3>1. ASSUME NEW b \in 1 .. Len(buffers)
          PROVE  buffers[b].last < nextOrdered + 1 \/ nextOrdered + 1 <= buffers[b].first
      <4>1. buffers[b] \in Frame
        BY InvParts DEF ClientType
      <4>2. /\ buffers[b].last < nextOrdered \/ nextOrdered <= buffers[b].first
            /\ resp[1].seq < buffers[b].first \/ buffers[b].last < resp[1].seq
        BY <1>1, <1>2, <2>1 DEF FramesApart
      <4> QED  BY <1>4, <2>2, <4>1, <4>2 DEF Frame
    <3>2. ASSUME NEW b \in 1 .. Len(buffers), NEW i \in 1 .. Len(resp')
          PROVE  resp'[i].seq < buffers[b].first \/ buffers[b].last < resp'[i].seq
      BY <1>2, <2>1 DEF FramesApart
    <3> QED  BY <1>5, <2>1, <2>2, <2>3, <3>1, <3>2 DEF FramesApart
  <2>6. Covered'
    <3> SUFFICES ASSUME NEW s \in Interval(nextOrdered + 1, nextExpected) PROVE OnItsWay(s)'
      BY <1>5, <2>2 DEF Covered
    <3>1. OnItsWay(s) /\ s # resp[1].seq
      BY <1>4, <2>1, <2>2 DEF Covered, Interval
    <3>2. ASSUME NEW i \in 1 .. Len(resp), resp[i].seq = s
          PROVE  \E k \in 1 .. Len(resp') : resp'[k].seq = s
      <4>1. i - 1 \in 1 .. Len(resp') /\ (i - 1) + 1 = i
        BY <1>2, <3>1, <3>2
      <4>2. resp'[i - 1] = resp[i]
        BY <1>2, <4>1
      <4> QED  BY <3>2, <4>1, <4>2
    <3> QED  BY <1>5, <2>3, <3>1, <3>2 DEF OnItsWay
  <2> QED  BY <2>4, <2>5, <2>6
<1> QED  BY <1>6, <1>7, <1>8, <1>9, <1>10, <1>11, <1>12, <1>13, InvNext

(* The datagram whose turn it is is delivered: what the replay connection  *)
(* carries and the other datagrams lie beyond it.                          *)
LEMMA NextFrameInv == ASSUME IndInv, NextFrame PROVE IndInv'
<1> DEFINE f == buffers[it]
           Turn == f.first = nextOrdered /\ Count(f) <= InboxFree
<1>1. /\ it \in 1 .. Len(buffers) /\ Len(buffers) \in Nat
      /\ \A b \in 1 .. Len(buffers) :
           /\ buffers[b].first \in Nat /\ buffers[b].last \in Nat
           /\ buffers[b].first <= buffers[b].last /\ buffers[b].last < nextExpected
           /\ \A j \in 1 .. Len(buffers) : b < j => buffers[b].last < buffers[j].first
  <2>1. buffers \in Seq(Frame) /\ it \in Nat \ {0}
    BY InvParts DEF ClientType
  <2>2. it \in 1 .. Len(buffers) /\ \A b \in 1 .. Len(buffers) : buffers[b] \in Frame
    BY <2>1 DEF NextFrame
  <2>3. \A b \in 1 .. Len(buffers) : buffers[b].first \in Nat /\ buffers[b].last \in Nat
    BY <2>2 DEF Frame
  <2> QED  BY <2>1, <2>2, <2>3, InvParts DEF FramesSorted
<1>2. nextExpected \in Nat /\ nextOrdered \in Nat /\ nextOrdered <= nextExpected
  BY InvParts DEF ClientType, InOrder
<1>3. UNCHANGED <<server, requests, responses, good, erase, pending, buffers, nextExpected, taken>>
  BY DEF NextFrame
<1>4. \/ Turn /\ delivered' = delivered \o Run(f.first, Count(f))
              /\ nextOrdered' = nextOrdered + Count(f)
      \/ UNCHANGED <<delivered, nextOrdered>>
  BY DEF NextFrame
<1>5. /\ it' \in Nat \ {0}
      /\ cpc' \in {"read", "request", "unpack", "responses", "frames", "gone"}
      /\ (cpc' # "request" => pending = {})
  BY <1>1, InvParts DEF NextFrame, Datagrams
<1> HIDE DEF f, Turn
<1>6. ServerType' /\ PipeType' /\ FlagType'
  BY <1>3, InvParts DEF ServerType, PipeType, FlagType
<1>7. Indices' /\ Marks' /\ InProgress'
  BY <1>3, InvParts DEF Indices, Marks, InProgress, Handed
<1>8. Datagrams'
  BY <1>3, <1>5, InvParts DEF Datagrams
<1>9. FramesSorted' /\ RequestsSorted' /\ ResponsesKnown'
  BY <1>3, InvParts DEF FramesSorted, RequestsSorted, ResponsesKnown
<1>10. CASE UNCHANGED <<delivered, nextOrdered>>
  <2>1. ClientType' /\ InboxType'
    BY <1>3, <1>5, <1>10, InvParts DEF ClientType, InboxType
  <2> QED  BY <1>3, <1>6, <1>7, <1>8, <1>10, <2>1, Kept, InvNext
<1>11. CASE Turn /\ delivered' = delivered \o Run(f.first, Count(f))
                 /\ nextOrdered' = nextOrdered + Count(f)
  <2>1. /\ f.first = nextOrdered /\ f.last \in Nat /\ nextOrdered <= f.last
        /\ Count(f) \in Nat /\ nextOrdered' \in Nat /\ nextOrdered' = f.last + 1 /\ nextOrdered' <= nextExpected
    <3>1. /\ f.first = nextOrdered /\ f.first \in Nat /\ f.last \in Nat
          /\ f.first <= f.last /\ f.last < nextExpected
      BY <1>1, <1>11 DEF f, Turn
    <3>2. Count(f) \in Nat /\ nextOrdered + Count(f) = f.last + 1
      BY <1>2, <3>1 DEF Count
    <3> QED  BY <1>2, <1>11, <3>1, <3>2
  <2>2. InOrder' /\ InboxType'
    <3>1. delivered = Run(0, nextOrdered)
      BY InvParts DEF InOrder
    <3>2. delivered' = Run(0, nextOrdered')
      BY <1>2, <1>11, <2>1, <3>1, RunConcat
    <3>3. /\ delivered' \in Seq(Nat) /\ Len(delivered') = nextOrdered'
          /\ Len(delivered) = nextOrdered
      BY <1>2, <2>1, <3>1, <3>2, RunSeq
    <3>4. taken' \in 0 .. Len(delivered')
      BY <1>2, <1>3, <2>1, <3>3, InvParts DEF InboxType
    <3> QED  BY <1>3, <2>1, <3>2, <3>3, <3>4 DEF InOrder, InboxType
  <2>3. ClientType'
    BY <1>3, <1>5, <2>1, InvParts DEF ClientType
  <2>4. Paths'
    <3> SUFFICES ASSUME ~Refused' PROVE PipeSorted' /\ FramesApart' /\ Covered'
      BY DEF Paths
    <3>1. PipeSorted /\ FramesApart /\ Covered
      BY <1>3, InvParts DEF Refused, Paths
    <3>2. /\ Queued' = Queued
          /\ \A j \in Queued : /\ req[j].begin \in Nat /\ req[j].end \in Nat
                               /\ req[j].begin < req[j].end
          /\ \A i \in 1 .. Len(resp) : resp[i].seq \in Nat
          /\ spc = "replay" => cursor.next \in Nat /\ cursor.end \in Nat
      <4>1. /\ \A j \in 1 .. Len(req) : req[j] \in Request
            /\ \A i \in 1 .. Len(resp) : resp[i] \in Response
            /\ Len(req) \in Nat
        BY InvParts DEF PipeType
      <4>2. \A j \in Queued : j \in 1 .. Len(req)
        BY <4>1 DEF Queued
      <4>3. \A j \in Queued : req[j].begin < req[j].end
        BY <4>2, InvParts DEF RequestsSorted
      <4> QED
        BY <1>3, <4>1, <4>2, <4>3, InvParts DEF Queued, Request, Response, ServerType
    <3>3. PipeSorted'
      <4>1. ASSUME NEW i \in 1 .. Len(resp) PROVE f.last + 1 <= resp[i].seq
        <5>1. /\ resp[i].seq < f.first \/ f.last < resp[i].seq
              /\ nextOrdered <= resp[i].seq
          BY <1>1, <3>1 DEF f, FramesApart, PipeSorted
        <5> QED  BY <1>2, <2>1, <3>2, <5>1
      <4>2. ASSUME NEW j \in Queued PROVE f.last + 1 <= req[j].begin
        <5>1. /\ req[j].end <= f.first \/ f.last < req[j].begin
              /\ nextOrdered <= req[j].begin
          BY <1>1, <3>1 DEF f, FramesApart, PipeSorted
        <5> QED  BY <1>2, <2>1, <3>2, <5>1
      <4>3. ASSUME spc = "replay", cursor.next < cursor.end PROVE f.last + 1 <= cursor.next
        <5>1. /\ cursor.end <= f.first \/ f.last < cursor.next
              /\ nextOrdered <= cursor.next
          BY <1>1, <3>1, <4>3 DEF f, FramesApart, PipeSorted
        <5> QED  BY <1>2, <2>1, <3>2, <4>3, <5>1
      <4> QED  BY <1>3, <2>1, <3>1, <3>2, <4>1, <4>2, <4>3 DEF PipeSorted
    <3>4. FramesApart'
      <4>1. ASSUME NEW b \in 1 .. Len(buffers)
            PROVE  buffers[b].last < f.last + 1 \/ f.last + 1 <= buffers[b].first
        <5>1. CASE b < it
          <6>1. buffers[b].last < f.first /\ buffers[b].last \in Nat
            BY <1>1, <5>1 DEF f
          <6> QED  BY <1>2, <2>1, <6>1
        <5>2. CASE b = it
          BY <2>1, <5>2 DEF f
        <5>3. CASE it < b
          <6>1. f.last < buffers[b].first /\ buffers[b].first \in Nat
            BY <1>1, <5>3 DEF f
          <6> QED  BY <2>1, <6>1
        <5> QED  BY <1>1, <5>1, <5>2, <5>3
      <4> QED  BY <1>3, <2>1, <3>1, <3>2, <4>1 DEF FramesApart
    <3>5. Covered'
      <4> SUFFICES ASSUME NEW s \in Interval(nextOrdered', nextExpected) PROVE OnItsWay(s)'
        BY <1>3 DEF Covered
      <4>1. s \in Interval(nextOrdered, nextExpected)
        BY <1>2, <2>1 DEF Interval
      <4>2. OnItsWay(s)
        BY <3>1, <4>1 DEF Covered
      <4> QED  BY <1>3, <3>2, <4>2 DEF OnItsWay
    <3> QED  BY <3>3, <3>4, <3>5
  <2> QED  BY <1>6, <1>7, <1>8, <1>9, <2>2, <2>3, <2>4, InvNext
<1> QED  BY <1>4, <1>10, <1>11

(* A datagram that leaves has been delivered whole.                        *)
LEMMA DropFrameInv == ASSUME IndInv, DropFrame PROVE IndInv'
<1>1. /\ buffers \in Seq(Frame) /\ Len(buffers) > 0
      /\ nextExpected \in Nat /\ nextOrdered \in Nat
  BY InvParts DEF DropFrame, ClientType
<1>2. /\ buffers' \in Seq(Frame) /\ Len(buffers) \in Nat /\ Len(buffers') = Len(buffers) - 1
      /\ \A b \in 1 .. Len(buffers') : buffers'[b] = buffers[b + 1] /\ b + 1 \in 1 .. Len(buffers)
      /\ \A b \in 1 .. Len(buffers) : buffers[b] \in Frame
      /\ buffers[1].first < nextOrdered
  BY <1>1, TailAt DEF DropFrame
<1>3. UNCHANGED <<spc, cursor, req, resp, nextExpected, nextOrdered, delivered>>
  BY DEF DropFrame
<1>4. ServerType' /\ PipeType' /\ FlagType' /\ InboxType'
  BY InvParts DEF DropFrame, ServerType, PipeType, FlagType, InboxType
<1>5. ClientType'
  BY <1>2, InvParts DEF DropFrame, ClientType
<1>6. Indices' /\ Marks' /\ Datagrams' /\ InProgress'
  BY InvParts DEF DropFrame, Indices, Marks, Datagrams, InProgress, Handed
<1>7. RequestsSorted' /\ ResponsesKnown' /\ InOrder'
  BY <1>3, InvParts DEF RequestsSorted, ResponsesKnown, InOrder
<1>8. FramesSorted'
  <2> SUFFICES ASSUME NEW i \in 1 .. Len(buffers')
               PROVE  /\ buffers'[i].first <= buffers'[i].last
                      /\ buffers'[i].last < nextExpected
                      /\ \A j \in 1 .. Len(buffers') :
                           i < j => buffers'[i].last < buffers'[j].first
    BY <1>3 DEF FramesSorted
  <2>1. \A j \in 1 .. Len(buffers') : i < j => i + 1 < j + 1
    BY <1>2
  <2> QED  BY <1>2, <2>1, InvParts DEF FramesSorted
<1>9. Paths'
  <2> SUFFICES ASSUME ~Refused' PROVE PipeSorted' /\ FramesApart' /\ Covered'
    BY DEF Paths
  <2>1. PipeSorted /\ FramesApart /\ Covered
    BY <1>3, InvParts DEF Refused, Paths
  <2>2. Queued' = Queued
    BY <1>3 DEF Queued
  <2>3. PipeSorted'
    BY <1>3, <2>1, <2>2 DEF PipeSorted
  <2>4. FramesApart'
    BY <1>2, <1>3, <2>1, <2>2 DEF FramesApart
  <2>5. Covered'
    <3> SUFFICES ASSUME NEW s \in Interval(nextOrdered, nextExpected) PROVE OnItsWay(s)'
      BY <1>3 DEF Covered
    <3>1. OnItsWay(s)
      BY <2>1 DEF Covered
    <3>2. buffers[1].last < nextOrdered
      <4>1. 1 \in 1 .. Len(buffers) /\ buffers[1] \in Frame
        BY <1>1, <1>2
      <4>2. buffers[1].last < nextOrdered \/ nextOrdered <= buffers[1].first
        BY <2>1, <4>1 DEF FramesApart
      <4> QED  BY <1>1, <1>2, <4>1, <4>2 DEF Frame
    <3>3. ASSUME NEW b \in 1 .. Len(buffers), buffers[b].first <= s, s <= buffers[b].last
          PROVE  \E c \in 1 .. Len(buffers') : buffers'[c].first <= s /\ s <= buffers'[c].last
      <4>1. b # 1
        BY <1>1, <1>2, <3>2, <3>3 DEF Frame, Interval
      <4>2. b - 1 \in 1 .. Len(buffers') /\ (b - 1) + 1 = b
        BY <1>2, <4>1
      <4>3. buffers'[b - 1] = buffers[b]
        BY <1>2, <4>2
      <4> QED  BY <3>3, <4>2, <4>3
    <3> QED  BY <1>3, <2>2, <3>1, <3>3 DEF OnItsWay
  <2> QED  BY <2>3, <2>4, <2>5
<1> QED  BY <1>4, <1>5, <1>6, <1>7, <1>8, <1>9, InvNext

LEMMA StutterInv == ASSUME IndInv, UNCHANGED vars PROVE IndInv'
<1> USE InvParts
<1>1. ServerType' /\ PipeType' /\ ClientType' /\ FlagType' /\ InboxType'
  BY DEF ServerType, PipeType, ClientType, FlagType, InboxType
<1>2. Indices' /\ Marks' /\ Datagrams' /\ InProgress'
  BY DEF Indices, Marks, Datagrams, InProgress, Handed
<1> QED  BY <1>1, <1>2, Kept, InvNext

(* Every step of every thread keeps the invariant.                         *)
LEMMA NextInv == IndInv /\ [Next]_vars => IndInv'
<1> SUFFICES ASSUME IndInv, [Next]_vars PROVE IndInv'
  OBVIOUS
<1>1. CASE AsyncSend \/ Accept \/ WriteRequest \/ Take
  BY <1>1, AsyncSendInv, LinkInv, WriteRequestInv, TakeInv
<1>2. CASE ServerWrite
  BY <1>2, HandOverInv, PackInv, MulticastInv, WriteResponseInv DEF ServerWrite
<1>3. CASE ServerRead
  BY <1>3, LinkInv, PollInv, RefuseInv, StartReplayInv, ReplayOneInv, EndReplayInv, TrimInv
     DEF ServerRead
<1>4. CASE ClientRead
  BY <1>4, ReadFailsInv, ReadNothingInv, ReadFrameInv, ReadGapInv, RequestReplayInv, UnpackInv,
     PopReplayedInv, GiveUpInv, EndResponsesInv, NextFrameInv, DropFrameInv, EndDropInv
     DEF ClientRead
<1>5. CASE UNCHANGED vars
  BY <1>5, StutterInv
<1> QED  BY <1>1, <1>2, <1>3, <1>4, <1>5 DEF Next

(* The inductive invariant holds in every reachable state.                 *)
THEOREM Invariance == Spec => []IndInv
<1> QED  BY InitInv, NextInv, PTL DEF Spec

(* The application receives 0, 1, 2, ... without gap or repetition: what   *)
(* NextFrame and PopReplayed push into inbox_msg is always the next number.*)
THEOREM DeliveredInOrder == Spec => []InOrder
<1>1. IndInv => InOrder
  BY InvParts
<1> QED  BY <1>1, Invariance, PTL

(* No message falls between the datagrams the client holds and the replay  *)
(* connection, unless the server refused one for good.                     *)
THEOREM NoMessageLost == Spec => []GapsCovered
<1>1. IndInv => GapsCovered
  <2> SUFFICES ASSUME IndInv, ~Refused, NEW s \in Interval(nextOrdered, nextExpected)
               PROVE  s \in Buffered \cup Replaying
    BY DEF GapsCovered
  <2>1. OnItsWay(s) /\ s \in Int
    BY InvParts DEF Paths, Covered, Interval, ClientType
  <2>2. ASSUME NEW b \in 1 .. Len(buffers), buffers[b].first <= s, s <= buffers[b].last
        PROVE  s \in Buffered
    <3>1. buffers[b] \in Frame
      BY InvParts DEF ClientType
    <3>2. s \in Interval(buffers[b].first, buffers[b].last + 1)
      BY <2>1, <2>2, <3>1 DEF Frame, Interval
    <3> QED  BY <3>2 DEF Buffered
  <2>3. ASSUME NEW i \in 1 .. Len(resp), resp[i].seq = s
        PROVE  s \in Replaying
    <3>1. resp[i].status = 0
      BY DEF Refused
    <3> QED  BY <2>3, <3>1 DEF Replaying
  <2>4. ASSUME NEW j \in Queued, req[j].begin <= s, s < req[j].end
        PROVE  s \in Replaying
    <3>1. req[j] \in Request
      BY InvParts DEF PipeType, Queued
    <3>2. s \in Interval(req[j].begin, req[j].end)
      BY <2>1, <2>4, <3>1 DEF Request, Interval
    <3> QED  BY <3>2 DEF Replaying
  <2>5. ASSUME spc = "replay", cursor.next <= s, s < cursor.end
        PROVE  s \in Replaying
    <3>1. s \in Interval(cursor.next, cursor.end)
      BY <2>1, <2>5, InvParts DEF ServerType, Interval
    <3> QED  BY <2>5, <3>1 DEF Replaying
  <2> QED  BY <2>1, <2>2, <2>3, <2>4, <2>5 DEF OnItsWay
<1> QED  BY <1>1, Invariance, PTL

(* A response ahead of its turn waits for a datagram the client holds:     *)
(* what precedes it cannot be behind it in the replay connection.          *)
THEOREM NeverWaitsInVain == Spec => []HeadHasItsTurn
<1>1. IndInv => HeadHasItsTurn
  <2> SUFFICES ASSUME IndInv, ~Refused, respHere > 0, Head(resp).seq # nextOrdered
               PROVE  \E i \in 1 .. Len(buffers) : buffers[i].first = nextOrdered
    BY DEF HeadHasItsTurn
  <2>1. /\ Len(resp) \in Nat /\ Len(resp) > 0 /\ Head(resp) = resp[1]
        /\ \A i \in 1 .. Len(resp) : resp[i] \in Response
    BY InvParts DEF PipeType, Marks
  <2>2. /\ nextOrdered \in Nat /\ nextExpected \in Nat
        /\ \A i \in 1 .. Len(resp) : resp[i].seq \in Nat /\ resp[i].status = 0
    BY <2>1, InvParts DEF ClientType, Response, Refused
  <2>3. PipeSorted /\ FramesApart /\ Covered
    BY InvParts DEF Paths
  <2>4. /\ nextOrdered < resp[1].seq /\ resp[1].seq < nextExpected
        /\ \A i \in 1 .. Len(resp) : nextOrdered < resp[i].seq
    <3>1. nextOrdered < resp[1].seq /\ resp[1].seq < nextExpected
      BY <2>1, <2>2, <2>3, InvParts DEF PipeSorted, ResponsesKnown
    <3>2. \A i \in 1 .. Len(resp) : 1 < i => resp[1].seq < resp[i].seq
      BY <2>1, <2>3 DEF PipeSorted
    <3> QED  BY <2>1, <2>2, <3>1, <3>2
  <2>5. OnItsWay(nextOrdered)
    <3>1. nextOrdered \in Interval(nextOrdered, nextExpected)
      BY <2>1, <2>2, <2>4 DEF Interval
    <3> QED  BY <2>3, <3>1 DEF Covered
  <2>6. ~ \E i \in 1 .. Len(resp) : resp[i].seq = nextOrdered
    BY <2>2, <2>4
  <2>7. ASSUME NEW j \in Queued PROVE nextOrdered < req[j].begin
    <3>1. req[j] \in Request
      BY InvParts DEF PipeType, Queued
    <3>2. resp[1].seq < req[j].begin
      BY <2>1, <2>3 DEF PipeSorted
    <3> QED  BY <2>1, <2>2, <2>4, <3>1, <3>2 DEF Request
  <2>8. spc = "replay" => nextOrdered < cursor.next
    <3>1. spc = "replay" => resp[1].seq < cursor.next
      BY <2>1, <2>3 DEF PipeSorted
    <3> QED  BY <2>1, <2>2, <2>4, <3>1, InvParts DEF ServerType
  <2>9. PICK b \in 1 .. Len(buffers) :
               buffers[b].first <= nextOrdered /\ nextOrdered <= buffers[b].last
    <3>1. ASSUME NEW j \in Queued PROVE ~(req[j].begin <= nextOrdered)
      <4>1. req[j] \in Request
        BY InvParts DEF PipeType, Queued
      <4> QED  BY <2>2, <2>7, <4>1 DEF Request
    <3>2. ~(spc = "replay" /\ cursor.next <= nextOrdered)
      BY <2>2, <2>8, InvParts DEF ServerType
    <3> QED  BY <2>5, <2>6, <3>1, <3>2 DEF OnItsWay
  <2>10. buffers[b] \in Frame
    BY InvParts DEF ClientType
  <2> QED  BY <2>2, <2>3, <2>9, <2>10 DEF FramesApart, Frame
<1> QED  BY <1>1, Invariance, PTL

-----------------------------------------------------------------------------
(* A message is lost to the client when it misses it, the server has it no *)
(* more, and it is neither held nor on the replay connection.              *)
Lost(s) ==
  /\ s \in Nat /\ nextOrdered <= s /\ s < nextExpected /\ s < front
  /\ \A b \in 1 .. Len(buffers) : ~(buffers[b].first <= s /\ s <= buffers[b].last)
  /\ \A i \in 1 .. Len(resp) : resp[i].status = 0 => resp[i].seq # s
  /\ \A j \in Queued : ~(req[j].begin <= s /\ s < req[j].end)
  /\ spc = "replay" => ~(cursor.next <= s /\ s < cursor.end)
RefusedForLost == Refused => \E s : Lost(s)

(* The first refusal is of a request whose first message is lost: what is  *)
(* asked for is nowhere else.                                              *)
LEMMA RefusalLoses ==
  ASSUME IndInv, ~Refused, Refuse
  PROVE  \E s : Lost(s)'
<1> DEFINE s == req[1].begin
<1>1. /\ Len(req) \in Nat /\ Len(req) > 0 /\ Len(req') = Len(req) - 1
      /\ \A j \in 1 .. Len(req') : req'[j] = req[j + 1] /\ req[j + 1] \in Request
      /\ Head(req) = req[1] /\ req[1] \in Request
  BY PopRequestKeeps, InvParts DEF Refuse, PipeType
<1>2. /\ s \in Nat /\ req[1].end \in Nat /\ s < req[1].end
      /\ {front, back, nextOrdered, nextExpected} \subseteq Nat
      /\ req[1].end < nextExpected /\ req[1].end < back
  <2>1. s \in Nat /\ req[1].end \in Nat /\ {front, back, nextOrdered, nextExpected} \subseteq Nat
    BY <1>1, InvParts DEF Request, ServerType, ClientType
  <2>2. s < req[1].end /\ req[1].end < nextExpected
    BY <1>1, InvParts DEF RequestsSorted
  <2>3. nextExpected <= mcFront /\ mcFront <= sentIt /\ sentIt <= back
    BY InvParts DEF Datagrams, Indices, Handed, ServerType
  <2> QED  BY <2>1, <2>2, <2>3, InvParts DEF ServerType
<1>3. s < front
  <2>1. \/ TooOld(s) \/ TooOld(req[1].end)
        \/ TooNew(s) \/ TooNew(req[1].end)
    BY <1>1 DEF Refuse
  <2> QED  BY <1>2, <2>1 DEF TooOld, TooNew
<1>4. /\ spc = "handle" /\ spc' = "trim" /\ Queued = 1 .. Len(req) /\ Queued' = 1 .. Len(req')
      /\ UNCHANGED <<front, buffers, nextOrdered, nextExpected>>
  BY <1>1 DEF Refuse, Queued
<1>5. PipeSorted /\ FramesApart
  BY InvParts DEF Paths
<1>6. 1 \in Queued /\ nextOrdered <= s
  BY <1>1, <1>4, <1>5 DEF PipeSorted
<1>7. ASSUME NEW b \in 1 .. Len(buffers) PROVE ~(buffers[b].first <= s /\ s <= buffers[b].last)
  <2>1. buffers[b] \in Frame
    BY InvParts DEF ClientType
  <2>2. req[1].end <= buffers[b].first \/ buffers[b].last < s
    BY <1>5, <1>6 DEF FramesApart
  <2> QED  BY <1>2, <2>1, <2>2 DEF Frame
<1>8. ASSUME NEW i \in 1 .. Len(resp'), resp'[i].status = 0 PROVE resp'[i].seq # s
  <2>1. /\ resp \in Seq(Response) /\ Len(resp) \in Nat
        /\ \A k \in 1 .. Len(resp) : resp[k] \in Response /\ resp[k].seq < s
    BY <1>5, <1>6, InvParts DEF PipeType, PipeSorted
  <2>2. PICK e \in Response : e.status # 0 /\ resp' = Append(resp, e)
    BY <1>1, <1>2 DEF Refuse, Response
  <2>3. i \in 1 .. Len(resp) /\ resp'[i] = resp[i]
    BY <1>8, <2>1, <2>2, AppendAt
  <2> QED  BY <1>2, <2>1, <2>3 DEF Response
<1>9. ASSUME NEW j \in Queued' PROVE ~(req'[j].begin <= s)
  <2>1. j + 1 \in 1 .. Len(req) /\ 1 < j + 1 /\ req'[j] = req[j + 1] /\ req[j + 1] \in Request
    BY <1>1, <1>4
  <2>2. req[1].end <= req[j + 1].begin
    BY <1>1, <2>1, InvParts DEF RequestsSorted
  <2> QED  BY <1>2, <2>1, <2>2 DEF Request
<1>10. \A x : x = s => Lost(x)'
  BY <1>2, <1>3, <1>4, <1>6, <1>7, <1>8, <1>9 DEF Lost
<1> QED  BY <1>10

(* A message once lost stays so: nothing brings it back, and the client    *)
(* delivers nothing beyond it.                                             *)
LEMMA LostStays ==
  ASSUME IndInv, [Next]_vars, NEW s, Lost(s)
  PROVE  Lost(s)'
<1>1. /\ s \in Nat /\ {front, nextOrdered, nextExpected} \subseteq Nat
      /\ nextOrdered <= s /\ s < nextExpected /\ s < front
      /\ Len(resp) \in Nat /\ Len(req) \in Nat /\ Len(buffers) \in Nat
      /\ resp \in Seq(Response) /\ req \in Seq(Request) /\ buffers \in Seq(Frame)
  BY InvParts DEF Lost, ServerType, ClientType, PipeType
<1>2. CASE UNCHANGED <<nextOrdered, nextExpected, buffers, resp, req, cursor>>
           /\ front <= front' /\ front' \in Nat /\ (spc = "replay" <=> spc' = "replay")
  <2>1. Queued' = Queued
    BY <1>2 DEF Queued
  <2> QED  BY <1>1, <1>2, <2>1 DEF Lost
<1>3. CASE StartReplay
  <2>1. /\ Len(req) > 0 /\ Head(req) = req[1] /\ spc = "handle" /\ spc' = "replay"
        /\ cursor'.next = req[1].begin /\ cursor'.end = req[1].end
        /\ UNCHANGED <<front, nextOrdered, nextExpected, buffers, resp, req>>
    BY <1>1, <1>3, InvParts DEF StartReplay, Marks, PipeType
  <2>2. 1 \in Queued /\ \A j \in Queued' : j \in Queued
    BY <1>1, <2>1 DEF Queued
  <2> QED  BY <1>1, <2>1, <2>2 DEF Lost
<1>4. CASE ReplayOne
  <2>1. /\ spc = "replay" /\ cursor.next # cursor.end /\ cursor.next <= cursor.end
        /\ {cursor.next, cursor.end} \subseteq Nat
        /\ UNCHANGED <<front, nextOrdered, nextExpected, buffers, req, spc>>
        /\ cursor'.next = cursor.next + 1 /\ cursor'.end = cursor.end
        /\ resp' = Append(resp, [status |-> 0, seq |-> cursor.next])
    BY <1>4, InvParts DEF ReplayOne, InProgress, ServerType
  <2>2. cursor.next # s /\ Queued' = Queued
    BY <1>1, <2>1 DEF Lost, Queued
  <2>3. ASSUME NEW i \in 1 .. Len(resp') PROVE resp'[i].seq # s \/ (i \in 1 .. Len(resp) /\ resp'[i] = resp[i])
    <3> DEFINE e == [status |-> 0, seq |-> cursor.next]
    <3>1. e \in Response /\ e.seq # s
      BY <2>1, <2>2 DEF Response
    <3> HIDE DEF e
    <3>2. resp' = Append(resp, e)
      BY <2>1 DEF e
    <3> QED  BY <1>1, <3>1, <3>2, AppendAt
  <2> QED  BY <1>1, <2>1, <2>2, <2>3 DEF Lost
<1>5. CASE EndReplay \/ Refuse
  <2>1. /\ Len(req) > 0 /\ Len(req') = Len(req) - 1 /\ spc' = "trim"
        /\ \A j \in 1 .. Len(req') : req'[j] = req[j + 1]
        /\ UNCHANGED <<front, nextOrdered, nextExpected, buffers, cursor>>
    BY <1>5, PopRequestKeeps DEF EndReplay, Refuse
  <2>2. ASSUME NEW j \in Queued' PROVE j + 1 \in Queued /\ req'[j] = req[j + 1]
    <3>1. Queued' = 1 .. Len(req')
      BY <2>1 DEF Queued
    <3>2. j \in 1 .. Len(req') /\ j + 1 \in 2 .. Len(req) /\ j + 1 \in 1 .. Len(req)
      BY <1>1, <2>1, <3>1
    <3> QED  BY <2>1, <3>2 DEF Queued
  <2>3. ASSUME NEW i \in 1 .. Len(resp'), resp'[i].status = 0
        PROVE  i \in 1 .. Len(resp) /\ resp'[i] = resp[i]
    <3>1. CASE EndReplay
      BY <1>1, <2>3, <3>1 DEF EndReplay
    <3>2. CASE Refuse
      <4>1. Head(req) \in Request
        BY <1>1, <2>1
      <4>2. PICK e \in Response : e.status # 0 /\ resp' = Append(resp, e)
        BY <3>2, <4>1 DEF Refuse, Request, Response
      <4> QED  BY <1>1, <2>3, <4>2, AppendAt
    <3> QED  BY <1>5, <3>1, <3>2
  <2> QED  BY <1>1, <2>1, <2>2, <2>3 DEF Lost
<1>6. CASE PopReplayed
  <2>1. /\ Len(resp) > 0 /\ resp' = Tail(resp) /\ Head(resp) = resp[1] /\ resp[1].status = 0
        /\ UNCHANGED <<front, nextExpected, buffers, req, cursor, spc>>
        /\ \/ (resp[1].seq = nextOrdered /\ nextOrdered' = nextOrdered + 1)
           \/ nextOrdered' = nextOrdered
    <3>1. Len(resp) > 0 /\ resp' = Tail(resp)
      BY <1>1, <1>6, InvParts DEF PopReplayed, Marks, PipeType
    <3>2. Head(resp) = resp[1]
      BY <1>1, <3>1
    <3> QED  BY <1>6, <3>1, <3>2 DEF PopReplayed
  <2>2. resp[1].seq # s /\ Queued' = Queued
    BY <1>1, <2>1 DEF Lost, Queued
  <2>3. \A i \in 1 .. Len(resp') : resp'[i] = resp[i + 1] /\ i + 1 \in 1 .. Len(resp)
    BY <1>1, <2>1, TailAt
  <2> QED  BY <1>1, <2>1, <2>2, <2>3 DEF Lost
<1>7. CASE NextFrame
  <2> DEFINE f == buffers[it]
  <2>1. /\ UNCHANGED <<front, nextExpected, buffers, req, resp, cursor, spc>> /\ it \in 1 .. Len(buffers)
        /\ \/ (f.first = nextOrdered /\ nextOrdered' = nextOrdered + Count(f))
           \/ nextOrdered' = nextOrdered
    BY <1>1, <1>7, InvParts DEF NextFrame, ClientType
  <2>2. f \in Frame /\ ~(f.first <= s /\ s <= f.last) /\ f.first <= f.last
    BY <1>1, <2>1, InvParts DEF Lost, FramesSorted
  <2>3. nextOrdered' <= s /\ nextOrdered' \in Nat
    BY <1>1, <2>1, <2>2 DEF Frame, Count
  <2>4. Queued' = Queued
    BY <2>1 DEF Queued
  <2> QED  BY <1>1, <2>1, <2>3, <2>4 DEF Lost
<1>8. CASE DropFrame
  <2>1. /\ UNCHANGED <<front, nextOrdered, nextExpected, req, resp, cursor, spc>>
        /\ Len(buffers) > 0 /\ buffers' = Tail(buffers)
    BY <1>1, <1>8 DEF DropFrame
  <2>2. \A b \in 1 .. Len(buffers') : buffers'[b] = buffers[b + 1] /\ b + 1 \in 1 .. Len(buffers)
    BY <1>1, <2>1, TailAt
  <2>3. Queued' = Queued
    BY <2>1 DEF Queued
  <2> QED  BY <1>1, <2>1, <2>2, <2>3 DEF Lost
<1>9. ASSUME NEW f \in Frame, nextExpected <= f.first, f.first <= f.last,
             buffers' = Append(buffers, f), nextExpected' = f.last + 1,
             \/ req' = req
             \/ req' = Append(req, [begin |-> nextExpected, end |-> f.first]),
             UNCHANGED <<front, nextOrdered, resp, cursor, spc>>
      PROVE  Lost(s)'
  <2>1. f.first \in Nat /\ f.last \in Nat /\ s < f.first
    BY <1>1, <1>9 DEF Frame
  <2>2. ASSUME NEW b \in 1 .. Len(buffers') PROVE ~(buffers'[b].first <= s /\ s <= buffers'[b].last)
    <3>1. (b \in 1 .. Len(buffers) /\ buffers'[b] = buffers[b]) \/ buffers'[b] = f
      BY <1>1, <1>9, AppendAt
    <3> QED  BY <1>1, <2>1, <3>1 DEF Lost
  <2>3. ASSUME NEW j \in Queued' PROVE ~(req'[j].begin <= s /\ s < req'[j].end)
    <3>1. (j \in Queued /\ req'[j] = req[j]) \/ req'[j].begin = nextExpected
      <4>1. CASE req' = req
        BY <1>9, <4>1 DEF Queued
      <4>2. CASE req' = Append(req, [begin |-> nextExpected, end |-> f.first])
        <5> DEFINE r == [begin |-> nextExpected, end |-> f.first]
        <5>1. r \in Request /\ r.begin = nextExpected
          BY <1>1, <2>1 DEF Request
        <5> HIDE DEF r
        <5>2. req' = Append(req, r)
          BY <4>2 DEF r
        <5>3. j \in 1 .. Len(req) + 1 /\ (spc = "replay" => j \in 2 .. Len(req) + 1)
          BY <1>1, <1>9, <5>1, <5>2, AppendAt DEF Queued
        <5>4. j \in Queued \/ j = Len(req) + 1
          BY <1>1, <5>3 DEF Queued
        <5>5. j \in Queued => j \in 1 .. Len(req)
          BY <1>1 DEF Queued
        <5> QED  BY <1>1, <5>1, <5>2, <5>4, <5>5, AppendAt
      <4> QED  BY <1>9, <4>1, <4>2
    <3> QED  BY <1>1, <3>1 DEF Lost
  <2>4. s < nextExpected'
    BY <1>1, <1>9, <2>1
  <2> QED  BY <1>1, <1>9, <2>2, <2>3, <2>4 DEF Lost
<1>10. ASSUME NEW f \in net, ReadFrame(f) PROVE Lost(s)'
  <2>1. f \in Frame /\ f.first <= f.last
    BY InvParts DEF ServerType, Datagrams
  <2> QED  BY <1>1, <1>9, <1>10, <2>1 DEF ReadFrame
<1>11. CASE RequestReplay
  <2>1. PICK f \in pending :
          /\ req' = Append(req, [begin |-> nextExpected, end |-> f.first])
          /\ nextExpected' = f.last + 1 /\ buffers' = Append(buffers, f)
    BY <1>11 DEF RequestReplay
  <2>2. f \in Frame /\ f.first <= f.last /\ nextExpected < f.first
    BY InvParts DEF ClientType, Datagrams
  <2>3. nextExpected <= f.first
    BY <1>1, <2>2 DEF Frame
  <2> QED  BY <1>1, <1>9, <1>11, <2>1, <2>2, <2>3 DEF RequestReplay
<1>12. CASE AsyncSend \/ Accept \/ WriteRequest \/ Take \/ UNCHANGED vars
  BY <1>1, <1>2, <1>12 DEF AsyncSend, Accept, WriteRequest, Take
<1>13. CASE ServerWrite
  BY <1>1, <1>2, <1>13
     DEF ServerWrite, HandOver, Copy, Pack, Multicast, MulticastFails, WriteResponse
<1>14. CASE ServerRead
  <2>1. CASE DropClient \/ \E k \in 0 .. WireCap : Poll(k)
    BY <1>1, <1>2, <2>1 DEF DropClient, Poll
  <2>2. CASE Trim
    BY <1>1, <1>2, <2>2, SizeAssumption DEF Trim
  <2> QED  BY <1>3, <1>4, <1>5, <1>14, <2>1, <2>2 DEF ServerRead
<1>15. CASE ClientRead
  <2>1. CASE ReadFails \/ ReadNothing \/ \E f \in net : ReadGap(f)
    BY <1>1, <1>2, <2>1 DEF ReadFails, ReadNothing, ReadGap
  <2>2. CASE (\E k \in 0 .. WireCap : Unpack(k)) \/ GiveUp \/ EndResponses \/ EndDrop
    BY <1>1, <1>2, <2>2 DEF Unpack, GiveUp, EndResponses, EndDrop
  <2> QED  BY <1>6, <1>7, <1>8, <1>10, <1>11, <1>15, <2>1, <2>2 DEF ClientRead
<1> QED  BY <1>12, <1>13, <1>14, <1>15 DEF Next

LEMMA RefusedStep ==
  ASSUME IndInv, RefusedForLost, [Next]_vars
  PROVE  RefusedForLost'
<1>1. CASE Refused
  BY <1>1, LostStays DEF RefusedForLost
<1>2. CASE ~Refused
  <2>1. CASE Refuse
    BY <1>2, <2>1, RefusalLoses DEF RefusedForLost
  <2>2. CASE ReplayOne
    <3>1. /\ resp' = Append(resp, [status |-> 0, seq |-> cursor.next])
          /\ [status |-> 0, seq |-> cursor.next] \in Response /\ resp \in Seq(Response)
      BY <2>2, InvParts DEF ReplayOne, Response, PipeType, ServerType
    <3>2. \A i \in 1 .. Len(resp') : resp'[i].status = 0
      BY <1>2, <3>1 DEF Refused
    <3> QED  BY <3>2 DEF RefusedForLost, Refused
  <2>3. CASE PopReplayed
    <3>1. resp \in Seq(Response) /\ Len(resp) > 0 /\ resp' = Tail(resp)
      BY <2>3, InvParts DEF PopReplayed, PipeType, Marks
    <3>2. \A i \in 1 .. Len(resp') : resp'[i] = resp[i + 1] /\ i + 1 \in 1 .. Len(resp)
      BY <3>1, TailAt
    <3> QED  BY <1>2, <3>2 DEF RefusedForLost, Refused
  <2>4. CASE resp' = resp
    BY <1>2, <2>4 DEF RefusedForLost, Refused
  <2>5. Refuse \/ ReplayOne \/ PopReplayed \/ resp' = resp
    <3>1. CASE AsyncSend \/ Accept \/ WriteRequest \/ Take \/ UNCHANGED vars
      BY <3>1 DEF AsyncSend, Accept, WriteRequest, Take
    <3>2. CASE ServerWrite
      BY <3>2 DEF ServerWrite, HandOver, Copy, Pack, Multicast, MulticastFails, WriteResponse
    <3>3. CASE ServerRead
      BY <3>3 DEF ServerRead, DropClient, Poll, StartReplay, EndReplay, Trim
    <3>4. CASE ClientRead
      BY <3>4
         DEF ClientRead, ReadFails, ReadNothing, ReadFrame, ReadGap, RequestReplay, Unpack,
             GiveUp, EndResponses, NextFrame, DropFrame, EndDrop
    <3> QED  BY <3>1, <3>2, <3>3, <3>4 DEF Next
  <2> QED  BY <2>1, <2>2, <2>3, <2>4, <2>5
<1> QED  BY <1>1, <1>2

(* A client is turned away only for a message it misses, that the server   *)
(* has no more or never had, and that is on neither path to it.            *)
THEOREM TurnedAwayOnlyIfLost == Spec => []RefusedOnlyIfLost
<1>1. Init => RefusedForLost
  BY DEF Init, RefusedForLost, Refused
<1>2. IndInv /\ RefusedForLost /\ [Next]_vars => RefusedForLost'
  BY RefusedStep
<1>3. IndInv /\ RefusedForLost => RefusedOnlyIfLost
  <2> SUFFICES ASSUME IndInv, NEW s, Lost(s) PROVE s \in Missing /\ s < front
    BY DEF RefusedForLost, RefusedOnlyIfLost
  <2>1. s \in Interval(nextOrdered, nextExpected) /\ s < front
    BY InvParts DEF Lost, Interval, ClientType
  <2>2. s \notin Buffered
    <3>1. \A b \in 1 .. Len(buffers) : buffers[b] \in Frame
      BY InvParts DEF ClientType
    <3>2. \A b \in 1 .. Len(buffers) : s \notin Interval(buffers[b].first, buffers[b].last + 1)
      BY <3>1 DEF Lost, Frame, Interval
    <3> QED  BY <3>2 DEF Buffered
  <2>3. s \notin Replaying
    <3>1. ASSUME NEW j \in Queued PROVE s \notin Interval(req[j].begin, req[j].end)
      <4>1. req[j] \in Request
        BY InvParts DEF PipeType, Queued
      <4> QED  BY <4>1 DEF Lost, Request, Interval
    <3>2. spc = "replay" => s \notin Interval(cursor.next, cursor.end)
      BY InvParts DEF Lost, Interval, ServerType
    <3> QED  BY <3>1, <3>2 DEF Lost, Replaying
  <2> QED  BY <2>1, <2>2, <2>3 DEF Missing
<1> QED  BY <1>1, <1>2, <1>3, Invariance, PTL DEF Spec

-----------------------------------------------------------------------------
(* The steps the abstract delivery does not see.                           *)
LEMMA VisibleSteps ==
  ASSUME [Next]_vars
  PROVE  AsyncSend \/ PopReplayed \/ NextFrame \/ Take \/ UNCHANGED <<back, delivered, taken>>
<1>1. CASE Accept \/ WriteRequest \/ UNCHANGED vars
  BY <1>1 DEF Accept, WriteRequest
<1>2. CASE ServerWrite
  BY <1>2 DEF ServerWrite, HandOver, Copy, Pack, Multicast, MulticastFails, WriteResponse
<1>3. CASE ServerRead
  BY <1>3 DEF ServerRead, DropClient, Poll, Refuse, StartReplay, ReplayOne, EndReplay, Trim
<1>4. CASE ClientRead
  BY <1>4
     DEF ClientRead, ReadFails, ReadNothing, ReadFrame, ReadGap, RequestReplay, Unpack, GiveUp,
         EndResponses, DropFrame, EndDrop
<1> QED  BY <1>1, <1>2, <1>3, <1>4 DEF Next

(* A run of n messages that continues what has been delivered, and was     *)
(* sent, is one delivery of the abstract specification.                    *)
LEMMA DeliverStep ==
  ASSUME IndInv, IndInv', NEW n \in Nat \ {0}, UNCHANGED <<back, taken>>,
         delivered' = delivered \o Run(nextOrdered, n), nextOrdered' = nextOrdered + n
  PROVE  Delivery!Next
<1>1. /\ nextOrdered \in Nat /\ nextOrdered' \in Nat /\ back \in Nat /\ nextOrdered' <= back
  <2>1. /\ {nextOrdered, nextOrdered', nextExpected', mcFront', sentIt', back'} \subseteq Nat
        /\ back' = back /\ back \in Nat
    BY InvParts DEF IndInv, BaseInv, TypeOK
  <2>2. nextOrdered' <= nextExpected' /\ nextExpected' <= mcFront'
    BY DEF IndInv, BaseInv, InOrder, Datagrams
  <2>3. mcFront' <= sentIt' /\ sentIt' <= back'
    BY <2>1 DEF IndInv, BaseInv, Indices, Handed
  <2> QED  BY <2>1, <2>2, <2>3
<1>2. Len(delivered) = nextOrdered
  BY <1>1, RunSeq, InvParts DEF InOrder
<1>3. n \in 1 .. back
  BY <1>1
<1>4. Delivery!Deliver(n)
  BY <1>1, <1>2 DEF Delivery!Deliver, Run
<1> QED  BY <1>3, <1>4 DEF Delivery!Next

LEMMA DeliveryStep ==
  ASSUME IndInv, IndInv', [Next]_vars
  PROVE  [Delivery!Next]_<<back, delivered, taken>>
<1>1. CASE AsyncSend
  BY <1>1 DEF AsyncSend, Delivery!Next, Delivery!Send
<1>2. CASE PopReplayed
  <2>1. CASE Head(resp).seq = nextOrdered
    <3>1. delivered' = Append(delivered, nextOrdered) /\ nextOrdered' = nextOrdered + 1
      BY <1>2, <2>1 DEF PopReplayed
    <3>2. nextOrdered \in Nat /\ delivered \in Seq(Nat)
      BY InvParts DEF ClientType, InboxType
    <3>3. delivered' = delivered \o Run(nextOrdered, 1)
      BY <3>1, <3>2 DEF Run
    <3> QED  BY <1>2, <3>1, <3>3, DeliverStep DEF PopReplayed
  <2>2. CASE Head(resp).seq # nextOrdered
    BY <1>2, <2>2 DEF PopReplayed
  <2> QED  BY <2>1, <2>2
<1>3. CASE NextFrame
  <2> DEFINE f == buffers[it]
  <2>1. /\ UNCHANGED <<back, taken>>
        /\ \/ /\ f.first = nextOrdered
              /\ delivered' = delivered \o Run(f.first, Count(f))
              /\ nextOrdered' = nextOrdered + Count(f)
           \/ UNCHANGED delivered
    BY <1>3 DEF NextFrame
  <2>2. Count(f) \in Nat \ {0}
    <3>1. it \in 1 .. Len(buffers)
      BY <1>3, InvParts DEF NextFrame, ClientType
    <3>2. f.first \in Nat /\ f.last \in Nat /\ f.first <= f.last
      <4>1. f \in Frame
        BY <3>1, InvParts DEF ClientType
      <4> QED  BY <3>1, <4>1, InvParts DEF Frame, FramesSorted
    <3> QED  BY <3>2 DEF Count
  <2> HIDE DEF f
  <2> QED  BY <2>1, <2>2, DeliverStep
<1>4. CASE Take
  BY <1>4 DEF Take, Delivery!Next, Delivery!Take
<1>5. CASE UNCHANGED <<back, delivered, taken>>
  BY <1>5
<1> QED  BY <1>1, <1>2, <1>3, <1>4, <1>5, VisibleSteps

(* The whole protocol implements an ordered, lossless delivery: what is    *)
(* lost, repeated or reordered on the way is invisible to the application. *)
THEOREM DeliveryImplemented == Spec => RefinesDelivery
<1>1. Init => Delivery!Init
  BY DEF Init, Delivery!Init
<1>2. IndInv /\ IndInv' /\ [Next]_vars => [Delivery!Next]_<<back, delivered, taken>>
  BY DeliveryStep
<1> QED  BY <1>1, <1>2, Invariance, PTL DEF Spec, RefinesDelivery, Delivery!Spec

=============================================================================
