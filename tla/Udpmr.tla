-------------------------------- MODULE Udpmr --------------------------------
(***************************************************************************)
(* Reliable multicast: udpmr_server_msg sends numbered messages in UDP     *)
(* datagrams and keeps them for replay; udpmr_client_msg orders what it    *)
(* receives and asks for what it missed over a TCP connection.             *)
(*                                                                         *)
(* A message is its sequence number and a datagram the interval of those   *)
(* packed in it.  The rings between threads are atomic queues here         *)
(* (RingBuffer says why); a loop that may spin on one is a step per        *)
(* element, so that the other threads run between them.                    *)
(***************************************************************************)
EXTENDS Naturals, Sequences, FiniteSets

CONSTANTS
  Firsts,      \* the numbers the application may begin with
  MsgMax,      \* bound: it stops before this number
  HistoryCap,  \* capacity of the server's outbox_msg
  Chunk,       \* capacity / 1024, what one trim removes
  McastCap,    \* capacity of the multicast_server's outbox_msg
  FrameMax,    \* messages that fit one datagram
  TcpCap,      \* capacity of the replay peers' outbox_msg and inbox_msg
  WireCap,     \* messages in the byte rings and the socket between two of them
  FrameCap,    \* capacity of the client's buffers
  InboxCap,    \* capacity of the client's inbox_msg
  MayFail      \* whether sockets may fail

ASSUME BaseAssumption  == Firsts \subseteq Nat /\ MsgMax \in Nat
ASSUME SizeAssumption  ==
  /\ HistoryCap \in Nat \ {0} /\ Chunk \in Nat \ {0}
  /\ Chunk <= HistoryCap
  /\ McastCap \in Nat \ {0}   /\ FrameMax \in Nat \ {0}
  /\ TcpCap \in Nat \ {0}     /\ WireCap \in Nat \ {0}
  /\ FrameCap \in Nat \ {0}   /\ InboxCap \in Nat \ {0}
  /\ FrameMax <= InboxCap
ASSUME FailAssumption  == MayFail \in BOOLEAN

VARIABLES
  \* server: the application, write and read threads share outbox_msg
  front,      \* oldest message outbox_msg still holds
  back,       \* first message not yet sent by the application
  sentIt,     \* sent_it: first message not yet taken for multicast_server
  wpc,        \* what the write thread is doing with the multicast; "out" is
              \* when it has dropped the server
  mcFront,    \* first message multicast_server has not packed
  sendBuf,    \* send_buffer: at most one datagram
  link,       \* the client's connection: "none" yet, "open" when it is in
              \* replay_clients, "dropped"
  spc,        \* what the read thread is doing
  cursor,     \* it and end of the replay in progress
  \* network
  net,        \* datagrams multicast so far
  \* the replay connection, see below
  req, reqSent, reqHere,
  resp, respSent, respHere,
  \* client
  cpc,        \* what the read thread is doing
  good,       \* good()
  erase,      \* the last read() failed: loop_read drops the peer
  pending,    \* the datagram just read, while its gap is being requested
  buffers,    \* datagrams waiting for their turn
  it,         \* iterator over buffers
  nextExpected, nextOrdered,
  delivered,  \* everything pushed into inbox_msg, in order
  taken       \* how much of it the application has popped

history    == <<front, back>>
mcast      == <<sentIt, wpc, mcFront, sendBuf, net>>
serverRead == <<link, spc, cursor>>
requests   == <<req, reqSent, reqHere>>
responses  == <<resp, respSent, respHere>>
clientRead == <<cpc, good, erase, pending, buffers, it, nextExpected, nextOrdered>>
inbox      == <<delivered, taken>>
server == <<history, mcast, serverRead>>
vars   == <<server, requests, responses, clientRead, inbox>>

-----------------------------------------------------------------------------
Frame    == [first : Nat, last : Nat]
Request  == [begin : Nat, end : Nat]
\* status 0 carries message seq; otherwise the request cannot be honoured
\* and seq is available_begin.
Response == [status : 0 .. 2, seq : Nat]

Interval(a, b)  == a .. b - 1
Count(f)        == f.last - f.first + 1
Run(a, n)       == [i \in 1 .. n |-> a + (i - 1)]
Smaller(a, b)   == IF a < b THEN a ELSE b
InboxFree       == InboxCap - (Len(delivered) - taken)

(* Each direction of the replay connection is one queue with two marks.    *)
(* Of req, the first reqHere are in the server peer's inbox_msg, those up  *)
(* to reqSent are in byte rings or in the socket, and the rest is still in *)
(* the outbox_msg of replay_client; resp likewise, towards the client.     *)
ReqRoom  == Len(req) - reqSent < TcpCap
RespRoom == Len(resp) - respSent < TcpCap

Init ==
  /\ front \in Firsts /\ back = front /\ sentIt = front /\ mcFront = front
  /\ wpc = "pack" /\ sendBuf = {} /\ net = {}
  /\ link = "none" /\ spc = "poll" /\ cursor = [next |-> 0, end |-> 0]
  /\ req = <<>> /\ reqSent = 0 /\ reqHere = 0
  /\ resp = <<>> /\ respSent = 0 /\ respHere = 0
  /\ cpc = "read" /\ good = TRUE /\ erase = FALSE /\ pending = {}
  /\ buffers = <<>> /\ it = 1
  /\ nextExpected = 0 /\ nextOrdered = 0
  /\ delivered = <<>> /\ taken = 0

-----------------------------------------------------------------------------
(* Server, application thread: async_send waits while outbox_msg is full.  *)
AsyncSend ==
  /\ back < MsgMax
  /\ back - front < HistoryCap
  /\ back' = back + 1
  /\ UNCHANGED <<front, mcast, serverRead, requests, responses, clientRead, inbox>>

(* Server, write thread: pack() takes a message from outbox_msg as it      *)
(* moves sent_it past it, and then copies it to multicast_server, until    *)
(* that one's queue is full.                                               *)
Handed == IF wpc = "copy" THEN sentIt - 1 ELSE sentIt
More   == sentIt < back /\ sentIt - mcFront < McastCap
HandOver ==
  /\ wpc = "pack" /\ More
  /\ sentIt' = sentIt + 1 /\ wpc' = "copy"
  /\ UNCHANGED <<history, mcFront, sendBuf, net, serverRead, requests, responses, clientRead,
                 inbox>>

(* sent_it protects the message no more: trimmed at once, its slot may be  *)
(* filled anew while it is copied, if as many messages are sent meanwhile  *)
(* as one trim removes.  Bound: what comes out then is not followed, the   *)
(* copy never ends.                                                        *)
Overwritten == wpc = "copy" /\ back > Handed + HistoryCap
Copy ==
  /\ wpc = "copy" /\ ~Overwritten
  /\ wpc' = "pack"
  /\ UNCHANGED <<history, sentIt, mcFront, sendBuf, net, serverRead, requests, responses,
                 clientRead, inbox>>

(* multicast_server.pack() then fills a datagram unless one still waits in *)
(* send_buffer.  Messages vary in size, so any number up to FrameMax may   *)
(* fit.                                                                    *)
Pack(n) ==
  /\ wpc = "pack" /\ ~More
  /\ sendBuf = {} /\ n <= Handed - mcFront
  /\ sendBuf' = {[first |-> mcFront, last |-> mcFront + n - 1]}
  /\ mcFront' = mcFront + n
  /\ UNCHANGED <<history, sentIt, wpc, net, serverRead, requests, responses, clientRead, inbox>>

(* write() sends the datagram.  A datagram once sent may reach the client  *)
(* any number of times, in any order, or never.                            *)
Multicast ==
  /\ wpc = "pack" /\ sendBuf # {}
  /\ net' = net \cup sendBuf
  /\ sendBuf' = {}
  /\ UNCHANGED <<history, sentIt, wpc, mcFront, serverRead, requests, responses, clientRead,
                 inbox>>

(* sendto fails: good() is false and loop_write drops the server.          *)
MulticastFails ==
  /\ MayFail /\ wpc = "pack" /\ sendBuf # {}
  /\ wpc' = "out"
  /\ UNCHANGED <<history, sentIt, mcFront, sendBuf, net, serverRead, requests, responses,
                 clientRead, inbox>>

(* pack() and write() of the replay connection, which the server and the   *)
(* context both call: one message onto the wire.                           *)
WriteResponse ==
  /\ link = "open" /\ respSent < Len(resp) /\ respSent - respHere < WireCap
  /\ respSent' = respSent + 1
  /\ UNCHANGED <<server, requests, resp, respHere, clientRead, inbox>>

-----------------------------------------------------------------------------
(* Server, accept thread.                                                  *)
Accept ==
  /\ link = "none"
  /\ link' = "open"
  /\ UNCHANGED <<history, mcast, spc, cursor, requests, responses, clientRead, inbox>>

(* Server, read thread: read() drops a connection whose client is closed,  *)
(* once a read or a write of it has failed.                                *)
DropClient ==
  /\ spc = "poll" /\ link = "open" /\ ~good
  /\ link' = "dropped"
  /\ UNCHANGED <<history, mcast, spc, cursor, requests, responses, clientRead, inbox>>

(* unpack() takes the k requests that have arrived and fit, and handles    *)
(* one, if there is any.                                                   *)
Poll(k) ==
  /\ spc = "poll" /\ link = "open"
  /\ k \in 0 .. Smaller(reqSent - reqHere, TcpCap - reqHere)
  /\ reqHere + k > 0
  /\ reqHere' = reqHere + k
  /\ spc' = "handle"
  /\ UNCHANGED <<history, mcast, link, cursor, req, reqSent, responses, clientRead,
                 inbox>>

TooOld_offByOne(seq) == back = front \/ seq <= front
TooOld(seq) == back = front \/ seq < front
TooNew(seq) == back = front \/ back - 1 < seq

PopRequest ==
  /\ req' = Tail(req) /\ reqSent' = reqSent - 1 /\ reqHere' = reqHere - 1

(* A request that cannot be honoured is answered by one response, for      *)
(* which back() waits: status 2 when it reaches before the history, 1 when *)
(* it reaches beyond it.                                                   *)
Refuse ==
  LET r == Head(req)
      old == TooOld(r.begin) \/ TooOld(r.end)
      new == TooNew(r.begin) \/ TooNew(r.end)
  IN
  /\ spc = "handle" /\ (old \/ new)
  /\ RespRoom
  /\ resp' = Append(resp, [status |-> IF old THEN 2 ELSE 1,
                           seq    |-> IF old THEN r.end ELSE r.begin])
  /\ PopRequest
  /\ spc' = "trim"
  /\ UNCHANGED <<history, mcast, link, cursor, respSent, respHere, clientRead, inbox>>

\* the replay starts one message late
StartReplay_late ==
  LET r == Head(req) IN
  /\ spc = "handle"
  /\ \A s \in {r.begin, r.end} : ~TooOld(s) /\ ~TooNew(s)
  /\ cursor' = [next |-> r.begin + 1, end |-> r.end]
  /\ spc' = "replay"
  /\ UNCHANGED <<history, mcast, link, requests, responses, clientRead, inbox>>
StartReplay ==
  LET r == Head(req) IN
  /\ spc = "handle"
  /\ \A s \in {r.begin, r.end} : ~TooOld(s) /\ ~TooNew(s)
  /\ cursor' = [next |-> r.begin, end |-> r.end]
  /\ spc' = "replay"
  /\ UNCHANGED <<history, mcast, link, requests, responses, clientRead, inbox>>

(* One response per message of [begin, end), each waiting for room.        *)
ReplayOne ==
  /\ spc = "replay" /\ cursor.next # cursor.end
  /\ RespRoom
  /\ resp' = Append(resp, [status |-> 0, seq |-> cursor.next])
  /\ cursor' = [cursor EXCEPT !.next = @ + 1]
  /\ UNCHANGED <<history, mcast, link, spc, requests, respSent, respHere, clientRead,
                 inbox>>

EndReplay ==
  /\ spc = "replay" /\ cursor.next = cursor.end
  /\ PopRequest
  /\ spc' = "trim"
  /\ UNCHANGED <<history, mcast, link, cursor, responses, clientRead, inbox>>

(* The end of unpack(), after a request or at once when there is none:     *)
(* outbox_msg loses its oldest chunk when it is nearly full and that chunk *)
(* has been multicast.                                                     *)
NoRequest == link = "open" => reqHere = 0
\* only trims once there is less than no room
Trim_never ==
  /\ spc = "trim" \/ (spc = "poll" /\ NoRequest)
  /\ front' = IF /\ HistoryCap - (back - front) < Chunk - 1
                 /\ front + Chunk <= sentIt
              THEN front + Chunk ELSE front
  /\ spc' = "poll"
  /\ UNCHANGED <<back, mcast, link, cursor, requests, responses, clientRead, inbox>>
Trim ==
  /\ spc = "trim" \/ (spc = "poll" /\ NoRequest)
  /\ front' = IF /\ HistoryCap - (back - front) < Chunk
                 /\ front + Chunk <= sentIt
              THEN front + Chunk ELSE front
  /\ spc' = "poll"
  /\ UNCHANGED <<back, mcast, link, cursor, requests, responses, clientRead, inbox>>

-----------------------------------------------------------------------------
(* Client, read thread: read().                                            *)
ReadFails ==
  /\ cpc = "read" /\ (MayFail \/ ~good)
  /\ good' = FALSE /\ erase' = TRUE /\ cpc' = "unpack"
  /\ UNCHANGED <<server, requests, responses, pending, buffers, it, nextExpected,
                 nextOrdered, inbox>>

(* buffers is full, no datagram is there, or the one read is old or        *)
(* overlaps what was already expected.                                     *)
ReadNothing ==
  /\ cpc = "read" /\ good
  /\ cpc' = "unpack"
  /\ UNCHANGED <<server, requests, responses, good, erase, pending, buffers, it,
                 nextExpected, nextOrdered, inbox>>

\* forgets that last itself is no longer expected
ReadFrame_short(f) ==
  /\ cpc = "read" /\ good
  /\ Len(buffers) < FrameCap
  /\ f.first = nextExpected
  /\ nextExpected' = f.last
  /\ buffers' = Append(buffers, f)
  /\ cpc' = "unpack"
  /\ UNCHANGED <<server, requests, responses, good, erase, pending, it, nextOrdered,
                 inbox>>
ReadFrame(f) ==
  /\ cpc = "read" /\ good
  /\ Len(buffers) < FrameCap
  /\ f.first = nextExpected
  /\ nextExpected' = f.last + 1
  /\ buffers' = Append(buffers, f)
  /\ cpc' = "unpack"
  /\ UNCHANGED <<server, requests, responses, good, erase, pending, it, nextOrdered,
                 inbox>>

ReadGap(f) ==
  /\ cpc = "read" /\ good
  /\ Len(buffers) < FrameCap
  /\ f.first > nextExpected
  /\ pending' = {f}
  /\ cpc' = "request"
  /\ UNCHANGED <<server, requests, responses, good, erase, buffers, it, nextExpected,
                 nextOrdered, inbox>>

(* request_replay waits for room in the connection's outbox_msg; then the  *)
(* datagram is kept.                                                       *)
\* takes the end of a request for its last message
RequestReplay_short ==
  /\ cpc = "request" /\ ReqRoom
  /\ \E f \in pending :
       /\ req' = Append(req, [begin |-> nextExpected, end |-> f.first - 1])
       /\ nextExpected' = f.last + 1
       /\ buffers' = Append(buffers, f)
  /\ pending' = {}
  /\ cpc' = "unpack"
  /\ UNCHANGED <<server, reqSent, reqHere, responses, good, erase, it, nextOrdered,
                 inbox>>
RequestReplay ==
  /\ cpc = "request" /\ ReqRoom
  /\ \E f \in pending :
       /\ req' = Append(req, [begin |-> nextExpected, end |-> f.first])
       /\ nextExpected' = f.last + 1
       /\ buffers' = Append(buffers, f)
  /\ pending' = {}
  /\ cpc' = "unpack"
  /\ UNCHANGED <<server, reqSent, reqHere, responses, good, erase, it, nextOrdered,
                 inbox>>

(* Client, write thread.                                                   *)
WriteRequest ==
  /\ reqSent < Len(req) /\ reqSent - reqHere < WireCap
  /\ reqSent' = reqSent + 1
  /\ UNCHANGED <<server, req, reqHere, responses, clientRead, inbox>>

-----------------------------------------------------------------------------
(* Client, read thread: unpack() first takes the k responses that have     *)
(* arrived and fit.  loop_read drops the peer at its end, if read() failed.*)
Ended == IF erase THEN "gone" ELSE "read"
Unpack(k) ==
  /\ cpc = "unpack"
  /\ k \in 0 .. Smaller(respSent - respHere, TcpCap - respHere)
  /\ respHere' = respHere + k
  /\ cpc' = IF InboxFree = 0 THEN Ended ELSE "responses"
  /\ UNCHANGED <<server, requests, resp, respSent, good, erase, pending, buffers, it,
                 nextExpected, nextOrdered, inbox>>

(* A response that is not ahead of its turn leaves the queue; the message  *)
(* whose turn it is goes to inbox_msg, and push_back waits for room.       *)
PopReplayed ==
  /\ cpc = "responses" /\ respHere > 0
  /\ Head(resp).status = 0 /\ Head(resp).seq <= nextOrdered
  /\ resp' = Tail(resp) /\ respSent' = respSent - 1 /\ respHere' = respHere - 1
  /\ IF Head(resp).seq = nextOrdered
     THEN /\ InboxFree > 0
          /\ nextOrdered' = nextOrdered + 1
          /\ delivered' = Append(delivered, Head(resp).seq)
     ELSE UNCHANGED <<nextOrdered, delivered>>
  /\ UNCHANGED <<server, requests, cpc, good, erase, pending, buffers, it, nextExpected,
                 taken>>

(* A refusal closes the client; it stays at the head of the queue.         *)
GiveUp ==
  /\ cpc = "responses" /\ respHere > 0
  /\ Head(resp).status # 0
  /\ good' = FALSE
  /\ cpc' = "frames"
  /\ UNCHANGED <<server, requests, responses, erase, pending, buffers, it, nextExpected,
                 nextOrdered, inbox>>

EndResponses ==
  /\ cpc = "responses"
  /\ respHere > 0 => Head(resp).status = 0 /\ Head(resp).seq > nextOrdered
  /\ cpc' = "frames"
  /\ UNCHANGED <<server, requests, responses, good, erase, pending, buffers, it,
                 nextExpected, nextOrdered, inbox>>

(* One iteration over buffers: a datagram whose turn it is is delivered    *)
(* whole, or not at all while inbox_msg lacks the room.                    *)
\* delivers the datagrams that are early too
NextFrame_early ==
  /\ cpc = "frames" /\ it <= Len(buffers)
  /\ LET f == buffers[it] IN
     IF f.first < nextOrdered \/ Count(f) > InboxFree
     THEN UNCHANGED <<nextOrdered, delivered>>
     ELSE /\ delivered' = delivered \o Run(f.first, Count(f))
          /\ nextOrdered' = nextOrdered + Count(f)
  /\ it' = it + 1
  /\ UNCHANGED <<cpc, server, requests, responses, good, erase, pending, buffers,
                 nextExpected, taken>>
\* counts last - first messages in a datagram
NextFrame_short ==
  /\ cpc = "frames" /\ it <= Len(buffers)
  /\ LET f == buffers[it] IN
     IF f.first # nextOrdered \/ Count(f) > InboxFree
     THEN UNCHANGED <<nextOrdered, delivered>>
     ELSE /\ delivered' = delivered \o Run(f.first, Count(f))
          /\ nextOrdered' = nextOrdered + (Count(f) - 1)
  /\ it' = it + 1
  /\ UNCHANGED <<cpc, server, requests, responses, good, erase, pending, buffers,
                 nextExpected, taken>>
NextFrame ==
  /\ cpc = "frames" /\ it <= Len(buffers)
  /\ LET f == buffers[it] IN
     \/ /\ f.first # nextOrdered
        /\ it' = it + 1
        /\ UNCHANGED <<nextOrdered, delivered>>
     \/ /\ f.first = nextOrdered /\ Count(f) <= InboxFree
        /\ delivered' = delivered \o Run(f.first, Count(f))
        /\ nextOrdered' = nextOrdered + Count(f)
        /\ it' = it + 1
     \/ /\ f.first = nextOrdered /\ Count(f) > InboxFree
        /\ it' = Len(buffers) + 1
        /\ UNCHANGED <<nextOrdered, delivered>>
  /\ UNCHANGED <<cpc, server, requests, responses, good, erase, pending, buffers,
                 nextExpected, taken>>

(* Then the datagrams at the front that have been delivered are released.  *)
Walked == cpc = "frames" /\ it > Len(buffers)
\* releases a datagram that had no room in inbox_msg
DropFrame_early ==
  /\ Walked /\ buffers # <<>> /\ Head(buffers).first <= nextOrdered
  /\ buffers' = Tail(buffers)
  /\ UNCHANGED <<server, requests, responses, cpc, good, erase, pending, it,
                 nextExpected, nextOrdered, inbox>>
DropFrame ==
  /\ Walked /\ buffers # <<>> /\ Head(buffers).first < nextOrdered
  /\ buffers' = Tail(buffers)
  /\ UNCHANGED <<server, requests, responses, cpc, good, erase, pending, it,
                 nextExpected, nextOrdered, inbox>>

EndDrop ==
  /\ Walked /\ ~(buffers # <<>> /\ Head(buffers).first < nextOrdered)
  /\ cpc' = Ended /\ it' = 1
  /\ UNCHANGED <<server, requests, responses, good, erase, pending, buffers,
                 nextExpected, nextOrdered, inbox>>

(* Client, application thread: pop_front.                                  *)
Take ==
  /\ taken < Len(delivered)
  /\ taken' = taken + 1
  /\ UNCHANGED <<server, requests, responses, clientRead, delivered>>

-----------------------------------------------------------------------------
ServerWrite ==
  \/ HandOver \/ Copy \/ (\E n \in 1 .. FrameMax : Pack(n)) \/ Multicast \/ MulticastFails
  \/ WriteResponse
ServerRead  ==
  \/ DropClient
  \/ \E k \in 0 .. WireCap : Poll(k)
  \/ Refuse \/ StartReplay \/ ReplayOne \/ EndReplay \/ Trim
ClientRead  ==
  \/ ReadFails \/ ReadNothing
  \/ \E f \in net : ReadFrame(f) \/ ReadGap(f)
  \/ RequestReplay
  \/ \E k \in 0 .. WireCap : Unpack(k)
  \/ PopReplayed \/ GiveUp \/ EndResponses
  \/ NextFrame \/ DropFrame \/ EndDrop

Next ==
  \/ AsyncSend \/ ServerWrite \/ Accept \/ ServerRead
  \/ ClientRead \/ WriteRequest \/ Take

Spec == Init /\ [][Next]_vars

(* Each thread keeps taking steps and the application keeps popping.  What *)
(* the client is sent on its connection arrives: TCP is reliable, and the  *)
(* thread that reads it polls forever.  Nothing is assumed of datagrams.   *)
Fairness ==
  /\ WF_vars(ServerWrite) /\ WF_vars(Accept) /\ WF_vars(ServerRead)
  /\ WF_vars(ClientRead) /\ WF_vars(WriteRequest) /\ WF_vars(Take)
  /\ SF_vars(\E k \in 1 .. WireCap : Unpack(k))

FairSpec == Spec /\ Fairness

-----------------------------------------------------------------------------
(* Type invariant.                                                         *)
TypeOK ==
  /\ front \in Nat /\ back \in Nat /\ sentIt \in Nat /\ mcFront \in Nat
  /\ sendBuf \in SUBSET Frame /\ net \in SUBSET Frame
  /\ wpc \in {"pack", "copy", "out"} /\ link \in {"none", "open", "dropped"}
  /\ spc \in {"poll", "handle", "replay", "trim"}
  /\ cursor \in [next : Nat, end : Nat]
  /\ req \in Seq(Request) /\ reqSent \in Nat /\ reqHere \in Nat
  /\ resp \in Seq(Response) /\ respSent \in Nat /\ respHere \in Nat
  /\ cpc \in {"read", "request", "unpack", "responses", "frames", "gone"}
  /\ good \in BOOLEAN /\ erase \in BOOLEAN
  /\ pending \in SUBSET Frame /\ buffers \in Seq(Frame) /\ it \in Nat \ {0}
  /\ nextExpected \in Nat /\ nextOrdered \in Nat
  /\ delivered \in Seq(Nat) /\ taken \in 0 .. Len(delivered)

(* The application receives 0, 1, 2, ... without gap or repetition, and    *)
(* nothing that was not sent: client_udpmr.cpp counts on it.               *)
InOrder ==
  /\ delivered = Run(0, nextOrdered)
  /\ nextOrdered <= nextExpected

(* Messages on their way to the client through the replay connection, and  *)
(* those in datagrams that wait for their turn.                            *)
Queued   == IF spc = "replay" THEN 2 .. Len(req) ELSE 1 .. Len(req)
Replaying ==
  {resp[i].seq : i \in {j \in 1 .. Len(resp) : resp[j].status = 0}}
    \cup (UNION {Interval(req[i].begin, req[i].end) : i \in Queued})
    \cup (IF spc = "replay" THEN Interval(cursor.next, cursor.end) ELSE {})
Buffered  == UNION {Interval(buffers[i].first, buffers[i].last + 1) : i \in 1 .. Len(buffers)}

Refused == \E i \in 1 .. Len(resp) : resp[i].status # 0

(* No message falls between the two paths: each one the client knows of    *)
(* and has not delivered is in a datagram it holds or on its way through   *)
(* the replay connection, whatever was lost, repeated or reordered.        *)
GapsCovered ==
  ~Refused => Interval(nextOrdered, nextExpected) \subseteq Buffered \cup Replaying

(* unpack() never waits in vain: a response ahead of its turn waits for a  *)
(* datagram that is already there.                                         *)
HeadHasItsTurn ==
  (~Refused /\ respHere > 0 /\ Head(resp).seq # nextOrdered)
    => \E i \in 1 .. Len(buffers) : buffers[i].first = nextOrdered

(* A client is turned away only for a message it misses, that the server   *)
(* has no more, or never had when its numbers begin later than the client  *)
(* expects, and that is on neither path: nothing else makes a gap          *)
(* unrecoverable.                                                          *)
Missing == Interval(nextOrdered, nextExpected) \ (Buffered \cup Replaying)
RefusedOnlyIfLost == Refused => \E s \in Missing : s < front

(* The whole protocol implements an ordered, lossless delivery: what       *)
(* reaches the application is what was sent, once, in order.               *)
Delivery == INSTANCE OrderedDelivery WITH
              Firsts <- Firsts, sent <- back, received <- delivered
RefinesDelivery == Delivery!Spec

(* The client catches up with all it knows to exist, unless it is refused  *)
(* or its sockets fail.                                                    *)
GapsClose ==
  (nextOrdered < nextExpected) ~> (nextOrdered = nextExpected \/ ~good)

(* The server's read thread waits for room towards a client that is gone,  *)
(* whose socket takes no more: it waits forever, with every other client.  *)
Stalled ==
  /\ cpc = "gone" /\ spc \in {"handle", "replay"}
  /\ ~RespRoom /\ respSent - respHere = WireCap

(* async_send never waits forever, and a full outbox_msg is trimmed again, *)
(* but when the server's read thread stalls on a client that is gone or    *)
(* its write thread has dropped the server.                                *)
RoomReturns ==
  (back - front = HistoryCap)
    ~> (back - front < HistoryCap \/ Stalled \/ wpc = "out" \/ Overwritten)

-----------------------------------------------------------------------------
(* The inductive invariant.                                                *)

(* The server's indices into its history.                                  *)
Indices ==
  /\ front <= sentIt /\ mcFront <= Handed /\ sentIt <= back
  /\ sentIt <= mcFront + McastCap /\ back - front <= HistoryCap

(* The stages of the replay connection.                                    *)
Marks ==
  /\ reqHere <= reqSent /\ reqSent <= Len(req)
  /\ respHere <= respSent /\ respSent <= Len(resp)
  /\ Len(req) - reqSent <= TcpCap /\ reqHere <= TcpCap
  /\ Len(resp) - respSent <= TcpCap /\ respHere <= TcpCap
  /\ spc \in {"handle", "replay"} => reqHere > 0

(* Every datagram holds messages that left the history.                    *)
Datagrams ==
  /\ \A f \in net \cup sendBuf \cup pending : f.first <= f.last /\ f.last < mcFront
  /\ \A f \in pending : nextExpected < f.first
  /\ cpc # "request" => pending = {}
  /\ nextExpected <= mcFront

(* The replay in progress serves what is left of the request at the head.  *)
InProgress ==
  spc = "replay" =>
    /\ cursor.end = req[1].end
    /\ req[1].begin <= cursor.next /\ cursor.next <= cursor.end
    /\ front <= cursor.next /\ cursor.end < back

FramesSorted ==
  \A i \in 1 .. Len(buffers) :
    /\ buffers[i].first <= buffers[i].last /\ buffers[i].last < nextExpected
    /\ \A j \in 1 .. Len(buffers) : i < j => buffers[i].last < buffers[j].first

RequestsSorted ==
  \A i \in 1 .. Len(req) :
    /\ req[i].begin < req[i].end /\ req[i].end < nextExpected
    /\ \A j \in 1 .. Len(req) : i < j => req[i].end <= req[j].begin

ResponsesKnown ==
  \A i \in 1 .. Len(resp) :
    resp[i].status # 1 /\ (resp[i].status = 0 => resp[i].seq < nextExpected)

(* The replay connection carries the missing messages in order.            *)
PipeSorted ==
  /\ \A i \in 1 .. Len(resp) :
       /\ nextOrdered <= resp[i].seq
       /\ \A j \in 1 .. Len(resp) : i < j => resp[i].seq < resp[j].seq
       /\ spc = "replay" => resp[i].seq < cursor.next
       /\ \A j \in Queued : resp[i].seq < req[j].begin
  /\ \A j \in Queued : nextOrdered <= req[j].begin
  /\ (spc = "replay" /\ cursor.next < cursor.end) => nextOrdered <= cursor.next

(* No datagram held overlaps it, nor the last message delivered.           *)
FramesApart ==
  \A b \in 1 .. Len(buffers) :
    /\ buffers[b].last < nextOrdered \/ nextOrdered <= buffers[b].first
    /\ \A i \in 1 .. Len(resp) : resp[i].seq < buffers[b].first \/ buffers[b].last < resp[i].seq
    /\ \A j \in Queued : req[j].end <= buffers[b].first \/ buffers[b].last < req[j].begin
    /\ (spc = "replay" /\ cursor.next < cursor.end)
         => cursor.end <= buffers[b].first \/ buffers[b].last < cursor.next

(* Every message known and not delivered is in one or the other.           *)
OnItsWay(s) ==
  \/ \E b \in 1 .. Len(buffers) : buffers[b].first <= s /\ s <= buffers[b].last
  \/ \E i \in 1 .. Len(resp) : resp[i].seq = s
  \/ \E j \in Queued : req[j].begin <= s /\ s < req[j].end
  \/ spc = "replay" /\ cursor.next <= s /\ s < cursor.end
Covered == \A s \in Interval(nextOrdered, nextExpected) : OnItsWay(s)

Paths == ~Refused => PipeSorted /\ FramesApart /\ Covered

BaseInv ==
  /\ TypeOK /\ Indices /\ Marks /\ Datagrams /\ InProgress
  /\ FramesSorted /\ RequestsSorted /\ ResponsesKnown /\ InOrder
IndInv == BaseInv /\ Paths
=============================================================================
