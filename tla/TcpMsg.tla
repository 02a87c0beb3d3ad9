-------------------------------- MODULE TcpMsg --------------------------------
(***************************************************************************)
(* tcp_socket_msgs, and tcp_socket_msg, which is the same with one outbox: *)
(* messages cross a TCP connection as a size, one byte or several, and a   *)
(* body.  On one side the write thread packs the messages of the outboxes  *)
(* into a ring of bytes and sends it; on the other the read thread fills a *)
(* ring of bytes and unpacks it.  Each byte ring belongs to one thread.    *)
(*                                                                         *)
(* A byte is named by its message and its place in it; what the parser     *)
(* learns from a size is what the first byte's message was sent with.      *)
(***************************************************************************)
EXTENDS Naturals, Sequences, SequencesExt

CONSTANTS
  Producers,   \* how many outboxes feed the connection
  Shape,       \* sizes of messages: [prefix : bytes of the size, body : bytes]
  MsgMax,      \* bound: how many messages are sent
  OutMsgCap,   \* capacity of an outbox of messages
  OutCap,      \* capacity of the outbox of bytes
  SockCap,     \* bytes the sockets hold between the two sides
  InCap,       \* capacity of the inbox of bytes
  InMsgCap     \* capacity of inbox_msg

Total(s) == s.prefix + s.body

ASSUME CapAssumption ==
  /\ {Producers, OutMsgCap, OutCap, SockCap, InCap, InMsgCap} \subseteq Nat \ {0}
  /\ MsgMax \in Nat
\* Nothing checks that a message fits: pack() would wait for room forever.
ASSUME ShapeAssumption ==
  /\ Shape # {} /\ Shape \subseteq [prefix : Nat \ {0}, body : Nat]
  /\ \A s \in Shape : Total(s) <= OutCap /\ Total(s) <= InCap

Producer == 1 .. Producers

VARIABLES
  sent,       \* the shapes of the messages each producer has sent
  packed,     \* how many of them have left its outbox
  ready,      \* outboxes_ready
  alive,      \* the producers whose outbox still exists
  wpc, wk,    \* write thread: where it is, and at which outbox
  outbox, sock, inbox,
  rpc,        \* read thread
  closed,     \* the receiver closed its socket
  delivered,  \* everything pushed into inbox_msg, in order
  taken       \* how much of it the application has popped

producers == <<sent, ready, alive>>
writer    == <<packed, wpc, wk, outbox>>
reader    == <<inbox, rpc, closed, delivered>>
vars      == <<producers, writer, sock, reader, taken>>

-----------------------------------------------------------------------------
Byte == [from : Producer, n : Nat \ {0}, i : Nat \ {0}]
Bytes(k, n) ==
  [i \in 1 .. Total(sent[k][n]) |-> [from |-> k, n |-> n, i |-> i]]

SentInAll     == SumFunction([k \in Producer |-> Len(sent[k])])
Drop(s, n)    == SubSeq(s, n + 1, Len(s))
Queued(k)     == Len(sent[k]) - packed[k]
Fits(k)       == Total(sent[k][packed[k] + 1]) <= OutCap - Len(outbox)
InMsgFree     == InMsgCap - (Len(delivered) - taken)

Init ==
  /\ sent = [k \in Producer |-> <<>>] /\ packed = [k \in Producer |-> 0]
  /\ ready = (Producers = 1) /\ alive = Producer
  /\ wpc = "lock" /\ wk = 1
  /\ outbox = <<>> /\ sock = <<>> /\ inbox = <<>>
  /\ rpc = "read" /\ closed = FALSE
  /\ delivered = <<>> /\ taken = 0

-----------------------------------------------------------------------------
(* Producers: async_send, or push_back on an outbox of theirs, waits for   *)
(* room.                                                                   *)
AsyncSend(k, s) ==
  /\ k \in alive
  /\ SentInAll < MsgMax /\ Queued(k) < OutMsgCap
  /\ sent' = [sent EXCEPT ![k] = Append(@, s)]
  /\ UNCHANGED <<ready, alive, writer, sock, reader, taken>>

(* The outboxes may be used once the user says so; a producer that goes    *)
(* away takes its outbox with it, messages and all.                        *)
OutboxesReady ==
  /\ ~ready /\ ready' = TRUE
  /\ UNCHANGED <<sent, alive, writer, sock, reader, taken>>
ReleaseOutbox(k) ==
  /\ Producers > 1 /\ k \in alive
  /\ alive' = alive \ {k}
  /\ UNCHANGED <<sent, ready, writer, sock, reader, taken>>

-----------------------------------------------------------------------------
(* Write thread: pack() goes through the outboxes and holds the one it is  *)
(* at, skipping those that are gone.                                       *)
LockOutbox ==
  /\ wpc = "lock"
  /\ IF ~ready \/ wk > Producers
     THEN wpc' = "write" /\ wk' = 1
     ELSE IF wk \in alive
          THEN wpc' = "pack" /\ UNCHANGED wk
          ELSE wk' = wk + 1 /\ UNCHANGED wpc
  /\ UNCHANGED <<producers, packed, outbox, sock, reader, taken>>

\* leaves out the size field
PackOne_noSize ==
  /\ wpc = "pack" /\ Queued(wk) > 0 /\ Fits(wk)
  /\ outbox' = outbox \o Drop(Bytes(wk, packed[wk] + 1), sent[wk][packed[wk] + 1].prefix)
  /\ packed' = [packed EXCEPT ![wk] = @ + 1]
  /\ UNCHANGED <<producers, wpc, wk, sock, reader, taken>>
PackOne ==
  /\ wpc = "pack" /\ Queued(wk) > 0 /\ Fits(wk)
  /\ outbox' = outbox \o Bytes(wk, packed[wk] + 1)
  /\ packed' = [packed EXCEPT ![wk] = @ + 1]
  /\ UNCHANGED <<producers, wpc, wk, sock, reader, taken>>

\* stays at an outbox whose next message does not fit
PackNext_stuck ==
  /\ wpc = "pack" /\ Queued(wk) = 0
  /\ wpc' = "lock" /\ wk' = wk + 1
  /\ UNCHANGED <<producers, packed, outbox, sock, reader, taken>>
PackNext ==
  /\ wpc = "pack" /\ (Queued(wk) > 0 => ~Fits(wk))
  /\ wpc' = "lock" /\ wk' = wk + 1
  /\ UNCHANGED <<producers, packed, outbox, sock, reader, taken>>

(* write(): the socket takes n bytes of the outbox, wherever messages end. *)
Send(n) ==
  /\ wpc = "write" /\ ~closed
  /\ n <= Len(outbox) /\ n <= SockCap - Len(sock)
  /\ sock' = sock \o SubSeq(outbox, 1, n)
  /\ outbox' = Drop(outbox, n)
  /\ wpc' = "lock"
  /\ UNCHANGED <<producers, packed, wk, reader, taken>>

\* The outbox is empty, or EAGAIN.
SendNothing ==
  /\ wpc = "write" /\ (closed => outbox = <<>>)
  /\ wpc' = "lock"
  /\ UNCHANGED <<producers, packed, wk, outbox, sock, reader, taken>>

\* The connection was reset: loop_write drops the peer.
SendFails ==
  /\ wpc = "write" /\ closed /\ outbox # <<>>
  /\ wpc' = "gone"
  /\ UNCHANGED <<producers, packed, wk, outbox, sock, reader, taken>>

-----------------------------------------------------------------------------
(* Read thread: read() takes n bytes, or finds no room or no bytes.        *)
Recv(n) ==
  /\ rpc = "read" /\ ~closed
  /\ n <= Len(sock) /\ n <= InCap - Len(inbox)
  /\ inbox' = inbox \o SubSeq(sock, 1, n)
  /\ sock' = Drop(sock, n)
  /\ rpc' = "unpack"
  /\ UNCHANGED <<producers, writer, closed, delivered, taken>>

RecvNothing ==
  /\ rpc = "read" /\ ~closed
  /\ rpc' = "unpack"
  /\ UNCHANGED <<producers, writer, sock, inbox, closed, delivered, taken>>

\* EBADF after close(): loop_read drops the peer.  unpack(), called before
\* it does, finds the same piece of a size again.
RecvFails ==
  /\ rpc = "read" /\ closed
  /\ rpc' = "gone"
  /\ UNCHANGED <<producers, writer, sock, inbox, closed, delivered, taken>>

(* unpack(): what the inbox starts with.                                   *)
HeadShape  == sent[Head(inbox).from][Head(inbox).n]
Unpacking  == rpc = "unpack" /\ InMsgFree > 0 /\ inbox # <<>>
SizeHere   == Len(inbox) >= HeadShape.prefix
BodyHere   == Len(inbox) >= Total(HeadShape)

\* leaves the message in the inbox
UnpackOne_again ==
  /\ Unpacking /\ BodyHere
  /\ delivered' = Append(delivered, <<Head(inbox).from, Head(inbox).n>>)
  /\ UNCHANGED <<producers, writer, sock, inbox, rpc, closed, taken>>
UnpackOne ==
  /\ Unpacking /\ BodyHere
  /\ delivered' = Append(delivered, <<Head(inbox).from, Head(inbox).n>>)
  /\ inbox' = Drop(inbox, Total(HeadShape))
  /\ UNCHANGED <<producers, writer, sock, rpc, closed, taken>>

\* A piece of a size throws stream_end_exception, which closes the socket.
UnpackClose ==
  /\ Unpacking /\ ~SizeHere
  /\ closed' = TRUE /\ rpc' = "read"
  /\ UNCHANGED <<producers, writer, sock, inbox, delivered, taken>>

UnpackEnd ==
  /\ rpc = "unpack"
  /\ Unpacking => SizeHere /\ ~BodyHere
  /\ rpc' = "read"
  /\ UNCHANGED <<producers, writer, sock, inbox, closed, delivered, taken>>

(* Receiving application.                                                  *)
Take ==
  /\ taken < Len(delivered)
  /\ taken' = taken + 1
  /\ UNCHANGED <<producers, writer, sock, reader>>

-----------------------------------------------------------------------------
Writer ==
  \/ LockOutbox \/ PackOne \/ PackNext
  \/ \E n \in 1 .. OutCap : Send(n)
  \/ SendNothing \/ SendFails
Reader ==
  \/ \E n \in 1 .. InCap : Recv(n)
  \/ RecvNothing \/ RecvFails
  \/ UnpackOne \/ UnpackClose \/ UnpackEnd

Next ==
  \/ \E k \in Producer, s \in Shape : AsyncSend(k, s)
  \/ OutboxesReady \/ \E k \in Producer : ReleaseOutbox(k)
  \/ Writer \/ Reader \/ Take

Spec == Init /\ [][Next]_vars

(* Both threads keep polling, sockets that have room take bytes now and    *)
(* then, those that hold bytes give them, the user sets outboxes_ready and *)
(* the application keeps popping.                                          *)
FairSpec ==
  /\ Spec
  /\ WF_vars(Writer) /\ WF_vars(Reader) /\ WF_vars(OutboxesReady) /\ WF_vars(Take)
  /\ SF_vars(\E n \in 1 .. OutCap : Send(n))
  /\ SF_vars(\E n \in 1 .. InCap : Recv(n))

-----------------------------------------------------------------------------
(* Type invariant.                                                         *)
TypeOK ==
  /\ sent \in [Producer -> Seq(Shape)]
  /\ packed \in [Producer -> Nat] /\ \A k \in Producer : packed[k] <= Len(sent[k])
  /\ ready \in BOOLEAN /\ alive \subseteq Producer
  /\ wpc \in {"lock", "pack", "write", "gone"} /\ wk \in 1 .. Producers + 1
  /\ outbox \in Seq(Byte) /\ sock \in Seq(Byte) /\ inbox \in Seq(Byte)
  /\ rpc \in {"read", "unpack", "gone"} /\ closed \in BOOLEAN
  /\ delivered \in Seq(Producer \X Nat) /\ taken \in 0 .. Len(delivered)

(* However sends and reads cut the stream, what is in the byte rings and   *)
(* the sockets is a run of whole messages: unpack() always starts at the   *)
(* size of a message, and the messages of two producers never mix.         *)
Stream == inbox \o sock \o outbox
EndsMessage(b) == b.i = Total(sent[b.from][b.n])
StreamWhole ==
  /\ TypeOK
  /\ Stream # <<>> =>
       /\ Stream[1].i = 1 /\ EndsMessage(Stream[Len(Stream)])
       /\ \A j \in 1 .. Len(Stream) - 1 :
            IF EndsMessage(Stream[j]) THEN Stream[j + 1].i = 1
            ELSE Stream[j + 1] = [Stream[j] EXCEPT !.i = @ + 1]

(* What arrives is what each producer sent, in its order, each once, the   *)
(* outboxes of producers that left and closed connections included.        *)
Merged == INSTANCE MergedFifo WITH
            count <- [k \in Producer |-> Len(sent[k])], received <- delivered
RefinesMerged == Merged!Spec

(* The messages a producer sent all arrive, unless it took its outbox away *)
(* or the receiver closed the connection.                                  *)
AllArrive ==
  \A k \in Producer :
    (Merged!Arrived(k) < Len(sent[k]))
      ~> (Merged!Arrived(k) = Len(sent[k]) \/ k \notin alive \/ closed)

(* A connection on which only whole messages are written stays open, as    *)
(* the loops on good() of test_io.cpp count on.                            *)
StaysOpen == ~closed
=============================================================================
