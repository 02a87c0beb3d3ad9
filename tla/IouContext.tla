----------------------------- MODULE IouContext -----------------------------
(***************************************************************************)
(* iou::context and its peers: every read, write and accept is a request   *)
(* to the kernel, and one thread takes the completions in turn.  Handling  *)
(* one submits the next, so a connection lives on one read and one write   *)
(* request; one that cannot be made yet is put off with a no-op, which     *)
(* completes at once.  Both ends of a connection are in the context, as in *)
(* test_iou.cpp.                                                           *)
(*                                                                         *)
(* The peers are those of messages: their rings of bytes are touched by    *)
(* the loop's thread alone, which packs, unpacks, writes and reads, so the *)
(* two stretches of a request are one piece of the ring.  Those of a peer  *)
(* of bytes, which the application fills and empties meanwhile, may not    *)
(* fit each other; they are in RingStretch.  bind and connect run between  *)
(* two completions.                                                        *)
(***************************************************************************)
EXTENDS Naturals, Sequences, SequencesExt, FiniteSets

CONSTANTS
  Conn,        \* the connections made
  Acceptor,    \* the peer that listens
  Size,        \* sizes of messages, with the field before them
  SendMax,     \* bound: how many messages each side of a connection sends
  AcceptCap, OutMsgCap, OutCap, WireCap, InCap, InMsgCap,   \* capacities
  Fragile      \* the peers whose requests may fail

Side == {"client", "server"}
End == Conn \X Side
Peer == End \cup {Acceptor}
Other(p) == <<p[1], IF p[2] = "client" THEN "server" ELSE "client">>
Action == {"accept", "read", "write"}
Chain == Peer \X Action

ASSUME IouAssumption ==
  /\ {AcceptCap, OutMsgCap, OutCap, WireCap, InCap, InMsgCap} \subseteq Nat \ {0}
  /\ Acceptor \notin End /\ SendMax \in [Side -> Nat] /\ Fragile \subseteq Peer
  /\ Size \subseteq Nat \ {0} /\ \A s \in Size : s <= OutCap /\ s <= InCap

VARIABLES
  go_on,
  peers,        \* the peers the context knows
  held, gone,   \* the peers the user holds, and has let go of
  fd,           \* the peers whose fd is not -1
  backlog,      \* connections nobody has accepted yet
  accept_inbox,
  ring,         \* [inflight, cq]: the requests in the kernel, by peer and action,
                \* and the completions the loop has not seen
  lpc, lpeer,   \* the loop: its step, and the peer of it
  sent,         \* sizes of the messages sent at each end
  packed,       \* how many of them have left outbox_msg
  outbox, wire, inbox,   \* bytes; wire[p] holds those p has written
  delivered,    \* the numbers of the messages received
  taken

user  == <<go_on, held, gone, backlog>>
loop  == <<peers, fd, accept_inbox, lpc, lpeer>>
bytes == <<sent, packed, outbox, wire, inbox, delivered, taken>>
vars  == <<user, loop, ring, bytes>>

Init ==
  /\ go_on = TRUE
  /\ peers = {} /\ held = {} /\ gone = {} /\ fd = Peer /\ backlog = <<>> /\ accept_inbox = <<>>
  /\ ring = [inflight |-> [k \in Chain |-> <<>>], cq |-> <<>>]
  /\ lpc = "turn" /\ lpeer = Acceptor
  /\ sent = [p \in End |-> <<>>] /\ packed = [p \in End |-> 0]
  /\ outbox = [p \in End |-> <<>>] /\ wire = [p \in End |-> <<>>]
  /\ inbox = [p \in End |-> <<>>]
  /\ delivered = [p \in End |-> <<>>] /\ taken = [p \in End |-> 0]

-----------------------------------------------------------------------------
(* Requests: room to read into, bytes to write.  One that cannot be made   *)
(* is put off: signal() submits a no-op, which completes at once.          *)
Request(room, data) == [room |-> room, data |-> data]
Completion(p, act, noop, ok, res) ==
  [peer |-> p, act |-> act, noop |-> noop, ok |-> ok, res |-> res]

Submit(R, p, act, request) ==
  [R EXCEPT !.inflight[<<p, act>>] = Append(@, request)]
Signal(R, p, act) == [R EXCEPT !.cq = Append(@, Completion(p, act, TRUE, TRUE, 0))]
Seen(R) == [R EXCEPT !.cq = Tail(@)]

AcceptLoop(R, waiting) ==
  IF Acceptor \notin fd THEN R
  ELSE IF waiting = AcceptCap THEN Signal(R, Acceptor, "accept")
  ELSE Submit(R, Acceptor, "accept", Request(0, <<>>))

\* forgets to put the read off
ReadLoop_forgets(R, p, in) ==
  IF p \notin fd \/ Len(in) = InCap THEN R
  ELSE Submit(R, p, "read", Request(InCap - Len(in), <<>>))
ReadLoop(R, p, in) ==
  IF p \notin fd THEN R
  ELSE IF Len(in) = InCap THEN Signal(R, p, "read")
  ELSE Submit(R, p, "read", Request(InCap - Len(in), <<>>))

WriteLoop(R, p, out) ==
  IF p \notin fd THEN R
  ELSE IF out = <<>> THEN Signal(R, p, "write")
  ELSE Submit(R, p, "write", Request(0, out))

-----------------------------------------------------------------------------
(* User's threads.                                                         *)
Between == lpc \in {"turn", "wait"}

Bind ==
  /\ Acceptor \notin peers /\ Between
  /\ peers' = {Acceptor} /\ held' = {Acceptor}
  /\ ring' = AcceptLoop(ring, 0)
  /\ UNCHANGED <<go_on, gone, fd, backlog, accept_inbox, lpc, lpeer, bytes>>

\* One that fails, as a bind that does, returns nullptr and leaves but a gap
\* in the ids: the client is never there.
Connect(c) ==
  LET p == <<c, "client">>
  IN  /\ Acceptor \in peers /\ p \notin held \cup gone /\ Between
      /\ peers' = peers \cup {p} /\ held' = held \cup {p}
      /\ backlog' = Append(backlog, c)
      /\ ring' = WriteLoop(ReadLoop(ring, p, <<>>), p, <<>>)
      /\ UNCHANGED <<go_on, gone, fd, accept_inbox, lpc, lpeer, bytes>>

TakeAccepted ==
  /\ accept_inbox # <<>>
  /\ held' = held \cup {Head(accept_inbox)}
  /\ accept_inbox' = Tail(accept_inbox)
  /\ UNCHANGED <<go_on, gone, backlog, peers, fd, lpc, lpeer, ring, bytes>>

Drop(s, n) == SubSeq(s, n + 1, Len(s))
BytesOf(p, n) == [i \in 1 .. sent[p][n] |-> [n |-> n, i |-> i]]

\* async_send waits for room in outbox_msg.
AsyncSend(p, s) ==
  /\ p \in held
  /\ Len(sent[p]) < SendMax[p[2]] /\ Len(sent[p]) - packed[p] < OutMsgCap
  /\ sent' = [sent EXCEPT ![p] = Append(@, s)]
  /\ UNCHANGED <<user, loop, ring, packed, outbox, wire, inbox, delivered, taken>>

\* The application takes a message from inbox_msg.
Take(p) ==
  /\ p \in held /\ taken[p] < Len(delivered[p])
  /\ taken' = [taken EXCEPT ![p] = @ + 1]
  /\ UNCHANGED <<user, loop, ring, sent, packed, outbox, wire, inbox, delivered>>

\* The user lets go of a peer.  Bound: only of one whose memory no request in
\* the kernel uses.  Nothing in the code sees to that, and a read is nearly
\* always there: what the kernel then does to freed memory is not modelled.
Unused(p) == ring.inflight[<<p, "read">>] = <<>> /\ ring.inflight[<<p, "write">>] = <<>>
Release(p) ==
  /\ p \in held /\ Unused(p)
  /\ held' = held \ {p} /\ gone' = gone \cup {p}
  /\ UNCHANGED <<go_on, backlog, loop, ring, bytes>>

Stop ==
  /\ go_on /\ go_on' = FALSE
  /\ UNCHANGED <<held, gone, backlog, loop, ring, bytes>>

-----------------------------------------------------------------------------
(* Kernel.                                                                 *)
Complete(p, act, ok, res) ==
  /\ ring.inflight[<<p, act>>] # <<>>
  /\ ring' = [inflight |-> [ring.inflight EXCEPT ![<<p, act>>] = Tail(@)],
              cq |-> Append(ring.cq, Completion(p, act, FALSE, ok, res))]
  /\ UNCHANGED <<go_on, held, gone, loop>>

KernelAccept ==
  /\ backlog # <<>>
  /\ Complete(Acceptor, "accept", TRUE, Head(backlog))
  /\ backlog' = Tail(backlog)
  /\ UNCHANGED bytes

KernelRead(p, n) ==
  /\ ring.inflight[<<p, "read">>] # <<>>
  /\ n <= Head(ring.inflight[<<p, "read">>]).room /\ n <= Len(wire[Other(p)])
  /\ Complete(p, "read", TRUE, SubSeq(wire[Other(p)], 1, n))
  /\ wire' = [wire EXCEPT ![Other(p)] = Drop(@, n)]
  /\ UNCHANGED <<backlog, sent, packed, outbox, inbox, delivered, taken>>

KernelWrite(p, n) ==
  /\ ring.inflight[<<p, "write">>] # <<>>
  /\ n <= Len(Head(ring.inflight[<<p, "write">>]).data) /\ n <= WireCap - Len(wire[p])
  /\ Complete(p, "write", TRUE, n)
  /\ wire' = [wire EXCEPT ![p] = @ \o SubSeq(Head(ring.inflight[<<p, "write">>]).data, 1, n)]
  /\ UNCHANGED <<backlog, sent, packed, outbox, inbox, delivered, taken>>

\* Bound: one failure, after which the loop ends.
KernelFails(p, act) ==
  /\ p \in Fragile /\ lpc # "ended" /\ \A c \in ToSet(ring.cq) : c.ok
  /\ Complete(p, act, FALSE, 0)
  /\ UNCHANGED <<backlog, bytes>>

-----------------------------------------------------------------------------
(* The loop.                                                               *)
Turn ==
  /\ lpc = "turn"
  /\ lpc' = IF go_on THEN "wait" ELSE "ended"
  /\ UNCHANGED <<user, peers, fd, accept_inbox, lpeer, ring, bytes>>

e == Head(ring.cq)
Alive(p) == p \in held \cup ToSet(accept_inbox)
Handling(act, noop) ==
  /\ lpc = "wait" /\ ring.cq # <<>>
  /\ e.peer \in peers /\ Alive(e.peer) /\ e.ok /\ e.act = act /\ e.noop = noop

\* The completion of a peer that was erased.
HandleUnknown ==
  /\ lpc = "wait" /\ ring.cq # <<>> /\ e.peer \notin peers
  /\ ring' = Seen(ring) /\ lpc' = "turn"
  /\ UNCHANGED <<user, peers, fd, accept_inbox, lpeer, bytes>>

\* The user let go of the peer; the completion is left for another turn.
HandleExpired ==
  /\ lpc = "wait" /\ ring.cq # <<>> /\ e.peer \in peers /\ ~Alive(e.peer)
  /\ peers' = peers \ {e.peer} /\ lpc' = "turn"
  /\ UNCHANGED <<user, fd, accept_inbox, lpeer, ring, bytes>>

\* A request failed: the whole loop ends.
HandleFailed ==
  /\ lpc = "wait" /\ ring.cq # <<>> /\ e.peer \in peers /\ Alive(e.peer) /\ ~e.ok
  /\ fd' = fd \ {e.peer} /\ lpc' = "ended"
  /\ UNCHANGED <<user, peers, accept_inbox, lpeer, ring, bytes>>

\* accepted(): the acceptor goes on, and the new peer starts.
HandleAccept ==
  LET p == <<e.res, "server">>
  IN  /\ Handling("accept", FALSE)
      /\ Len(accept_inbox) < AcceptCap
      /\ accept_inbox' = Append(accept_inbox, p)
      /\ peers' = peers \cup {p}
      /\ ring' = WriteLoop(ReadLoop(AcceptLoop(Seen(ring), Len(accept_inbox) + 1), p, <<>>),
                           p, <<>>)
      /\ lpc' = "turn"
      /\ UNCHANGED <<user, fd, lpeer, bytes>>
HandleAcceptDeferred ==
  /\ Handling("accept", TRUE)
  /\ ring' = AcceptLoop(Seen(ring), Len(accept_inbox))
  /\ lpc' = "turn"
  /\ UNCHANGED <<user, peers, fd, accept_inbox, lpeer, bytes>>

\* read_loop submits and then unpacks.
ReadNext(p) ==
  /\ ring' = ReadLoop(Seen(ring), p, inbox'[p])
  /\ lpc' = "unpack" /\ lpeer' = p
  /\ UNCHANGED <<user, peers, fd, accept_inbox, sent, packed, outbox, wire, delivered, taken>>
HandleRead ==
  /\ Handling("read", FALSE)
  /\ inbox' = [inbox EXCEPT ![e.peer] = @ \o e.res]
  /\ ReadNext(e.peer)
HandleReadDeferred ==
  /\ Handling("read", TRUE)
  /\ UNCHANGED inbox
  /\ ReadNext(e.peer)

\* packs only when bytes were written
WriteNext_noPack(p) ==
  /\ ring' = WriteLoop(Seen(ring), p, outbox'[p])
  /\ lpc' = (IF outbox'[p] = <<>> THEN "turn" ELSE "pack") /\ lpeer' = p
  /\ UNCHANGED <<user, peers, fd, accept_inbox, sent, packed, wire, inbox, delivered, taken>>
\* write_loop submits and then packs.
WriteNext(p) ==
  /\ ring' = WriteLoop(Seen(ring), p, outbox'[p])
  /\ lpc' = "pack" /\ lpeer' = p
  /\ UNCHANGED <<user, peers, fd, accept_inbox, sent, packed, wire, inbox, delivered, taken>>
\* takes the whole outbox as sent
HandleWrite_all ==
  /\ Handling("write", FALSE)
  /\ outbox' = [outbox EXCEPT ![e.peer] = <<>>]
  /\ WriteNext(e.peer)
HandleWrite ==
  /\ Handling("write", FALSE)
  /\ outbox' = [outbox EXCEPT ![e.peer] = Drop(@, e.res)]
  /\ WriteNext(e.peer)
HandleWriteDeferred ==
  /\ Handling("write", TRUE)
  /\ UNCHANGED outbox
  /\ WriteNext(e.peer)

CanPack(p) ==
  /\ packed[p] < Len(sent[p])
  /\ sent[p][packed[p] + 1] <= OutCap - Len(outbox[p])
PackOne ==
  /\ lpc = "pack" /\ CanPack(lpeer)
  /\ outbox' = [outbox EXCEPT ![lpeer] = @ \o BytesOf(lpeer, packed[lpeer] + 1)]
  /\ packed' = [packed EXCEPT ![lpeer] = @ + 1]
  /\ UNCHANGED <<user, loop, ring, sent, wire, inbox, delivered, taken>>
PackEnd ==
  /\ lpc = "pack" /\ ~CanPack(lpeer)
  /\ lpc' = "turn"
  /\ UNCHANGED <<user, peers, fd, accept_inbox, lpeer, ring, bytes>>

\* The size at the head of the inbox is there, and all it counts.
HeadSize(p) == sent[Other(p)][Head(inbox[p]).n]
CanUnpack(p) ==
  /\ Len(delivered[p]) - taken[p] < InMsgCap
  /\ inbox[p] # <<>> /\ HeadSize(p) <= Len(inbox[p])
UnpackOne ==
  /\ lpc = "unpack" /\ CanUnpack(lpeer)
  /\ delivered' = [delivered EXCEPT ![lpeer] = Append(@, Head(inbox[lpeer]).n)]
  /\ inbox' = [inbox EXCEPT ![lpeer] = Drop(@, HeadSize(lpeer))]
  /\ UNCHANGED <<user, loop, ring, sent, packed, outbox, wire, taken>>
UnpackEnd ==
  /\ lpc = "unpack" /\ ~CanUnpack(lpeer)
  /\ lpc' = "turn"
  /\ UNCHANGED <<user, peers, fd, accept_inbox, lpeer, ring, bytes>>

-----------------------------------------------------------------------------
User ==
  \/ Bind \/ (\E c \in Conn : Connect(c)) \/ TakeAccepted \/ Stop
  \/ \E p \in End : Take(p) \/ Release(p) \/ \E s \in Size : AsyncSend(p, s)
Kernel ==
  \/ KernelAccept
  \/ \E p \in End : \E n \in 1 .. WireCap : KernelRead(p, n) \/ KernelWrite(p, n)
  \/ \E k \in Chain : KernelFails(k[1], k[2])
Loop ==
  \/ Turn \/ HandleUnknown \/ HandleExpired \/ HandleFailed
  \/ HandleAccept \/ HandleAcceptDeferred
  \/ HandleRead \/ HandleReadDeferred \/ UnpackOne \/ UnpackEnd
  \/ HandleWrite \/ HandleWriteDeferred \/ PackOne \/ PackEnd
Next == User \/ Kernel \/ Loop
Spec == Init /\ [][Next]_vars

(* The loop's thread runs, the kernel serves a request it can serve, and   *)
(* the application takes the peers and the messages it is given.           *)
FairSpec ==
  /\ Spec
  /\ WF_vars(Loop) /\ WF_vars(KernelAccept) /\ WF_vars(TakeAccepted)
  /\ \A p \in End :
       /\ WF_vars(\E n \in 1 .. WireCap : KernelRead(p, n))
       /\ WF_vars(\E n \in 1 .. WireCap : KernelWrite(p, n))
       /\ WF_vars(Take(p))

-----------------------------------------------------------------------------
(* Type invariant.                                                         *)
Byte == [n : Nat \ {0}, i : Nat \ {0}]
TypeOK ==
  /\ go_on \in BOOLEAN
  /\ peers \subseteq Peer /\ held \subseteq Peer /\ gone \subseteq End \ held /\ fd \subseteq Peer
  /\ backlog \in Seq(Conn) /\ accept_inbox \in Seq(End)
  /\ lpc \in {"turn", "wait", "pack", "unpack", "ended"} /\ lpeer \in Peer
  /\ \A p \in End :
       /\ sent[p] \in Seq(Size) /\ packed[p] \in 0 .. Len(sent[p])
       /\ {outbox[p], wire[p], inbox[p]} \subseteq Seq(Byte)
       /\ Len(outbox[p]) <= OutCap /\ Len(inbox[p]) <= InCap
       /\ taken[p] \in 0 .. Len(delivered[p])

Completions(p, act) == {i \in DOMAIN ring.cq : ring.cq[i].peer = p /\ ring.cq[i].act = act}
Tokens(p, act) == Len(ring.inflight[<<p, act>>]) + Cardinality(Completions(p, act))

(* A peer that is served always has one read and one write request, or the *)
(* no-op that will make it, and never two; the acceptor has one accept     *)
(* request, and room for what it brings.  A lost one would leave the peer  *)
(* deaf, a second would have the kernel fill the same room twice.          *)
OneChain ==
  /\ TypeOK
  /\ \A p \in peers \cap End : (Alive(p) /\ lpc # "ended") => Tokens(p, "read") = 1 /\ Tokens(p, "write") = 1
  /\ (Acceptor \in peers /\ lpc # "ended") => Tokens(Acceptor, "accept") = 1
  /\ \A p \in End : Tokens(p, "read") <= 1 /\ Tokens(p, "write") <= 1
  /\ Len(accept_inbox) + Len(ring.inflight[<<Acceptor, "accept">>])
       + Cardinality({i \in Completions(Acceptor, "accept") : ~ring.cq[i].noop}) <= AcceptCap

(* The asserts of sent() and rcvd() hold, and what is between the two ends *)
(* is what was sent and has not been received, byte for byte: nothing is   *)
(* lost or repeated when the kernel takes part of a write, when a message  *)
(* is packed behind bytes it is taking, or cut where a read ends.          *)
Results(p, act) ==
  {c.res : c \in {c \in ToSet(ring.cq) : c.peer = p /\ c.act = act /\ ~c.noop /\ c.ok}}
Acked(p) == IF Results(p, "write") = {} THEN 0 ELSE CHOOSE n \in Results(p, "write") : TRUE
Read(p)  == IF Results(p, "read") = {} THEN <<>> ELSE CHOOSE s \in Results(p, "read") : TRUE
Path(p)  == inbox[Other(p)] \o Read(Other(p)) \o wire[p] \o Drop(outbox[p], Acked(p))
StreamWhole ==
  \A p \in End : {p, Other(p)} \cap gone = {} =>
    /\ Acked(p) <= Len(outbox[p]) /\ Len(Read(p)) <= InCap - Len(inbox[p])
    /\ delivered[Other(p)] = [n \in 1 .. Len(delivered[Other(p)]) |-> n]
    /\ Path(p) = FlattenSeq([n \in 1 .. packed[p] - Len(delivered[Other(p)]) |->
                               BytesOf(p, Len(delivered[Other(p)]) + n)])

(* The bytes of what one end sends arrive at the other, unless the loop    *)
(* ended or one of the two peers was let go.                               *)
Broken(p) == lpc = "ended" \/ {p, Other(p)} \cap gone # {}
Here(q, n) == \E b \in ToSet(inbox[q]) : b.n = n /\ b.i = sent[Other(q)][n]
BytesArrive ==
  \A p \in End : \A n \in 1 .. SendMax[p[2]] :
    (Len(sent[p]) >= n) ~>
      (Len(delivered[Other(p)]) >= n \/ Here(Other(p), n) \/ Broken(p))

(* And the messages come out of them: test_iou.cpp waits for each.         *)
AllArrive ==
  \A p \in End : \A n \in 1 .. SendMax[p[2]] :
    (Len(sent[p]) >= n) ~> (Len(delivered[Other(p)]) >= n \/ Broken(p))
=============================================================================
