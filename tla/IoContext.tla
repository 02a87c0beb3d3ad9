------------------------------ MODULE IoContext ------------------------------
(***************************************************************************)
(* utttil::io::context: loops that accept, read and write for a set of     *)
(* peers, in three threads (run) or in one (start_all).  A peer reaches a  *)
(* loop through a ring_buffer of new peers, filled by add() in the thread  *)
(* that binds or connects and in the thread that accepts, and is dropped   *)
(* by a loop whose read or write fails.  stop() ends the loops and joins.  *)
(*                                                                         *)
(* ring_buffer has one producer at a time in mind: a push writes the slot  *)
(* at the back and then publishes it (RingBuffer).                         *)
(***************************************************************************)
EXTENDS Naturals, FiniteSets, Sequences, SequencesExt

CONSTANTS
  UserPeer,    \* peers the user binds or connects
  Does,        \* what each of them does: subsets of Loop
  Conn,        \* connections that acceptors will accept
  Fragile,     \* peers whose socket may fail
  QueueCap,    \* capacity of new_accept_peers, new_read_peers, new_write_peers
  AcceptCap,   \* capacity of accept_inbox
  Modes,       \* which of "three" and "all" the program may start
  Overlap,     \* whether a connection may be accepted while the user adds a peer
  Null         \* what a fresh slot of a ring holds

Loop == {"accept", "read", "write"}
Peer == UserPeer \cup Conn

ASSUME PeerAssumption ==
  /\ UserPeer \cap Conn = {} /\ Fragile \subseteq Peer /\ Null \notin Peer
  /\ Does \in [UserPeer -> SUBSET Loop]
ASSUME ModeAssumption ==
  /\ Modes \subseteq {"three", "all"} /\ Overlap \in BOOLEAN
  /\ {QueueCap, AcceptCap} \subseteq Nat \ {0}

VARIABLES
  mode,
  go_on,
  upc,        \* the user's thread: "run", "stopping" in stop(), or "joined"
  toAdd,      \* peers the user has yet to add
  \* the sockets
  away,       \* connections not accepted yet
  sock,       \* open; reset: with an error to report; dead: the error was
              \* reported; closed: fd is -1
  good,       \* good_ of each peer
  \* new peers on their way
  adding,     \* per thread: the peer it is adding and where to
  slot,       \* the slot behind the published ones of each ring
  queue,      \* the published ones
  inbox,      \* how many peers accept_inbox holds
  \* the loops
  pc, phase, i,  \* per thread: where it is, in which loop, at which peer
  peers,      \* accept_peers, read_peers, write_peers
  dropped,    \* the peers each loop erased
  visited     \* the peers each loop has polled in this round

user     == <<mode, go_on, upc, toAdd>>
sockets  == <<away, sock, good>>
arrivals == <<adding, slot, queue, inbox>>
loops    == <<pc, phase, i, peers, dropped, visited>>
vars     == <<user, sockets, arrivals, loops>>

-----------------------------------------------------------------------------
Thread     == {"accept", "read", "write", "all"}
Started    == IF mode = "all" THEN {"all"} ELSE {"accept", "read", "write"}
LoopsOf(t) == IF t = "all" THEN <<"accept", "write", "read">> ELSE <<t>>
At(t)      == LoopsOf(t)[phase[t]]      \* the loop thread t is in
Here(t)    == peers[At(t)][i[t]]        \* the peer it is at

DoesOf(p) == IF p \in Conn THEN {"read", "write"} ELSE Does[p]
\* add() pushes in this order.
Ring(l, p) == IF l \in DoesOf(p) THEN <<l>> ELSE <<>>
Rings(p)   == Ring("accept", p) \o Ring("read", p) \o Ring("write", p)

Nobody == [peer |-> Null, to |-> <<>>, wrote |-> FALSE]
Idle(w) == adding[w].to = <<>>

Init ==
  /\ mode \in Modes
  /\ go_on = TRUE /\ upc = "run" /\ toAdd = UserPeer
  /\ away = Conn
  /\ sock = [p \in Peer |-> "open"] /\ good = [p \in Peer |-> TRUE]
  /\ adding = [w \in Thread \cup {"user"} |-> Nobody]
  /\ slot = [l \in Loop |-> Null] /\ queue = [l \in Loop |-> <<>>]
  /\ inbox = 0
  /\ pc = [t \in Thread |-> IF t \in Started THEN "walk" ELSE "done"]
  /\ phase = [t \in Thread |-> Len(LoopsOf(t))] /\ i = [t \in Thread |-> 0]
  /\ peers = [l \in Loop |-> <<>>]
  /\ dropped = [l \in Loop |-> {}] /\ visited = [l \in Loop |-> {}]

-----------------------------------------------------------------------------
(* The network. *)
Reset(p) ==
  /\ p \in Fragile /\ "accept" \notin DoesOf(p) /\ sock[p] = "open" /\ p \notin away
  /\ sock' = [sock EXCEPT ![p] = "reset"]
  /\ UNCHANGED <<user, away, good, arrivals, loops>>

-----------------------------------------------------------------------------
(* The user's thread: bind and connect add a peer; accepted peers are      *)
(* taken from accept_inbox; stop() clears go_on and joins the threads.     *)
(* A bind or connect whose socket is not good returns nullptr before add() *)
(* and touches nothing here: the peer is still one to add, if the user     *)
(* tries again, and no fairness says that it ever gets further.            *)
UserAdd(p) ==
  /\ upc = "run" /\ p \in toAdd /\ Idle("user")
  /\ Overlap \/ \A t \in Thread : pc[t] # "inbox" /\ Idle(t)
  /\ toAdd' = toAdd \ {p}
  /\ adding' = [adding EXCEPT !["user"] = [peer |-> p, to |-> Rings(p), wrote |-> FALSE]]
  /\ UNCHANGED <<mode, go_on, upc, sockets, slot, queue, inbox, loops>>

TakeAccepted ==
  /\ upc = "run" /\ inbox > 0
  /\ inbox' = inbox - 1
  /\ UNCHANGED <<user, sockets, adding, slot, queue, loops>>

Stop ==
  /\ upc = "run" /\ Idle("user")
  /\ go_on' = FALSE /\ upc' = "stopping"
  /\ UNCHANGED <<mode, toAdd, sockets, arrivals, loops>>

Join ==
  /\ upc = "stopping" /\ \A t \in Started : pc[t] = "done"
  /\ upc' = "joined"
  /\ UNCHANGED <<mode, go_on, toAdd, sockets, arrivals, loops>>

(* add() waits for room in each ring in turn, writes and publishes.        *)
PushWrite(w) ==
  /\ ~Idle(w) /\ ~adding[w].wrote
  /\ Len(queue[Head(adding[w].to)]) < QueueCap
  /\ slot' = [slot EXCEPT ![Head(adding[w].to)] = adding[w].peer]
  /\ adding' = [adding EXCEPT ![w].wrote = TRUE]
  /\ UNCHANGED <<user, sockets, queue, inbox, loops>>

\* what is left to add once the first ring has the peer
Published(a) ==
  IF Tail(a.to) = <<>> THEN Nobody ELSE [a EXCEPT !.to = Tail(a.to), !.wrote = FALSE]

\* publishes without having written
PushPublish_early(w) ==
  LET l == Head(adding[w].to) IN
  /\ ~Idle(w)
  /\ queue' = [queue EXCEPT ![l] = Append(@, slot[l])]
  /\ slot' = [slot EXCEPT ![l] = Null]
  /\ adding' = [adding EXCEPT ![w] = Published(adding[w])]
  /\ UNCHANGED <<user, sockets, inbox, loops>>
PushPublish(w) ==
  LET l == Head(adding[w].to) IN
  /\ ~Idle(w) /\ adding[w].wrote
  /\ queue' = [queue EXCEPT ![l] = Append(@, slot[l])]
  /\ slot' = [slot EXCEPT ![l] = Null]
  /\ adding' = [adding EXCEPT ![w] = Published(adding[w])]
  /\ UNCHANGED <<user, sockets, inbox, loops>>

-----------------------------------------------------------------------------
(* The loops.  A round starts by looking at go_on, and goes through the    *)
(* loops of the thread.                                                    *)
\* the reader that finds nothing to do does not look at go_on
EndWalk_unstoppable(t) ==
  /\ pc[t] = "walk" /\ i[t] = 0
  /\ IF phase[t] < Len(LoopsOf(t))
     THEN phase' = [phase EXCEPT ![t] = @ + 1] /\ pc' = [pc EXCEPT ![t] = "take"]
     ELSE /\ phase' = [phase EXCEPT ![t] = 1]
          /\ pc' = [pc EXCEPT ![t] = IF go_on \/ t = "read" THEN "take" ELSE "done"]
  /\ visited' = [visited EXCEPT ![At(t)] = {}]
  /\ UNCHANGED <<user, sockets, arrivals, i, peers, dropped>>
EndWalk(t) ==
  /\ pc[t] = "walk" /\ i[t] = 0
  /\ IF phase[t] < Len(LoopsOf(t))
     THEN phase' = [phase EXCEPT ![t] = @ + 1] /\ pc' = [pc EXCEPT ![t] = "take"]
     ELSE /\ phase' = [phase EXCEPT ![t] = 1]
          /\ pc' = [pc EXCEPT ![t] = IF go_on THEN "take" ELSE "done"]
  /\ visited' = [visited EXCEPT ![At(t)] = {}]
  /\ UNCHANGED <<user, sockets, arrivals, i, peers, dropped>>

TakeNew(t) ==
  LET l == At(t) IN
  /\ pc[t] = "take" /\ queue[l] # <<>>
  /\ peers' = [peers EXCEPT ![l] = Append(@, Head(queue[l]))]
  /\ queue' = [queue EXCEPT ![l] = Tail(@)]
  /\ UNCHANGED <<user, sockets, adding, slot, inbox, pc, phase, i, dropped, visited>>

BeginWalk(t) ==
  /\ pc[t] = "take" /\ queue[At(t)] = <<>>
  /\ pc' = [pc EXCEPT ![t] = "walk"]
  /\ i' = [i EXCEPT ![t] = Len(peers[At(t)])]
  /\ UNCHANGED <<user, sockets, arrivals, phase, peers, dropped, visited>>

(* The walk goes from the last peer to the first, so that erasing one does *)
(* not move those still to be polled.                                      *)
Walking(t, l) == pc[t] = "walk" /\ i[t] > 0 /\ At(t) = l
\* walks on to what follows the erased peer
Step_forward(t, erase) ==
  /\ visited' = [visited EXCEPT ![At(t)] = @ \cup {Here(t)}]
  /\ IF erase
     THEN /\ peers' = [peers EXCEPT ![At(t)] = RemoveAt(@, i[t])]
          /\ dropped' = [dropped EXCEPT ![At(t)] = @ \cup {Here(t)}]
          /\ i' = [i EXCEPT ![t] = IF @ > 1 THEN @ - 2 ELSE 0]
     ELSE UNCHANGED <<peers, dropped>> /\ i' = [i EXCEPT ![t] = @ - 1]
Step(t, erase) ==
  /\ i' = [i EXCEPT ![t] = @ - 1]
  /\ visited' = [visited EXCEPT ![At(t)] = @ \cup {Here(t)}]
  /\ IF erase
     THEN /\ peers' = [peers EXCEPT ![At(t)] = RemoveAt(@, i[t])]
          /\ dropped' = [dropped EXCEPT ![At(t)] = @ \cup {Here(t)}]
     ELSE UNCHANGED <<peers, dropped>>

(* accept(): nothing there, or an error, after which the peer stays.       *)
AcceptNothing(t) ==
  /\ Walking(t, "accept")
  /\ Step(t, FALSE)
  /\ UNCHANGED <<user, sockets, arrivals, pc, phase>>
AcceptError(t) ==
  /\ Walking(t, "accept") /\ Here(t) \in Fragile
  /\ good' = [good EXCEPT ![Here(t)] = FALSE]
  /\ Step(t, FALSE)
  /\ UNCHANGED <<user, away, sock, arrivals, pc, phase>>

(* A connection: it goes to accept_inbox, which is waited for, and then    *)
(* through add(); an acceptor that had an error before is dropped.         *)
AcceptConn(t, c) ==
  /\ Walking(t, "accept") /\ c \in away /\ (Overlap \/ Idle("user"))
  /\ away' = away \ {c}
  /\ adding' = [adding EXCEPT ![t].peer = c]
  /\ pc' = [pc EXCEPT ![t] = "inbox"]
  /\ UNCHANGED <<user, sock, good, slot, queue, inbox, phase, i, peers, dropped,
                 visited>>
PushAccepted(t) ==
  /\ pc[t] = "inbox" /\ inbox < AcceptCap
  /\ inbox' = inbox + 1
  /\ adding' = [adding EXCEPT ![t].to = Rings(adding[t].peer)]
  /\ Step(t, ~good[Here(t)])
  /\ pc' = [pc EXCEPT ![t] = "add"]
  /\ UNCHANGED <<user, sockets, slot, queue, phase>>
\* goes on before its peer is in the last ring
EndAdd_forgets(t) ==
  /\ pc[t] = "add"
  /\ adding' = [adding EXCEPT ![t] = Nobody]
  /\ pc' = [pc EXCEPT ![t] = "walk"]
  /\ UNCHANGED <<user, sockets, slot, queue, inbox, phase, i, peers, dropped, visited>>
EndAdd(t) ==
  /\ pc[t] = "add" /\ Idle(t)
  /\ pc' = [pc EXCEPT ![t] = "walk"]
  /\ UNCHANGED <<user, sockets, arrivals, phase, i, peers, dropped, visited>>

(* read() and unpack(): bytes, or none, or no room for any; the end of the *)
(* stream looks like no bytes.                                             *)
ReadSome(t) ==
  /\ Walking(t, "read")
  /\ Step(t, FALSE)
  /\ UNCHANGED <<user, sockets, arrivals, pc, phase>>
\* unpack() closes the peer; the next read() will notice.
ReadCloses(t) ==
  /\ Walking(t, "read") /\ Here(t) \in Fragile
  /\ sock' = [sock EXCEPT ![Here(t)] = "closed"]
  /\ Step(t, FALSE)
  /\ UNCHANGED <<user, away, good, arrivals, pc, phase>>
ReadFails(t) ==
  /\ Walking(t, "read") /\ sock[Here(t)] \in {"reset", "closed"}
  /\ good' = [good EXCEPT ![Here(t)] = FALSE]
  /\ sock' = [sock EXCEPT ![Here(t)] = IF @ = "reset" THEN "dead" ELSE @]
  /\ Step(t, TRUE)
  /\ UNCHANGED <<user, away, arrivals, pc, phase>>

(* pack() and write(): bytes or an empty outbox; no room in the socket,    *)
(* which returns -1 as an error does; or an error.                         *)
WriteSome(t) ==
  /\ Walking(t, "write")
  /\ Step(t, FALSE)
  /\ UNCHANGED <<user, sockets, arrivals, pc, phase>>
\* takes EAGAIN for an error
WriteAgain_error(t) ==
  /\ Walking(t, "write") /\ sock[Here(t)] = "open"
  /\ good' = [good EXCEPT ![Here(t)] = FALSE]
  /\ Step(t, TRUE)
  /\ UNCHANGED <<user, away, sock, arrivals, pc, phase>>
WriteAgain(t) ==
  /\ Walking(t, "write") /\ sock[Here(t)] = "open"
  /\ Step(t, ~good[Here(t)])
  /\ UNCHANGED <<user, sockets, arrivals, pc, phase>>
WriteFails(t) ==
  /\ Walking(t, "write") /\ sock[Here(t)] # "open"
  /\ good' = [good EXCEPT ![Here(t)] = FALSE]
  /\ sock' = [sock EXCEPT ![Here(t)] = IF @ = "reset" THEN "dead" ELSE @]
  /\ Step(t, TRUE)
  /\ UNCHANGED <<user, away, arrivals, pc, phase>>

-----------------------------------------------------------------------------
Push(w) == PushWrite(w) \/ PushPublish(w)
RunLoop(t) ==
  \/ TakeNew(t) \/ BeginWalk(t) \/ EndWalk(t)
  \/ AcceptNothing(t) \/ AcceptError(t)
  \/ \E c \in Conn : AcceptConn(t, c)
  \/ PushAccepted(t) \/ Push(t) \/ EndAdd(t)
  \/ ReadSome(t) \/ ReadCloses(t) \/ ReadFails(t)
  \/ WriteSome(t) \/ WriteAgain(t) \/ WriteFails(t)
User ==
  \/ \E p \in UserPeer : UserAdd(p)
  \/ Push("user") \/ TakeAccepted \/ Stop \/ Join
Next ==
  \/ \E p \in Peer : Reset(p)
  \/ User
  \/ \E t \in Thread : RunLoop(t)

Spec == Init /\ [][Next]_vars

(* Every started thread takes the step it is at.  The user finishes what   *)
(* it is adding or joining, and keeps taking accepted peers while it runs. *)
(* The application keeps writing to its peers, so that a write to a broken *)
(* socket is tried again.                                                  *)
FairSpec ==
  /\ Spec
  /\ \A t \in Thread : WF_vars(RunLoop(t)) /\ SF_vars(WriteFails(t))
  /\ WF_vars(Push("user")) /\ WF_vars(Join) /\ WF_vars(TakeAccepted)

-----------------------------------------------------------------------------
(* Type invariant.                                                         *)
TypeOK ==
  /\ mode \in Modes /\ go_on \in BOOLEAN /\ upc \in {"run", "stopping", "joined"}
  /\ toAdd \subseteq UserPeer /\ away \subseteq Conn
  /\ sock \in [Peer -> {"open", "reset", "dead", "closed"}] /\ good \in [Peer -> BOOLEAN]
  /\ \A w \in DOMAIN adding : adding[w].peer \in Peer \cup {Null}
                               /\ adding[w].to \in Seq(Loop) /\ adding[w].wrote \in BOOLEAN
  /\ slot \in [Loop -> Peer \cup {Null}] /\ queue \in [Loop -> Seq(Peer \cup {Null})]
  /\ inbox \in 0 .. AcceptCap
  /\ pc \in [Thread -> {"take", "walk", "inbox", "add", "done"}]
  /\ phase \in [Thread -> 1 .. 3] /\ i \in [Thread -> Nat]
  /\ peers \in [Loop -> Seq(Peer)]
  /\ dropped \in [Loop -> SUBSET Peer] /\ visited \in [Loop -> SUBSET Peer]

(* A peer that add() was called with is at one place for each loop it is   *)
(* meant for: on its way, in the loop's list, or dropped by it; no loop    *)
(* loses one, has one twice, or finds an empty slot.                       *)
OnItsWay(l) == {adding[w].peer : w \in {v \in DOMAIN adding : l \in ToSet(adding[v].to)}}
Asked(l) ==
  {p \in Peer : l \in DoesOf(p)} \ (toAdd \cup away \cup {adding[t].peer : t \in {s \in Thread : pc[s] = "inbox"}})
PeersKept ==
  /\ TypeOK
  /\ \A l \in Loop :
       /\ Asked(l) = OnItsWay(l) \cup ToSet(queue[l]) \cup ToSet(peers[l]) \cup dropped[l]
       /\ Cardinality(Asked(l)) = Cardinality(OnItsWay(l)) + Len(queue[l])
                                    + Len(peers[l]) + Cardinality(dropped[l])

(* Each round polls every peer of its list once, those behind an erased    *)
(* one included.                                                           *)
NoneSkipped ==
  \A t \in Thread : pc[t] = "walk" =>
    \A j \in 1 .. Len(peers[At(t)]) : peers[At(t)][j] \in visited[At(t)] <=> j > i[t]

(* What makes a loop drop a peer.  The read and the write loop drop only   *)
(* peers whose socket failed: one that is short of room, or has nothing to *)
(* read, keeps its peer.  The accept loop drops only acceptors whose       *)
(* accept() has reported an error before; that error may have been a       *)
(* passing one, and the acceptor's socket still open.                      *)
DroppedForCause ==
  /\ \A l \in {"read", "write"} : \A p \in dropped[l] : sock[p] # "open"
  /\ \A p \in dropped["accept"] : ~good[p]

(* Every peer added comes to be served, and the write loop drops those     *)
(* whose socket failed, whichever loop saw the error, unless stop() is     *)
(* called: again and again none is left on its way, and none broken.       *)
Served ==
  /\ []<>(~go_on \/ \A l \in Loop : Asked(l) = ToSet(peers[l]) \cup dropped[l])
  /\ []<>(~go_on \/ {p \in Asked("write") : sock[p] # "open"} \subseteq dropped["write"])

(* stop() returns, except in two situations that nothing resolves: a       *)
(* thread waits in add() for room in a ring whose loop has ended, or whose *)
(* loop the same thread would run next, or it waits for room in            *)
(* accept_inbox, which the user's thread, now in stop(), no longer empties.*)
Unattended(t, l) == \A s \in Started : l \in ToSet(LoopsOf(s)) => pc[s] = "done" \/ s = t
Blocked ==
  /\ upc = "stopping"
  /\ \E t \in Started :
       \/ /\ ~Idle(t) /\ ~adding[t].wrote
          /\ Len(queue[Head(adding[t].to)]) = QueueCap /\ Unattended(t, Head(adding[t].to))
       \/ pc[t] = "inbox" /\ inbox = AcceptCap
StopReturns == (upc = "stopping") ~> (upc = "joined" \/ Blocked)
=============================================================================
