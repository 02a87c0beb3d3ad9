# TLA+ verification of utttil

utttil is a header-only C++ library for low-latency messaging. Its core is a lock-free single-producer
single-consumer ring buffer; on top of it stand peers (TCP, UDP multicast, and a reliable multicast that replays
over TCP what UDP lost), the polling threads that drive them, an io_uring variant of the same, and containers,
serialisation and a journal beside them. Paths below are under `src/utttil/` unless they say otherwise.

The project models the parts where threads, sockets and long sequences of calls meet, checks them with TLC on small
instances, and proves what it can of them with TLAPS for every value of the constants. `PROJECT.json` ties each
definition to the lines it models, each property to the hazards it is for, and each property to a mutation of the
code's model that breaks it (the mutants stand before the definitions they mutate, under a comment that names the bug).

## 1. Inventory

| Component | State it keeps | Operations | Interacts through | What is hard |
|---|---|---|---|---|
| `ring_buffer.hpp` | `front_`, `back_` (free-running `size_t`), `data` | push_back, emplace_back, front, pop_front(n), clear, back/front_stretch(_2), advance_* | shared memory of two threads, no lock | interleaving of loads and stores, wrap of the indices, stretches computed from an index that moves |
| `io/udpmr_msg.hpp` | server: history `outbox_msg`, `sent_it`, `replay_clients`; client: `buffers`, `next_expected_seq`, `next_ordered_seq` | async_send, pack, write, accept, read, unpack, request_replay | datagrams, a TCP connection each way, rings to the application | lost, repeated and reordered datagrams, trimming during a replay, threads that wait for each other's room |
| `io/tcp_msg.hpp`, `io/tcp_msgs.hpp`, `io/tcp_raw.hpp` | rings of messages and of bytes, `fd`, `good_`, `outboxes` | async_send, pack, write, read, unpack, accept | byte stream, rings to the application | a stream cut anywhere, several producers, rings that are full, failures seen by one thread only |
| `io.hpp` (context) | `go_on`, three rings of new peers, the lists of the loops | add (bind, connect), start_*, loop_accept/read/write/all, stop | threads, rings of peers | peers added from two threads, erased from a list that is walked, stop against waiting threads |
| `pool.hpp` (fixed_pool) | `collection`, `first_free`, `size_` | alloc, free, for_each | pointers held by callers | free list inside the cells themselves, constructors that throw |
| `dict.hpp` (seqdict_pool) | a pool, `key_map`, `next_seq` | push_back, find, erase | fixed_pool | keys and cells that must agree, a counter in a narrow type |
| `iou.hpp`, `iou/peer.hpp` | `peers`, the io_uring, the rings of each peer | bind, connect, loop, accept/read/write_loop, signal | completions | completions after the peer is gone, deferred actions, errors that end the loop |
| `srlz/journal.hpp`, `mapped_file.hpp` | mapped file, its size field, `next_file_id` | write, read, eoj, reset | files, shared between processes | crash between a record and its size, reader and writer at the end of a file |
| `srlz/int.hpp` and the rest of `srlz/` | none | serialize, deserialize, serialize_size | devices | widths, signs, boundaries |
| `dfloat.hpp`, `math.hpp` | mantissa, exponent | arithmetic, normalisation | - | overflow and lost digits |
| `synchronized.hpp`, `spinlock.hpp` | value, mutex, condition | lock, try_lock, wait_for_notification | threads | ownership of a moved lock |
| the rest (strings, url, json, log, sha256, random, timestamps, ...) | values | pure functions and wrappers | - | nothing a state machine shows |

What makes each modelled component correct:

* **ring buffer** - it is a bounded FIFO; the threads never touch the same slot; the stretches lie inside the array,
  apart from each other, and carry the bytes in order; `pop_front(n)` returns.
* **reliable multicast** - the application receives 0, 1, 2, ... without gap or repetition; every message the client
  knows to exist travels exactly one of the two paths; a client is refused only for a message it misses, that is on
  neither path and that the server has no more or never had; the server never trims what it has yet to take; room in its
  history comes back, but in the situations section 4 names.
* **message connections** - the stream is a run of whole messages; what each producer sent arrives once and in order.
* **context** - each peer reaches each of its loops once, is polled in every round and dropped only for a cause: a
  socket that failed, or an error that accept() reported; `stop()` returns, but in two situations (section 4).
* **pool and dictionary** - no cell is handed out twice; an object stays until its owner frees it; for_each visits what
  is held; keys and objects correspond one to one.
* **io_uring context** - a message peer that is served has one request per direction, never none and never two; no byte
  is lost or repeated between two ends, however a request is cut, put off or refused; what is sent arrives.
* **journal** - what the files decode to only grows, by whole records, through crashes and restarts; a reader gets it in
  order; nothing is written past a file but a record for which serialize_size asks too little, or one longer than a file.
* **dfloat** - a number keeps its exact value or the operation says that it would not; comparison, printing and
  serialisation agree with the value.

## 2. Modules

| Module | Models | Code's names -> model's names |
|---|---|---|
| `RingBuffer` | `ring_buffer.hpp`, load by load | `front_`, `back_`, `data`; `ppc`/`cpc` are the program counters inside push_back and front/pop_front; `Word` is `size_t` with a small width, `Slot(p)` is `p & Mask` |
| `BoundedFifo` | what the ring promises | implemented by `RingBuffer` under `queue <- Contents` (the published slots) |
| `RingBufferProofs` | proofs about `RingBuffer` | |
| `RingStretch` | back_stretch, front_stretch, their `_2` variants and the code around them in `tcp_raw.hpp` and `iou/peer.hpp` | `build` says whether each mention of the other index loads it (the default debug build) or one load serves the call (the optimised ones); `caller` which of the two users drives the ring |
| `RingStretchProofs` | proofs about `RingStretch` | |
| `Udpmr` | `io/udpmr_msg.hpp` with the write path of `io/udpm_msg.hpp` | `sentIt`, `nextExpected`, `nextOrdered`, `buffers`, `it` as in the code; `front`/`back` are the ends of the server's `outbox_msg`; `wpc` is where the write thread is between taking a message and having copied it, `link` the client's place in `replay_clients`; `req`/`resp` are the two directions of the replay connection with marks for what is sent and what has arrived |
| `OrderedDelivery` | what the multicast promises | implemented by `Udpmr` (`RefinesDelivery`) |
| `UdpmrProofs` | proofs about `Udpmr` | |
| `TcpMsg` | `io/tcp_msgs.hpp`, and `io/tcp_msg.hpp` as the case of one outbox, over `io/tcp_raw.hpp` | `outbox`, `sock`, `inbox` are the bytes on their way; a byte is named by its message and its place in it |
| `MergedFifo` | what a message connection promises | implemented by `TcpMsg` (`RefinesMerged`) |
| `TcpMsgProofs` | proofs about `TcpMsg` | |
| `IoContext` | `io.hpp` | `adding` is a thread inside add(), `slot` the ring slot being written, `queue` the rings of new peers, `peers` the lists of the loops, `i` and `phase` where a thread is in its walk |
| `IoContextProofs` | proofs about `IoContext` | |
| `FixedPool` | `pool.hpp` | `collection`, `first_free`, `size_`; `owned` is a history of the pointers callers hold, `lost` of the cells whose constructor threw |
| `SeqDictPool` | `seqdict_pool` of `dict.hpp`, extends `FixedPool` | `next_seq`, `key_map` |
| `SeqMap` | what the dictionary promises | implemented by `SeqDictPool` (`RefinesMap`) |
| `PoolProofs` | proofs about `FixedPool` and `SeqDictPool` | |
| `IouContext` | `iou.hpp`, `iou/peer.hpp`, with message peers (the rings of raw peers are in `RingStretch`) | `ring` is the io_uring: `inflight` are its requests in the kernel, by peer and action, and `cq` the completions, no-ops included; `lpc` is where the one thread of the loop is; `wire` the socket; `gone` the peers whose last `shared_ptr` the user let go of |
| `IouContextProofs` | proofs about `IouContext` | |
| `Journal` | `srlz/journal.hpp` over `mapped_file.hpp` | `disk` are the files, each with its size field and the bytes behind it; `wnext`/`rnext` are `next_file_id`; `wpc`/`rpc` where a writer and a reader are |
| `AppendLog` | what a journal promises | implemented by `Journal` under `log <- Log`, what the files decode to (`RefinesLog`) |
| `JournalProofs` | proofs about `Journal` | |
| `VarInt` | `srlz/int.hpp`, as operators | a byte is its stop bit and its low seven bits; `Journal` and `DFloat` write and read with it |
| `DFloat` | `dfloat.hpp`, `exp10` of `math.hpp` | `acc` is a dfloat that goes through the operations, `exact` its value as an integer, kept beside it |
| `MC...` | the instances TLC checks | |

How they fit: `RingBuffer` refines an atomic queue, which is why `Udpmr`, `TcpMsg` and the inboxes of `IoContext` treat
a ring as an atomic queue. The one exception is the rings of new peers in `IoContext`: they have two producers, which
the refinement does not cover, so their pushes are split into the write of the slot and its publication. A loop that may
spin on a ring is modelled one element per step, so that the other threads run in between and a wait is a step that is
not enabled.

Grain of a step. In `RingBuffer` and `RingStretch` a step reads the other thread's index at most once. Elsewhere a step
is what a thread does between two accesses of something shared: one message packed, one send, one datagram handled, one
peer polled. Where a thread gives a slot free before it has finished with it, as pack() of the multicast server does,
the two are steps of their own. Stores of one thread are seen in program order (the default debug build, and x86 for
stores the compiler emits in order).

Data is abstracted to what the properties distinguish: a multicast message is its number, a datagram the interval of the
messages packed in it, a byte its message and its place, a peer a model value, a message's size one of two shapes.

## 3. Runs

| Run | Question | Bounds, and why they are enough |
|---|---|---|
| `ring_safety` | Is the ring a bounded FIFO for two threads, whatever their interleaving? Does pop_front(n) end? | 4 slots, a word of 12 values, so that each index wraps while the ring is in every fill state; pops of up to 5, more than the capacity; two values, enough to see one in place of another |
| `udpmr_safety` | Does the client deliver in order, is every gap covered by exactly one path, and can the threads block each other for good? | streams from 0 and from 1, up to 5 messages, datagrams of one or two, a history of 3 that is trimmed one at a time (so a request may be refused, and a message overwritten while it is copied), one response in the queue and one on the wire (so the server comes to wait on a client that is gone), other queues of 1 and 2 (so every wait for room happens), sockets that may fail on both sides, sendto included; the datagrams sent so far may arrive in any order, any number of times or never |
| `stretch_safety` | Are stretches apart and in order, inside the array in optimised builds, and when are they not in the debug one? Is a full ring emptied? | 4 slots, word of 12, sends and reads of any length, both users in an optimised build and the tcp one in the debug build |
| `tcpmsg_safety` | Do messages arrive whole, once and in order per producer, and do they all arrive? | two producers, 3 messages, sizes of one and two bytes, rings of 3 bytes (a message of the larger shape fills one), sockets of 2, so that every message is cut somewhere |
| `tcpmsg_closes` (violation) | Does a healthy connection stay open? | one producer |
| `io_safety` | Does each peer reach its loops once, is each polled in every round, dropped only for a cause? When does stop() not return? | an acceptor and two connections, one of them and the acceptor fragile; rings of one, so that add() waits; the three-thread and the one-thread program |
| `io_twoadds` (violation) | Does add() keep its peers when a connection is accepted while the user connects? | an acceptor, a client and a connection |
| `iou_safety` | Does each peer keep one request per direction, do the bytes stay whole, and do they arrive? | one connection, both of its ends in the context as in `test_iou.cpp`; messages of one and two bytes; rings of 2, so that every ring fills and empties and every request may be cut or put off; the client's end sends twice; the server's end may fail, either may be let go of |
| `iou_stuck` (violation) | Do the messages come out of the bytes that arrived? | one connection, messages of one byte |
| `pool_safety` | Is a cell ever handed out twice, or an object overwritten or missed? Do keys and objects correspond? | 4 cells, 5 pushes (a cell is reused), every order of push_back and erase, the initial memory of the last cell any index, constructors that may throw |
| `journal_safety` | Does the journal only grow, by whole records, whatever crashes? Does a reader get it in order? | signed records of 16 bits, of one, two and three bytes: two that serialize_size is right for (-3, 200), two that it is not (100, -200) and one longer than a file (20000); three files with room for two bytes: a file is left full, left with a gap, left empty, left with half of a record and written past its end; readers that ask eoj() and readers that count |
| `dfloat_safety` | Do sums, differences, changes of exponent and reloads keep the value? Do comparison and printing agree with it? | unsigned words of 10 bits with 3 bits of exponent: mantissas up to 127, eight exponents, and every pair of them |

A run whose specification stops on purpose (all messages sent, threads ended) says `CHECK_DEADLOCK FALSE`; the others
are checked for deadlock. In `udpmr_safety` the server's read thread may also wait for ever on a client that is gone, as
it does in the code; what then becomes of the history is `RoomReturns`'s to say.

What the violations show (each is a finding in `PROJECT.json`, with the line it contradicts):

* `tcpmsg_closes` - unpack() closes the connection when only part of a two-byte size has arrived.
* `io_twoadds` - add() is called by the thread that binds or connects and by the one that accepts, both pushing into the
  same single-producer rings: one peer overwrites the other and is never served. `io_safety` takes `Overlap = FALSE`,
  programs in which no connection is accepted while the user adds a peer; `PeersKept` holds for those.
* `iou_stuck` - unpack() of the io_uring peer runs only when a read completes, so a message that came while `inbox_msg`
  was full stays among the bytes until more bytes come. `iou_safety` checks what is left of the promise, `BytesArrive`.

Facts that narrow the passing runs, stated where they are assumed:

* A stream numbered from 1, as the comment of `src/msg.hpp` has it, looks like a gap to a new client (`next_expected_seq`
  begins at 0), which asks for message 0, is refused, and is given nothing. `udpmr_safety` runs such streams too: they
  are why `RefusedOnlyIfLost` says "has no more, or never had". `src/server_udpmr.cpp` numbers from 0.
* A message may be overwritten while pack() copies it (`Overwritten`): `sent_it` has moved past it, so it may be trimmed
  and its slot filled anew. The copy ends there: what a torn message does further on is not followed.
* `Udpmr` assumes `FrameMax <= InboxCap`: a datagram with more messages than inbox_msg holds is never delivered.
* `TcpMsg` assumes that every message fits both byte rings (`ShapeAssumption`); nothing checks it, and a larger one
  blocks what follows. `IouAssumption` says the same.
* In the debug build, the Makefile's default, each mention of the other thread's index loads it: back_stretch compares
  `front_` and loads it again to subtract, and if the consumer has passed the end of the array in between the difference
  is negative, a huge `size_t`, and the assertion of line 178 fails; front_stretch has the same fault without the
  assertion. `StretchInside` says that a stretch leaves the array in this build only and only then, and `stretch_safety`
  reaches both. One load a call is what an optimising compiler makes of it; nothing in the code obliges it to. The two
  stretches of the io_uring peer are modelled for the optimised build only.
* `StreamInOrder` is about one stretch at a time (`tcp`). The io_uring write takes front_stretch and front_stretch_2 in
  two calls; if the producer wraps in between, writev skips bytes and sends others twice: `Sequential` fails for the
  caller `iou`. That is so for peers of bytes, whose rings the application moves meanwhile; the peers of messages that
  `IouContext` models move them in the loop's thread only.
* `SeqDictPool` runs with `KeySpace > PushMax`: once the key type wraps onto a key still present, insert does not
  replace it and `KeysMatchObjects` fails.
* serialize_size asks too little for a negative integer of more than one byte, and for one whose highest group of bits
  reads as a sign. Such a record may be written past the end of its file, and so may one that is longer than a file: `OverrunExplained` says
  that no other is, and `journal_safety` reaches both. The writer goes no further then and may only die (`Overrun`):
  what else a write behind the mapping does is not followed.
* A journal is read while nobody writes it: beside a running writer, eoj() takes the number of a file that is not there
  yet, and `ReadsWhatWasWritten` fails.
* `DFloat` runs unsigned. Signed (`Signed = TRUE`, 11 bits with 2 of exponent) `ValueExact` fails, because the test
  before scaling looks at the upper bound only and a negative mantissa wraps, and `Ordered` fails, because the remainder
  of a negative number counts as if it were positive (0 < -0.05). `PowersAssumption` keeps to four bits of exponent,
  where exp10 is exact.
* In `IouContext` bind and connect run between two turns of the loop, and a peer is let go of only while the kernel works
  on none of its requests (`Unused`). Nothing in the code sees to either: inside, they are a data race on a container and
  a read into freed memory, which have no outcomes to choose from.
* A process that ignores SIGPIPE: `::send` is called without MSG_NOSIGNAL, and otherwise the process ends before it looks
  at the error.
* `go_on` is read afresh in each round, as builds do whose loops call functions the compiler cannot see through; it is
  a plain bool.

## 4. Fairness, and why the code justifies it

* Every polling thread keeps taking the step it is at (WF of each thread's actions): the loops have no exit but `go_on`,
  and an operating system runs its threads.
* In `RingBuffer`, the producer keeps pushing: pop_front(n) for n beyond what is queued waits for it by design.
* Sockets: a send or read that is possible again and again happens (SF), because TCP delivers and the other side
  polls. In `Udpmr` that is `Unpack` of some number of responses; the other steps of its threads and of the connection
  (`ServerWrite`, `Accept`, `ServerRead`, `ClientRead`, `WriteRequest`) have WF. Nothing is assumed of datagrams: they
  may all be lost.
* The application pops what arrives (WF of `Take`, `TakeAccepted`), as the demo programs do.
* In `IoContext` the write to a broken socket is tried again and again (SF of `WriteFails`): the application keeps
  writing. A peer nobody writes to is never found broken by the write loop, because an empty outbox returns early.
* In `IouContext` the one thread of the loop runs (WF of `Loop`), the kernel completes a request it can serve (WF of
  `KernelAccept`, `KernelRead`, `KernelWrite` of each end), and the application takes the peers and messages it is given
  (WF of `TakeAccepted` and `Take`), as `test_iou.cpp` does. WF is enough: a request stays in the kernel until it
  completes.
* `stop()`, failures, arrivals of connections, sends and letting go of a peer are never required. `Journal` and `DFloat`
  need no fairness: nothing is promised there but safety.

Liveness: `PopTerminates`, `GapsClose`, `RoomReturns`, `Drains`, `AllArrive`, `Served`, `StopReturns`, `BytesArrive`.
`GapsClose` speaks of messages the client knows to exist, and of a client whose connection lives (`good`): one that is
refused closes it. The last datagrams of a stream can be lost for good. `RoomReturns` has three exceptions, each of
which the run reaches and fails without: the read thread, the only one that trims, waits at `udpmr_msg.hpp:470` on a
client that is gone and whose socket takes no more (`Stalled`); the write thread has dropped the server after a failed
sendto (`wpc = "out"`); the message being copied is overwritten. `Served` is written as "again and again nothing is left
to do, unless stopped", which for the finitely many peers of a run says the same as a leads-to per peer. `StopReturns`
excepts the two waits that really block, and not a ring that is full for a while: a thread in add() whose ring is full
and whose loop nobody runs any more, because every thread that runs it has ended or is the one that waits; and one
waiting for room in accept_inbox, which the user, now in stop(), no longer empties. `BytesArrive` excepts a loop that
has ended, which is also what one failed request of any peer does, and an end that was let go of.

## 5. Proofs

TLAPS checks every theorem of `RingBufferProofs`, `RingStretchProofs`, `UdpmrProofs`, `TcpMsgProofs`, `IoContextProofs`,
`PoolProofs`, `IouContextProofs` and `JournalProofs` to the last leaf. Each has one inductive invariant, proved action
by action, and the properties are its consequences. `PROJECT.json` lists the theorems; the constants' assumptions are
those of the modules.

**Ring buffer**, for every capacity, every word size that is a multiple of it and larger (`WordAssumption`: a power of
two inside 2^64), and every value set.

* `Invariance`: `Spec => []IndInv`. `NeverOverfull` alone is not inductive: that a push keeps the size within the
  capacity needs what the producer saw before it wrote. `IndInv` adds `ProducerRoom` (past its check the producer has
  room: the consumer can only make more), `WrittenSlot` (what is about to be published is in the slot) and
  `ConsumerData` (the consumer removes no more than it saw).
* `NeverOverfullAlways`, `NoSlotRaceAlways`: from it. The second needs that two positions less than a capacity apart have
  different slots across the wrap of the word (`WindowDistinct`, `WordDistance`, `BackSlotFree`), which is where
  divisibility of the word by the capacity is used.
* `RingBufferRefinesFifo`: `Spec => Fifo!Spec`. Publishing a slot maps to Push, reading to Front, advancing to Drop, all
  else stutters, by the lemmas on how `Size` and `Contents` change.

**Byte rings**, for every capacity and word, in the optimised builds (`Builds = {"release"}`, a hypothesis of each
theorem: one load of the other index per call). Nothing is proved of the debug build, where stretches do leave the array
(section 3).

* `StretchInvariance`: the invariant says what each side still knows after the other has moved: the stretch the producer
  holds is free and the one the consumer holds is filled, since each side moves its own index only.
* `StretchInsideAlways`, `StretchesApartAlways` (from `WindowDistinct`: positions less than a capacity apart have
  different slots) and `StreamInOrderAlways`, which speaks of the caller that takes one stretch at a time.

**Reliable multicast**, for every number of messages, size of history, datagram and queue, any loss, repetition and order
of datagrams, and sockets that fail.

* `Invariance`: `Spec => []IndInv`. What the client received is not enough to know that the next message continues it:
  the invariant ties the numbers of the client (`nextOrdered`, `nextExpected`, `buffers`) to the request that is under
  way, to what the server has still to send of it, and to where its history starts. TLC checks it too, in `udpmr_safety`.
* `DeliveredInOrder`, `NoMessageLost` (each message known to exist is on a path, unless the client was refused), and
  `NeverWaitsInVain`.
* `TurnedAwayOnlyIfLost`, wherever the numbers begin. That a client is refused only for a lost message has two halves:
  the first refusal answers a request whose first message is behind the history, not delivered, in no datagram the
  client holds and in no response (`RefusalLoses`); and it stays so, because `front` only grows and the client neither
  asks again nor keeps a datagram from before `next_expected_seq` (`LostStays`).
* `DeliveryImplemented`: `Spec => OrderedDelivery!Spec`.

**Message connections**, for every number of producers and messages, every assignment of sizes and every ring and socket.

* `ConnectionInvariance`: the bytes written so far, wherever they are (`Stream`), are a run of whole messages but for the
  last (`Framed`), and a reader that has taken the first `Done` of them has the messages that end there (`Carries`).
  `Framed` is said of every byte and its neighbour rather than by a recursion over the stream, so that a byte at either
  end can be added or removed without an induction; cutting the stream anywhere between rings and sockets does not
  change it.
* `StreamWholeAlways`, and `MergedImplemented`: `Spec => MergedFifo!Spec`.

**Context**, for every set of peers, capacity of the rings and of the program's threads, for programs in which two
threads are not in add() together (`Overlap = FALSE`; with it the property fails, section 3).

* `LoopsInvariance`: types, where each thread may be (`Threads`), that each peer is in exactly one place on its way to
  each loop (`Kept`), and that the part of a list that was walked was polled in this round (`Walks`).
* `PeersKeptAlways`, `NoneSkippedAlways`, and `DroppedForCauseAlways` when acceptors whose sockets may fail do nothing
  but accept (`AcceptorsAccept`, as the tcp ones).

**Pool and dictionary**, for every capacity, index type, object set and initial memory, with or without throwing
constructors.

* `PoolInvariance`: `Spec => []IndInv`. That no cell is handed out twice is not inductive: it needs the shape of the
  whole free list. `Linked` says that there is a sequence without repetition, starting at `first_free` and following
  the links, of exactly the cells not taken; its length is tied to `size_` by `Counted`. The last link is free, as in the
  code, which never reads it.
* `NeverTwiceAlways` and `ObjectsKeptAlways` follow. `ForEachExactAlways` adds that the walk of for_each over the list
  marks the cells of that sequence and no others, by an induction on the steps of the walk: it visits the cells callers
  hold, and those whose constructor threw, which hold no object.
* `DictInvariance`: the pool's invariant holds under the dictionary's steps, and keys and cells correspond. From it
  `KeysMatchObjectsAlways`, and `MapImplemented`: `Spec => SeqMap!Spec`, when fewer objects are pushed than there are
  keys (`PushMax < KeySpace`; otherwise a key comes back, section 3).

**io_uring context**, message peers, for every set of connections, every capacity, messages of any number and size that
fit the rings, any order and cut of completions, requests that fail and peers that are let go of (`IouAssumption` and
nothing else).

* `Invariance`: `Spec => []IndInv`. `OneChain` is not inductive: that handling a completion leaves exactly one request
  needs that nothing else of that peer and action is in the io_uring, that the completion is of a peer that was started
  once, and that what makes the next request is not skipped. `RingOK` has, for each peer and action, at most one of a
  request and a completion; `Places` where each connection is from connect() to the application, so that none is accepted
  twice; `Chains` that a peer that is served has its request, one not yet started has none, and one let go of has nothing
  in the kernel; `Loops` that before the loop ends every fd is open and that it packs or unpacks for a peer there is;
  `AcceptRoom` that a pending accept has room.
* `StreamWhole` needs the same and two parts more. `Rooms`: the room of a read and the bytes of a write were taken when
  the request was made; unpacking only makes room in inbox, and packing adds behind what is written, so what was asked
  for still fits (`ReadRoom`, `WriteRoom`). `Flows`: the bytes in inbox, the read result, the wire and what is left of
  outbox make up what was packed and not delivered, in that order. It says so of every pair of ends: when one of the two
  was let go of, what is left is a first part of it (`Stream`, whole, cut or deaf), without which the step that lets go
  of a peer would not preserve it.
* The bytes of a run of messages are the community modules' FlattenSeq, which is defined by a fold. That it takes off the
  first message and adds a last one is proved from the recursive function inside it (`IsRow`, `FlatNext`), with the
  least number at which a claim fails; cutting and joining goes by the lemmas on words (`CatLevi`: one word cut in two
  ways).
* `OneRequest` (`Spec => []OneChain`) and `BytesInOrder` (`Spec => []StreamWhole`).

**Journal**, for every size and number of files, a crash between any two steps, files that cannot be opened, and every
set of records that end at their only stop bit and are read back as themselves (`RecordAssumption`; TLC checks it for
the records of the run, through `VarInt`). Nothing is assumed of what serialize_size answers, nor that a record fits a
file.

* `JournalInvariance`: `Spec => []IndInv`. That what the files decode to only grows is not inductive: it needs that the
  bytes that count of every file are whole records, and that what a writer is in the middle of lies behind them
  (`Written`), so that a writer that dies there leaves nothing and its successor, which takes a file of its own, never
  continues it. Of a reader it says that it has read exactly what comes before its place (`ReadTo`), or that and one
  value more at the end of a last file that is empty. The lemmas on rows (`RowNext`, `RowSame`, `RowPrefix`) and on bytes
  (`OneMore`, `DecodeRest`) carry this from bytes to files.
* `OverrunAlwaysExplained`; `LogImplemented`: `Spec => JournalLog!Spec`, where only the step that writes the size is a
  Write; and `ReadsWhatWasWrittenAlways`, if `Default \notin Value`: a record equal to T() cannot be told from none.

Where a proof needs an induction (the walk of for_each, the records of a journal, the bytes of a run of messages), it
takes the least number at which the claim fails, which is a fact about sets of numbers (`LeastNumber`), because the
library's induction theorems have an operator as a parameter.

Only model-checked: all liveness, which with ENABLED is out of the prover's reach; and everything of `DFloat`, whose
claims are about products of variables and powers of ten, beyond the linear arithmetic the prover decides, and whose
number after a reload is what `VarInt` reads back. What `VarInt` computes is a recursion over integers of any size, for
which TLA+ has a function only when its domain is bounded, so that a value read back is the value written is checked for
the operands of the runs and not proved.

## 6. Not modelled

Listed with reasons in `PROJECT.json`. In short:

* Text formats, logging, hashing, random numbers, clocks, strings and identifiers: they keep no state that a property
  could relate. The containers of `dict.hpp` other than `seqdict_pool` wrap library containers; `seqdict_vector` resizes
  in a detached thread, but push_back spins until it is done.
* `synchronized` and `spinlock`: a lock of the standard library behind a proxy, which nothing moves.
* The plain multicast client: it promises nothing of what is lost. A datagram that meets the end of its ring is cut
  there, and every size read after it is wrong (a hazard, without a property).
* serialize, deserialize and operator== of fixed_pool do not follow the free list and leave no behaviour to preserve.
* Data races on containers (`replay_clients` of the multicast server, the peer map of the io_uring context) have no
  outcomes to choose from.

Of the modelled components these parts are left out: async_write of raw peers that were dropped (it spins), a message
larger than a ring, datagrams and bodies that fail to parse, a multicast server that restarts and a second client, the
one-thread program around the multicast peers, the callback of start_read, the starvation of the later outboxes in
tcp_msgs, the requests of raw io_uring peers (their rings are in `RingStretch`), io_uring peers freed under a request in
the kernel and one closed in order by the other side, what becomes of a multicast message overwritten while it is copied
and of a write past the mapping of a journal, what for_each does to a cell whose constructor threw, a journal read
beside its writer, the loss of power, dfloats of mixed types.

## 7. Plan

In order of what matters most to users of the library. 1 to 8 are done, and 10 but for its last part.

1. `RingBuffer`, `BoundedFifo`, `RingBufferProofs` - every other part rests on it.
2. `Udpmr`, `OrderedDelivery`, `UdpmrProofs` - the protocol.
3. `RingStretch`, `RingStretchProofs` - the byte rings under sockets.
4. `TcpMsg`, `MergedFifo`, `TcpMsgProofs` - messages over a stream.
5. `IoContext`, `IoContextProofs` - the threads that drive the peers.
6. `FixedPool`, `SeqDictPool`, `SeqMap`, `PoolProofs`.
7. `IouContext`, `IouContextProofs` - completions, deferred actions, errors and peers that go away.
8. `Journal`, `AppendLog`, `JournalProofs` - writer, reader and crashes.
9. `Udpmr` extended: a server that restarts (an epoch the code does not have), the one-thread program, malformed
   datagrams.
10. `VarInt` and `DFloat` - pure operators, checked against exact values at narrow widths; `Synchronized`.

Theorems left: none but those of `DFloat`, which section 5 says why TLC keeps.
