# A verification project for the network simulator

The program simulates a network of hosts and routers inside one process. Every
node is a thread with a queue. Routers compute their tables with a distance
vector algorithm; hosts transfer files over a TCP-like transport with
Go-Back-N and slow start. This directory holds TLA+ modules that model the
program, the TLC configurations that check them on small instances, and proofs
that TLAPS checks for every instance. `PROJECT.json` lists components, runs,
mutants, the map from definitions to source lines, findings, hazards and
theorems.

## 1. The system

| Component | Source | State | Operations |
|---|---|---|---|
| Transport | `TCPConnection.{h,cpp}` | sender: `m_cwnd`, `m_ssthresh`, `m_senderLastPacketAcked`, `m_lastPacketSent`, `m_outBuffer`, `m_isTimeoutAllowed`, timeout threads, `m_connectionLock`; receiver: `m_inBuffer`, `m_currentMessageSize`, `m_bytesReceivedSoFar`, `m_receiverLastPacketAcked` | `sendMessage` (two), `handleAck`, `handleData`, `timeoutBody`, `stopTimeout`, `closeConnection`, `resetConnection`, `onDataSentCompletely`, `onNewFileCompletelyReceived` |
| Routing | `Nodes/*` | `m_routingTable`, `m_links`, `m_nodeQueue`, `m_isRunning`, `m_mustStop` | `startNode`, `handleNewMessage`, `updateRoutingTable`, `broadCastNewLink`, `takeMessage`, `stopNode`, `clearQueue`, `joinThread` |
| Convergence | `NetworkController.cpp`, `Network::waitForConverge` | `m_algConvergeCounter`, `m_endTime`, `m_runningNodeCounter` | `inc/decConvergeCounter`, `inc/decRunningNodeCounter` |
| Forwarding | `Router::routeAndForwardPacket` | delay, drop rate, FIFO size | forward or drop a packet |
| Administration | `Network.cpp`, `main.cpp` | nodes and links | `addLink`, `updateLinkCost`, `temporarilyDownLink`, `run`, `shutDown`, `commandToSend`, setters |
| Messages | `Messages/*` | data classes | |
| Queue | `blockingconcurrentqueue.h`, `lightweightsemaphore.h` | `m_count`, the kernel semaphore, the queue in it | `enqueue`, `wait_dequeue`, `wait_dequeue_timed`, `try_dequeue`, their bulk forms |
| Lock-free queue | `concurrentqueue.h` | a sub-queue for each enqueuing thread (`tailIndex`, `headIndex`, `dequeueOptimisticCount`, `dequeueOvercommit`, blocks, block index), the pool and free list of blocks, the table of producers | `enqueue_bulk`, `dequeue_bulk`, `requisition_block`, `FreeList::add`, `try_get`, `get_or_add_implicit_producer`, exits of threads |

How they interact. The main thread reads commands. `run` starts a thread for
each node. Nodes talk only by `takeMessage` into each other's queues: a router
hands `RoutingMessage`s to its neighbours, a host hands `Packet`s to its next
hop. A host thread passes a packet from its queue to the `TCPConnection` of the
packet's source. A connection that waits for acks has a timeout thread, which
sends the window again. `send` runs `sendMessage` in the main thread. So a
connection is entered by three threads (host, timeout, main), and its packets
reach the first router from three producers.

What is hard here, and what makes each part correct:

* **Transport.** Packets and acks are lost and repeated, and packets of
  different producers overtake each other. The receiver acks every packet,
  the ones it discards too, and acks are not cumulative. Ids wrap. A receiver
  starts over at 0 after each file while old packets are on the way. Correct
  means: the sender counts a packet only if the receiver has accepted it; a
  file reported as transmitted is on the receiver's disk, whole; every
  transmission ends.
* **Routing.** Tables change while packets follow them and while messages with
  old costs are in the queues. Correct means: no circle of next hops at any
  moment; shortest ways when the algorithm stops; it stops.
* **Convergence.** The counter is changed by many threads. Correct means that
  it is zero only when nothing is left to do, and that it does become zero.
* **Life cycle.** Stop, clear and join race with nodes that are busy or asleep.
  Correct means: no node handles the null message that only wakes it; `shut
  down` and `run` return; nothing of one run is left for the next.
* **Queues.** The library is vendored, but every interaction of two threads goes
  through it: each node waits in such a queue, and each timeout waits in one with
  a time limit. It is lock-free code with counters that run ahead, indices that
  wrap and memory that comes back while others still look at it. Correct means:
  what one thread enqueues is dequeued once, in order, and nobody sleeps beside
  it.
* **Locking of a connection.** `stopTimeout` lets go of the lock its caller
  holds, `sendMessage` works without it, `handleAck` reads `m_isOpen` before it.
  Correct means: one timeout runs exactly while the sender waits, none is left
  when the object is replaced, nobody waits for anybody for ever.
* **Links that change.** `addLink` on a running network visits its two ends one
  after the other; the main thread then writes tables that the nodes' own threads
  read and write, without a lock; and tables accept only lower costs. Correct
  means: a table gets better only, and packets still arrive.

## 2. The modules

| Module | Content |
|---|---|
| `TCPConnection` | one direction of a transfer: sending half, receiving half, the path between them |
| `FileTransfer` | what the transport promises for files sent one after the other, without packets, windows or loss |
| `TCPTransfer` | the assumptions under which the promise is kept, the inductive invariant, the refinement mapping |
| `TCPTransfer_proofs` | the proofs |
| `MCTCPConnection`, `MCTCPTransfer` | files for the TLC runs |
| `ShortestWays` | the costs of all ways in a network, the reference for the tables |
| `DistanceVector` | routing and the convergence counter |
| `DistanceVector_proofs` | the proofs |
| `MCDistanceVector` | the topology of the TLC runs |
| `Lifecycle` | `run` and `shut down` in the main thread against the threads of the nodes |
| `Lifecycle_proofs` | the proofs |
| `MCLifecycle` | the network of the TLC runs |
| `LinkChanges` | links added and changed on a running network |
| `LinkChanges_proofs` | the proofs |
| `MCLinkChanges` | the symmetry of the TLC run |
| `TimeoutThreads` | the lock of a connection, its notifier and its timeout threads |
| `TimeoutThreads_proofs` | the proofs |
| `Semaphore` | what a semaphore promises |
| `LightweightSemaphore` | the semaphore of the queue: a counter and a kernel semaphore |
| `BlockingConcurrentQueue` | composes it with the elements and the threads that use the queue |
| `BlockingConcurrentQueue_proofs` | the proofs |
| `ProducerFIFO` | what a sub-queue promises: a FIFO queue |
| `ImplicitProducer` | the lock-free sub-queue of one enqueuing thread |
| `FreeList` | the initial pool and the free list of blocks |
| `ImplicitProducerHash`, `MCImplicitProducerHash` | the table from threads to sub-queues; the hashes of the TLC run |
| `ImplicitProducerHash_proofs` | the proofs |
| `ProofRules` | rules the proofs share: induction and recursion over the naturals, counting, remainders, ways |

Definitions whose names end in `_` and a word (`growWindow_noTimeout`, ...) are
mutants: versions with a plausible mistake. They are used by no specification.
`PROJECT.json` pairs each with the property that must catch it.

### TCPConnection

Variables keep the names of the fields. `phase` is the point the sender has
reached (`idle` before the first `send`, `sending`, `sleeping` in the repeat
delay, `done`); `round`, `filesWritten` and the field `at` of an ack are
history. A packet is the file it belongs to and its index; the wire carries
only `PacketId(idx)`, the index modulo `maxPacketId`, and that is all the
handlers look at. `Content(f)` is what must be on disk.

| Action | Code |
|---|---|
| `userSends`, `userPreempts` → `sendMessage` → `transmit` | `handleSend`, `commandToSend`, `sendMessage(msgBuffer, repeatDelay)`, `resetConnection`, `packetize` |
| `resendMessage` | `sendMessage()`, after the repeat delay |
| `handleAck` with `ackOfNextPacket`, `ackOfLaterPacket`, `ackOfEarlierPacket`, `growWindow`, `onDataSentCompletely` | `handleAck` and what it calls |
| `timeoutBody` | a timeout that expires while allowed |
| `handleData` with `acceptHeader`, `acceptData`, `acceptLastData`, `discard`, `sendPacketAck` | `handleData`, `onNewFileCompletelyReceived`, `sendPacketAck` |
| `drop` | a router drops a packet; the test `rand()/RAND_MAX > rate` can fail at rate 0.0 too |

Abstractions. *Handlers are atomic*: `handleAck` and `timeoutBody` hold
`m_connectionLock`; the gap in `stopTimeout` is entered with
`m_isTimeoutAllowed` false, so a timeout thread that gets the lock there does
nothing. What the main thread can do in that gap is the subject of
`TimeoutThreads`. *Time*: an armed timeout may expire at any moment, unless its
duration is negative: then the queue it waits in waits for ever
(`waitsForEver`). That can be so for the first timeouts, which
`Network::commandToSend` computes in 64 bits (`NegativeFirstRTT`), and until
`measureRTT` has brought `m_estimatedRTT` above zero (`negativeRTT`); of these
two only the sign is modelled. *The path* holds
`ChanCap` packets each way, loses any of them at any time and, if `Reorder` is
TRUE, delivers data packets in any order. Acks keep their order: they have one
producer, the receiver's host thread, and the routers on the way back hand them
on one by one. Arbitrary reordering of data is more than the queues do (each
keeps the order of one producer); what is proved under it holds for the code.
*`m_ssthresh`* starts at 2^64 - 1; every value above `maxPacketId` behaves the
same, so the model starts at `maxPacketId + 1`. *One direction*: a send in the
other direction resets both halves of an object; that is not modelled.

### DistanceVector

`m_nodeQueue[n][s]` is the part of n's queue that comes from router s: the
order of one producer is kept, the order between producers is free. A router's
broadcast is a set `toSend` of messages it has still to hand over; each
`takeMessage`, and each change of the counter under its lock, is a step of its
own, because the code hands a message over first and counts it afterwards.
`nextToSend` gives the order the code fixes (one destination after the other,
hosts before routers) and leaves open the order of the hash maps. Entries and
costs are naturals; costs of 64 bits would have to overflow to behave
otherwise. The counter keeps its width, as `CounterSize`: it is unsigned and it
does wrap (see `dv_premature`).

| Action | Code |
|---|---|
| `Init` | after `addLink` on a network that does not run, `Network::run` has created the threads |
| `startNode` | `Router::startNode`, `Host::startNode` up to the loop |
| `takeMessage`, `incConvergeCounter` | the two lines in each loop of `broadCastNewLink` |
| `handleNewMessage` with `updateRoutingTable`, `isBetter` | `handleNewMessage` for a routing message, in `Router` and `Host` |
| `decConvergeCounter` | the end of that handler |
| `waitForConverge` | a poll that finds the counter at zero |

Assumed of the links (`LinksAssumption`): symmetric, none from a node to itself,
none between hosts, costs above 0. `addLink` is meant for such links; a link
of cost 0 is taken for no link by `findLinkCost`, too.

### Lifecycle

`pc`, `todo` and `target` are the place of the main thread: the command, the
nodes its loop has still to visit, the node whose `stopNode` it is in. `thread`
is the place of a node's thread; `m_isRunning` follows from it. A queue is two
numbers, of routing and of null messages: with messages of several producers
any of them may be next, and content does not matter here. Whether a routing
message brings news, so that a router broadcasts, is a free choice; `MaxNews`
bounds the broadcasts after each router's first, `MaxRuns` the runs.

| Action | Code |
|---|---|
| `run`, `waitForConverge` | `Network::run`, a poll that finds zero |
| `begin`, `nextEntry` | `startNode` up to the loop, the broadcasts of the table one entry after the other |
| `takeMessage`, `incConvergeCounter` | the two lines in each loop of `broadCastNewLink`, in a router's or the main thread |
| `dequeueRouting`, `dequeueNull`, `decConvergeCounter` | the loop of `startNode`: dequeue, test of `m_mustStop`, handler and its end |
| `leave` | the end of the thread |
| `addLink`, `linkAdded` | a better cost for a link of a running router, broadcast in the main thread |
| `shutDown`, `stopNode`, `wakeNode`, `pauseOver`, `clearQueue`, `joinThread` | the loops of `Network::shutDown`; `stopNode` and `wakeNode` are the two lines of `AbstractNode::stopNode` |

Abstractions. `run` creates all threads at once: one that is created and has not
begun does nothing and has the same queue as one that is not yet created.
`takeMessage` tests the flag and enqueues in one step; a message enqueued after
the flag went up is the same as one that came before. `m_mustStop` is a plain
`bool` read by other threads; a thread that takes the null message has
synchronised with `stopNode` through the queue and sees the flag, any other read
may see either value, as in an interleaving. `clearQueue` under a thread that is
waiting in the old queue is undefined; the model lets it take its message
before or find the new queue empty, the mildest outcomes. Packets and
connections are absent: a thread busy with a packet, or asleep in a delay, is a
thread that takes its time, and the pauses of 500 ms end at any time. Two variables are
history: `cutShort`, whether the last pause of `shutDown` ended before every
thread had ended or slept beside an empty queue, and `late`, the nodes that took a
message after their own thread had ended. The user alternates `run` and `shut
down`; in another order the process ends (`join` of, or assignment to, the wrong
kind of `std::thread`).

### LinkChanges

The network runs and has no links yet: `run` before `add link`, which the program
allows. From there every sequence of `MaxChanges` commands is taken, before or
after the messages of earlier ones have been handled. `m_links[n][m]` is the cost of
a link or empty, and `betweenNodeCost` gives 0 where it is empty, as `operator[]`
does; `neighbours` are the keys of `m_toRoutersLinks` and `m_toHostsLinks`, which a
broadcast walks through.

`updateRoutingTable` takes no lock, and two threads are in it: a node's own, for a
routing message, and the main thread, for `addLink` and `updateLinkCost`. So a call
is a record in `calls`, with the thread that is in it and the place `at` which it has
come, and its accesses are steps of their own: what was found better when it was
checked need not be better when it is written.

| Action | Code |
|---|---|
| `addLink` | `Network::addLink`, `updateLinkCost`: the call for the first end |
| `otherEnd` | the call for the second end, once the first has returned |
| `addToLink`, `placeLink` | `addToRouterLink`, `addToHostLink`: the map of a broadcast, then `m_links` |
| `handleNewMessage` | a node's thread takes a message and reads the cost of its link |
| `checkEntry` | the condition of `updateRoutingTable` |
| `writeEntry` | its assignment to the entry, whatever that is by now |
| `broadCastNewLink` | a router tells its neighbours, in the thread that is in the call |

A broadcast is one step. Its messages go to different queues, where they are seen
no earlier than they are taken out; so handing them over at once and taking them
later gives the same tables as handing them over one by one. `lowest`, `halfLink`
and `raced` are history: the lowest cost a link has had, whether a message was ever
handled before its receiver had the link, and the entries that a thread replaced
by one no cheaper, since another had written them after its check. Left out is what
two accesses to one hash map at the very same moment do, which is undefined.

### TimeoutThreads

One sending connection and the threads that enter it: the host thread with acks,
the main thread with `send`, `shut down` and `run`, and up to three timeout
threads. Packets are left out; which case of `handleAck` an ack is, is a free
choice. `then` is where a thread goes on after `stopTimeout`. `undefined` becomes
true, and the connection stops, where two threads use `m_timeoutThreads`,
`m_timeoutNotifier` or `m_outBuffer` at once or a joinable thread is destroyed.
`outOfTurn` is history: a command and the handling of an ack have overlapped, or a
message was sent while the network was off, which `sendMessage` does not test.
`renew` leaves `m_repeatDelay` open, since a new object does not initialise it.

| Action | Code |
|---|---|
| `readIsOpen`, `handleAck`, `handleOtherAck`, `sendNextWindow` | `handleAck`: before the lock, under it, after `stopTimeout` |
| `stopTimeout`, `join`, `relock` | the three parts of `stopTimeout`: up to the unlock, the joins, from the lock on |
| `onDataSentCompletely`, `stopped`, `wakeUp`, `sendAgain` | the end of a message and its repetition |
| `closeConnection`, `closed`, `resetConnection` | the functions of these names, for either thread |
| `sendMessage`, `packetize`, `allowTimeout`, `startFirstTimeout` | `sendMessage` in the main thread, without the lock |
| `stopNode`, `startNode` | `Host::stopNode`, `Host::startNode` |
| `notified`, `expire`, `timeoutBody` | a timeout thread |

### The queues

`BlockingConcurrentQueue` extends `LightweightSemaphore` by the elements.
Producers put elements into `inner` and then signal; consumers take permits and
then elements. A loop around a compare-and-swap of `m_count` is one step.
Semaphore waits block, time out or only try (`patience`). `Semaphore` is the
abstract specification: a number of permits and threads that hold some.

`ImplicitProducer` has one producer, any number of consumers, and a step for each
access to shared state. The element enqueued at index i is i, so order and loss
can be seen; indices have a width and wrap. `ProducerFIFO` is a sequence.
Functions that work on blocks (`set_many_empty`, `unlink`) are part of the steps
that call them. `FreeList` and `ImplicitProducerHash` are the two structures the
producers share; both have a step for each atomic access.

| Action | Code |
|---|---|
| `waitMany`, `spin`, `stopSpinning`, `wake`, `timeOut`, `readjust`, `retake`, `tryMore`, `signal`, `post` | `LightweightSemaphore` and the kernel semaphore under it |
| `enqueue_bulk`, `signalEnqueued`, `wait_dequeue_bulk`, `try_dequeue_bulk`, `takeElements` | `BlockingConcurrentQueue` |
| `enqueue_bulk`, `insertBlock`, `insertFails`, `requisition_block`, `requisitionFails`, `undo`, `publish` | `ImplicitProducer::enqueue`, `enqueue_bulk` |
| `dequeue_bulk` ... `returnItems` | `ImplicitProducer::dequeue`, `dequeue_bulk`, in the order of their accesses |
| `try_get` ... `dropRef`, `add` ... `linkFailed` | `FreeList::try_get`, `add`, `add_knowing_refcount_is_zero` |
| `get_or_add_implicit_producer` ... `insert`, `recycle`, `add_producer`, `exit`, `implicit_producer_thread_exited`, `deactivate` | the functions of these names in `ConcurrentQueue` |

Assumed: sequential consistency, where the library uses weaker orders and fences
chosen to the same effect. Left out: explicit producers and tokens, which the
program never creates, and exceptions in the copying of elements, which
`shared_ptr` and `bool` do not throw.

## 3. What TLC checks

Every state space is searched completely. `CHECK_DEADLOCK FALSE` is set
because the systems may stop: a sender that is done, a network at rest; only
`fl_pool`, whose threads go on taking and giving back blocks, is checked for
deadlock.

| Run | Instance | Properties | States |
|---|---|---|---|
| `tcp_repeat` | 1 file of 5 bytes, packets of 2 (4 packets with header), 7 ids, 3 packets each way, reordering, 2 transmissions | `WindowOK` `AckedIsAccepted` `CompleteMeansWritten` `IInv` `ImplementsFileTransfer` | 141k |
| `tcp_two` | 2 files of 3 and 5 bytes, FIFO path, 3 transmissions, first timeouts that are negative or not, with fairness | `IInv` `FileIntact` `TransmissionEnds` | 27k |
| `dv_detour` | host and two routers in a triangle, the direct link of host and second router is the longer way | `NextHopIsCloser` `CounterCounts` `RestIsShortest` `Converges` | 53k |
| `lc_shutdown` | host and two routers in a line, 2 runs, 1 more broadcast, pauses of any length, with fairness | `NullNeverHandled` `NoStopLeft` `CleanAfterShutDown` `ShutDownReturns` | 644k |
| `lk_change` | 2 routers and a host, costs 0 and 1, 3 commands, routers symmetric | `PacketsArrive` `OnlyHalfLinksFlatter` | 3.0M |
| `ts_lock` | host, main and 3 timeout threads, any number of commands and acks | `RacesAreOutOfTurn` `OneTimeout` `SenderHasTimeout` `NoThreadLeft` `StopReturns` | 29k |
| `bq_wait` | 2 producers, 2 consumers, 3 elements, bulks of 1 and 2 | `PermitsAreElements` `HoldersFindElements` `ImplementsSemaphore` `NoLostWakeUp` `TimedWaitReturns` | 36k |
| `cq_subqueue` | 1 producer, 2 consumers, 4 elements from index 7 of 8, blocks of 2, 3 blocks, bulks of 1 and 3 enqueued, up to 2 dequeued at once | `NeverPastTail` `FindsItsBlock` `NoBlockLeaks` `ImplementsFIFO` `AllDequeued` | 217k |
| `fl_pool` | 2 threads, 3 blocks | `OneOwner` `NothingLost` `SomeCallReturns` | 342k |
| `ph_grow` | 3 threads whose hashes collide, table of 2 that grows, 1 exit or failed allocation | `OwnProducer` `RoomLeft` `EveryCallReturns` | 306k |

The type invariants and the inductive invariants of TCP, routing, life cycle and
changing links are theorems (section 5); `IInv` is checked as well. The other
inductive invariants (`RestInv`, `FlatterInv`, `TimeoutInv`, `QueueInv`, `HashInv`,
`PoolInv`) were checked on the same instances before they were proved, `HashInv` with the
shape of each table spelled out in the place of `Seq(Table)`, which TLC cannot
evaluate. In the other modules the type invariant is the first conjunct of a
property of the run:
`OneTimeout`, `PermitsAreElements` (with `KernelBalance`, the balance of the kernel
semaphore), `NeverPastTail` (with `DequeueBooks`, the balance of the dequeue
counts), `OneOwner` (with `NotMarkedWhenTaken`, the assertion of `try_get`) and
`OwnProducer`.

Why the bounds are enough. Four packets give windows of 1 and 2 packets and a
last window cut short by the end of the file; three places on the path give a
whole window with a stale duplicate among it; two transmissions let packets and
acks of the first reach the second, which is where the counters of the receiver
start over, and three, of two files, let what is left of one of them be on the way
when the next but one begins. Seven ids are more than the packets of a file, as the 65535 of the
code are for files below 650 KB. The triangle has routes
of two hops that are found late and must replace known ones, and, since a router
also learns ways to itself over its neighbours, cycles that the algorithm has to
cut. A counter of 16 values is more than the messages that can be under way at
once, and small enough to see it wrap below zero. Two runs show what the first
leaves to the second; one more broadcast, by a router or the main thread, can be
under way when the network is shut down; a host and two routers give every pair
of sender and receiver and the order hosts before routers.
In `lk_change` three commands make a triangle, or a way of two links of which one is
changed again, while messages are under way and threads stand between check and
write; costs of 0 give the ties that circles need, and the circle of `lk_circle` takes
just these three commands. In
`ts_lock` three timeout threads are one more than can ever be alive without
overlap. Three elements and four threads make `m_count` negative by two and let
one signal wake both consumers. Index 7 of 8 with four more elements passes the
wrap, fills blocks and lets the block index grow from 2 entries while a consumer
holds the old one. With three blocks and two threads one thread can take two blocks
off the list and put the first back while the other stands before a
compare-and-swap with the old head and its old neighbour.
Three entries in a table of 2 make it grow, with several threads at the door.

**Fairness.** `tcp_two`: weak fairness of `timeoutBody` and `resendMessage`, as
the threads waiting for a time get their turn, and a wait ends unless its duration is
negative; strong fairness of `handleAck`
and `handleData`, because routers drop packets independently at random, so of
packets offered again and again one gets through; none of `userSends` or
`drop`. `dv_detour`: weak fairness of every node's thread and of the polling main
thread. `lc_shutdown`, `lc_slow`, `lc_rerun`: weak fairness of every node's thread, of
the sending in it and of the main thread inside a command; none of the
commands. `ts_lock`: strong fairness of the steps of each
thread, as a mutex is in the end given to a thread that keeps asking for it; none
of acks and commands. `bq_wait`: weak fairness of threads inside a call; a
timed wait does expire. `cq_subqueue`: weak fairness of consumers inside a
call, and calls go on, since `BlockingConcurrentQueue` repeats one that fails;
none of the producer. `fl_pool`, `ph_grow`: weak fairness of threads inside a call.
A lock-free structure promises progress of some thread only: `SomeCallReturns`
says that of the free list, and `AllDequeued` is about a queue with one consumer
in the end, as a node's queue has; two consumers that go on disturbing each
other may both come back empty-handed for ever.

`RestIsShortest` and `OnlyHalfLinksFlatter` compare the tables with `Ways`, the
costs of all ways of at most as many links as there are nodes (`ShortestWays`),
computed from the links and not by messages.

## 4. Where the code does not do what is said of it

Each of these configurations ends in a counterexample. `tcp_overtake` and
`lc_rerun` are runs of `PROJECT.json`, whose findings quote what the repository says;
the others (`tlc -config X.cfg M`, with `MCTCPConnection` for the `tcp_` ones,
`MCTCPTransfer` for `tcp_negative`, and `MCDistanceVector`, `MCLifecycle`,
`MCLinkChanges`, `TimeoutThreads` as M) show why the models and theorems assume what
they assume, or except what they except.

* `tcp_wrap_window` (`FileIntact`). `handleAck` lets the window grow to
  `maxPacketId`, the whole id space. A full window accepted, its acks lost: the
  packet sent again has the id the receiver waits for. The run has 2 ids; with
  65535 the same happens when the window reaches that size. The receiver logs "File
  received completely!!!" (`TCPConnection.cpp:342`).
* `tcp_eight_bytes` (`CompleteIsOnDisk`). `handleData` knows a header by its 8
  bytes. With packets of 10 bytes and a file of 18, a duplicate of the last
  packet opens the next file; its own header is appended as data, and the file
  is acked to the end and never written.
* `tcp_empty` (`CompleteMeansWritten`). A file of 0 bytes ends for the sender and
  never for the receiver. The sender logs "File transmitted Completely!!!!"
  (`TCPConnection.cpp:296`).
* `tcp_preempt` (`CompleteIsOnDisk`). A `send` during a transmission resets the
  sender only; the receiver continues the old file with the packets of the new.
* `tcp_overtake` (`CompleteIsOnDisk`). A header that the timeout thread sent
  again is overtaken by the packets of the host thread, arrives after the end of
  the file and opens the next one with the wrong size. In the counterexample the
  overtaken packet is the only one of its producer, so the queues allow it.
* `dv_premature` (`ZeroMeansAtRest`). A message is handed over, handled and
  counted down before its sender counts it up: the counter goes to 2^64 - 1 and
  back to 0 in the middle of a broadcast. `README.md` says the counter tells when
  the algorithm stops.
* `tcp_negative` (`TransmissionAlwaysEnds`). With the default buffer size of 2^64 - 1 and a
  router delay the first timeout, `5 * defaultBufferSize * defaultRouterDelay`, is
  negative. `LightweightSemaphore` takes that as waiting for ever, so that after the
  loss of the header, or of its ack, nothing is ever sent again. `README.md:98-100` says
  that the timeout waits "for some amount of time" and then retransmits.
  `TransmissionEnds`, which `tcp_two` checks, says that nothing else stops a transmission.
* `lk_stale` (`UpdatesImprove`). A node's thread finds its route better than the one
  in the table; the main thread, in `addLink`, writes a still better one; the node's
  thread then writes its own over it. `AbstractNode.cpp:65` says "update should take
  place" where the known route costs more.
* `lk_circle` (`NoLastingCircle`). What may come of it. The main thread has announced
  the better cost, a neighbour has taken it over, and the stale route leads through
  just this neighbour. Neither of the two ever changes its mind: packets go to and
  fro for ever.
* `ts_race` (`NoRaces`). `sendMessage` works on `m_outBuffer` without the lock, while
  `handleAck` reads it with the lock. `README.md:92`: "To avoid crashes due to race
  conditions and other problems due to multithreading we took a lock".
* `ts_closed` (`ClosedHasNoThread`). `handleAck` tests `m_isOpen` before it has the
  lock, and `stopTimeout` gives the lock up to join; `closeConnection` comes in, and
  `handleAck` then starts a timeout on the closed connection. `startNode` destroys its
  thread joinable.
* `lc_slow` (`ShutDownAlwaysReturns`). `shutDown` clears the queues 500 ms after it has
  stopped the nodes. A node that is busy for longer loses the message that was to
  wake it, and `joinThread` never returns. `README.md` says that
  `m_runningNodeCounter` tells when all nodes are off; nothing reads it.
* `lc_rerun` (`RunReturns`). Messages ignored by a node that must stop, or cleared
  from its queue, stay counted. After a `shut down` in the middle of a broadcast
  the next `run` waits for the counter for ever, although the pause was long
  enough for every thread.

`OnlyHalfLinksFlatter` marks another: if a routing message arrives over a link
whose second end `addLink` has not yet reached, the receiver takes the link to
cost nothing, and keeps the result. `RacesAreOutOfTurn` says when the threads of a
connection can race at all; `ts_race` and `ts_closed` show that they do.

The passing runs show where the line is: with one file, or with several over a
path that keeps the order, with non-empty files, ids that do not wrap and no
packet of 8 bytes, the transport is reliable.

## 5. What is proved

`TCPTransfer_proofs`, for every set of files, packet size, id space and path
capacity, with arbitrary loss and repetition of data packets, and any number of
transmissions, assuming (all named in the modules, all evaluated by TLC on the
instances): one file, or a path that keeps the order of data packets
(`OrderAssumption`); fewer packets than ids (`NoWrapAssumption`); no data packet
with 8 bytes and no empty file (`NoHeaderLookalike`). They are exactly what
`tcp_overtake`, `tcp_wrap_window`, `tcp_eight_bytes` and `tcp_empty` show to be
needed; `Spec` leaves out `userPreempts`, which `tcp_preempt` shows to be needed.

* `InvariantHolds`: `Spec => []IInv`.
* `TypeCorrect`, `WindowCorrect`, `AckedCorrect`, `CompleteCorrect`.
* `FilesAreIntact`: `Spec => []FileIntact`.
* `TransportImplements`: `Spec => ImplementsFileTransfer`. Loss, repetition,
  reordering and retransmission are stutters of `FileTransfer`.

The argument. `AckedIsAccepted` is not inductive: the receiver acks packets it
throws away, so one has to know why such an ack cannot be mistaken for the one
the sender waits for. `AckInv` says it: each ack carries, as history, how far
the receiver had come when it was sent; acks on the way are in the order of that
progress; none is from before what the sender has learned; and no ack for packet
k was sent by a receiver that was still waiting for k (`at.last # id - 1`).
An ack for the packet the sender waits for was therefore sent by a receiver that
had already passed it. `ReceiverInv` ties `m_inBuffer` and the byte counters to
the index, which gives that the file is complete exactly at its last packet;
`SenderInv` gives the phases and `WindowOK`; `DataInv` bounds what is on the
path. All this would do for one file, where an old packet has the same content as
a new one. With several, a packet that the receiver accepts must also be of the
file being sent. `OrderInv` says why it is, on a path that keeps the order: what is
on the way lies in three layers (`Layers`), data left over from the transmission
before, then headers of this one, then its data. While there is old data the
receiver waits for a header, so it discards it (and its acks do not fit,
`AckFits`: the sender is then waiting for the ack of its header); the sender
sends no data before a header is acked, and no header after it. So when the
sender goes on to the next file, the path holds data only, and the receiver has
written the file. The lemmas `WindowLayers` and `RemoveLayers` say that sending
and losing or delivering keep the layers.

`DistanceVector_proofs`, for every finite network that satisfies `LinksAssumption`
and every width of the counter:

* `DVInvariant`: `Spec => []DVInv`.
* `LoopFree`: `Spec => []NextHopIsCloser`. At every moment, also in the middle of
  the algorithm, the next hop of a route is the destination over a direct link
  or a router that knows the destination at a cost lower by the link's. Along
  next hops the cost falls strictly, so no packet can go round in a circle.
* `ShortestAtRest`: `Spec => []RestIsShortest`. When nothing is left to send or to
  handle, each table has the cost of a shortest way, whatever the order was.
* `CounterIsExact`: `Spec => []CounterCounts`. What the counter is, modulo its
  width, at every moment; `dv_premature` shows what it is not.

The argument. `NextHopIsCloser` alone is not inductive, as a table is filled
from a message and not from the sender's table. `AnnouncementsHold` relates the
two: what a router has announced, or has still to send, it can do at least as
well itself, because its costs only fall.

`RestInv` adds that both ends of a link know it (`LinksKnown`) and that news is
never lost (`NewsSpreads`): of what a router knows, each neighbour knows as much
or has a message about it in its queue, being sent or to be sent. At rest only
the first is left: no table is dearer than a neighbour's plus the link. That
bounds a table from above by every way, by induction over the links of the way.
It is bounded from below because the cost in it is that of a way: of the nodes
for which it were not, take one with the least cost; its next hop is cheaper,
since links cost more than 0, so it has a way, and so has the node. That ways of
more links than there are nodes are never needed is `NoCircleNeeded`: a shortest
way with the fewest links goes on from a node from where one link less is needed,
so it has no more links than there are nodes nearer, and one. `CounterCounts` is
inductive together with `DVInv`; each step adds or removes one element of one of
the three sets.

`Lifecycle_proofs`, for every finite network, any number of runs, and threads of
any speed:

* `LifeInvariant`, `LifeTypes`: `Spec => []LifeInv`, `Spec => []TypeOK`.
* `NullSafe`: `Spec => []NullNeverHandled`.
* `NoStopRemains`: `Spec => []NoStopLeft`, also if the pause was too short (then
  `shut down` may not return, but if it does it leaves no flag).
* `CleanShutDown`: `Spec => []CleanAfterShutDown`. Whatever the pause of 500 ms was
  worth, a `shut down` that returns leaves no thread and no broadcast half done; a
  message is left only in the queue of a node whose thread had ended, by a thread
  the pause was too short for.

The argument. `StopInv` follows a node through `shutDown`: until its turn it has
no flag and no null message and its thread is not leaving; from then on a null
message implies the flag or a thread that has ended, so `dequeueNull` always
finds the flag; the flag implies a thread that will take it back, so after all
joins no flag is up. `SendInv` says which threads can have messages to send,
`QuietInv` who can still fill a queue that has been cleared: only a thread that the
pause cut short, and only the queue of a node whose own thread has ended and taken
back its flag; `CountInv` that `m_runningNodeCounter` is the number of threads between
begin and end.

`LinkChanges_proofs`, for every network, every set of costs, 0 included, and every
sequence of `add link` and `update link` on the running network:

* `LinkInvariant`: `Spec => []LinkInv`.
* `Arrival`: `Spec => []PacketsArrive`. A packet is never left without a next hop.
  It arrives, although costs in the tables may be out of date or too low, unless it
  goes round with a node that is linked to its destination and whose entry for it was
  written by its own thread and by the main thread in a race.
* `NoneFlatter`: `Spec => []OnlyHalfLinksFlatter`, for finite networks. Unless a
  message was handled before its receiver had the link, no table promises less
  than the cheapest way there has been.

The argument. Costs do not fall strictly along next hops here, as a link may cost
nothing, or be taken to; they only never rise (`Descends`), so a circle is not
excluded by its costs. But a node changes its next hop only for a lower cost, unless
a race made it forget a lower one, and then its entry is in `raced` (`CirclesRaced`,
lemma `WriteClosesNone`). If node n closed a circle of entries that are not in
`raced` by taking over a route of cost c, all costs on it would be at most c from
n's next hop on. Whoever on the circle had n as its next hop would then have a cost
of at most c while n's own, until now, was higher, against `Descends`. So the members
with cost at most c, without n, were already a circle. `WritersInv` says which
threads write where: a table is written by its node's thread and by the main thread,
and that one writes entries for neighbours only, so entries in `raced` are for
neighbours; that is why a circle has such an entry. `AnnouncementsHold` ties messages
to tables as in `DistanceVector_proofs`, with the same exception for `raced`.
`RoutingTypes` and `LifeTypes` state the type invariants. `FlatterInv` adds that neither end of a link has, or is about to get, a
cost below `lowest` (`LowestKnown`). What a message announces is no less than what
its sender's table has, so it is no less than a way; as `lowest` only falls, ways
only get cheaper (`WaysCheaper`).

`TimeoutThreads_proofs`, for any finite set of timeout threads and any sequence of
acks and commands:

* `TimeoutInvariant`: `Spec => []TimeoutInv`.
* `NoRace`, `SingleTimeout`, `TimeoutArmed`, `NothingToDestroy`:
  `RacesAreOutOfTurn`, `OneTimeout`, `SenderHasTimeout`, `NoThreadLeft`.

The argument. Of the two threads that can work on the vector of timeout threads at
most one is inside a handler or command until they are out of turn, and a connection
that was closed by `shut down` stays closed until `run` (`ShutDown`). `TimeoutInv` follows
it through `stopTimeout`: a timeout thread that is alive is in the vector, and one
at most is active (`OneActive`); it is there exactly while it is needed, and from
the joins on the vector is empty (`Needed`); `m_isTimeoutAllowed` is false during
the joins, so a timeout thread that gets the lock then does nothing; and what the
caller knew before it let go of the lock still holds when it goes on (`Assured`).

`BlockingConcurrentQueue_proofs`, for any finite sets of producers and consumers,
any number of elements and any size of bulks:

* `QueueInvariant`: `Spec => []QueueInv`.
* `PermitsMatch`, `HoldersServed`: `PermitsAreElements`, `HoldersFindElements`.
* `SemaphoreImplements`: `Spec => ImplementsSemaphore`.

The argument. `PermitsAreElements` is a balance of five numbers, three of them sums
over threads. The sums are cardinalities of sets of tokens, one for each permit,
and `TokensChange` says that a step of one thread changes a sum by what it
changes for this thread. `QueueInv` adds to the balance what each thread has in
its hands at each place of its call (`Hands`).

`ImplicitProducerHash_proofs`, for any finite set of threads, any hashes, any
initial size that is a power of two up to 1024, and any number of exits and of
failed allocations:

* `HashInvariant`: `Spec => []HashInv`.
* `ProducerIsOwn`: `Spec => []OwnProducer`.

The argument. The danger is a thread that has an entry and does not find it: it
would take a second producer, and its old one would have two owners when the
entry is found again. `EntryFound` says that it does find it: no empty slot lies
between the slot of its hash and its entry, because a thread that inserts passes
no empty slot (`ProbesFromHash`) and no slot ever becomes empty again; a thread
that exits leaves `invalid_thread_id2`. `ListedOrNone` says where in its call a
thread has a producer without an entry or neither, and that an exit has cleared
all tables above the one it is at; `OneProducerEach` that no producer is
inactive and owned, or owned twice. Assumed of the ids (`IdAssumption`): the two
invalid ones differ and belong to no thread.

`BlockingConcurrentQueue_proofs` also proves about `FreeList`, the memory of the
queue inside, for any finite set of threads, any number of blocks, and a bit
`SHOULD_BE_ON_FREELIST` above any count of references, as 2^31 is (`PoolConstants`):

* `PoolInvariant`: `FLSpec => []PoolInv`.
* `OneOwnerAlways`, `NothingLostEver`: `OneOwner`, `NothingLost`.

The argument. A thread swaps the head of the list for a next pointer that it has read
before; the swap must fail, or the pointer must still be right. `NextIsCurrent`
says that it is right: a thread that is to swap holds a reference, and nobody
changes the next of a block that another thread refers to. That rests on the
count: `RefsAdd` gives, for each place a block can be in, its `freeListRefs` as the
number of threads that refer to it, plus one for the list, or plus the bit; so
only a thread that finds the count at exactly the bit adds the block, and while it
does no other can get a reference (`addRef` passes over a count without
references). `OnePlace` says that the places exclude each other; a block in none
of them has the bit and a thread that refers to it, which will add it when it
drops its reference. The list is given as a set `L` and a stack `s` of its blocks
(`Chained`); `link` pushes a block that is not on it and `unlink` pops its head
(lemmas `Pushed`, `Popped`), and a stack has no more blocks than there are, so that
one more fits. `ListedIs` identifies this set with `listed`, which the properties
use, by induction over the recursive function `reached`.

Rules. What the provers are not given by their library is in `ProofRules`:
`LeastNatural` (a set of naturals has a least element, from the well-foundedness
of the library) and from it `InductionOverNat` and `RecursionOverNat` (a function
defined by recursion exists), stated with sets instead of predicates. With them
`WaysOver`, `twoTo` and `reached`, which are recursive functions, can be reasoned
about.

Only model-checked:

* liveness (`TransmissionEnds`, `Converges`, `ShutDownReturns`, `StopReturns` and
  those of the queues), which is out of the prover's reach;
* `NeverPastTail`: with three consumers or more it holds only as long as
  `dequeueOvercommit` does not grow by half its width while one consumer stands
  still, which the types of the program make unlikely and not impossible; a
  theorem would have to bound the number of failed dequeues;
* `FindsItsBlock`, `NoBlockLeaks`, `ImplementsFIFO`: they need the block index as
  an abstract sequence through all its reallocations;
* `RoomLeft`: `implicitProducerHashCount` is not the number of used slots of any one
  table. A thread that inserts into a reused slot of an old table is not counted,
  and uses one more slot of the new table when it copies its entry. How far the
  two can drift apart depends on how many threads stand still in between.

## 6. Not modelled, and the plan

Not modelled: logging and printing, parsing of commands, reading of files; `draw`,
`logLink` and `removeLink`, which are empty; `temporarilyDownLink`, which ends the
process (its local `std::thread` is destroyed while joinable), as do `add link`
for two hosts and `run` and `shut down` out of turn; the setters, of which
`setBufferSize` replaces a queue in use; both directions of a pair of connections;
the numbers of `measureRTT` and of the first timeout, but for their sign; explicit producers, tokens
and moves of the queue; weak memory order.

In this order:

1. *Done*: transport, its abstract specification and refinement; routing and the
   convergence counter; their first theorems.
2. *Done*: `Lifecycle` and its theorems.
3. *Done*: `TimeoutThreads`; `LinkChanges` and its theorems; the queues.
4. *Done*: proofs for the blocking queue and its semaphore, for `TimeoutThreads`,
   for the table of producers; shortest ways and the counter in every network.
5. *Done*: proofs for the free list.
6. *Done*: the proofs of the transport for several files over a path that keeps the
   order.
7. Both directions of a pair of connections; `try_dequeue` over several producers.
