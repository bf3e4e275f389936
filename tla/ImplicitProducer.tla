-------------------------- MODULE ImplicitProducer --------------------------
(***************************************************************************)
(* The part of a moodycamel::ConcurrentQueue that belongs to one thread    *)
(* which enqueues: one producer, any number of consumers, no lock.         *)
(* Elements lie in blocks of BLOCK_SIZE; a circular block index leads from *)
(* the index of an element to its block.  A consumer first announces how   *)
(* many elements it wants (dequeueOptimisticCount), looks whether they are *)
(* there, takes back what it announced too much (dequeueOvercommit) and    *)
(* only then moves headIndex.  Who dequeues the last element of a block    *)
(* unlinks it from the index and gives it back.                            *)
(*                                                                         *)
(* enqueue and dequeue are enqueue_bulk and dequeue_bulk for one element.  *)
(* Each access to state that another thread changes is a step, in          *)
(* sequentially consistent order.  The elements are what they are          *)
(* numbered: the element enqueued at index i is i.  Indices have the width *)
(* of index_t and wrap at IndexSize.                                       *)
(***************************************************************************)
EXTENDS Integers, Sequences, FiniteSets, FiniteSetsExt

CONSTANTS
  Consumers,
  Blocks,           \* memory: the initial pool, the free list and the heap
  BLOCK_SIZE,
  IndexSize,        \* 2^64 in the program
  InitialIndexSize, \* IMPLICIT_INITIAL_INDEX_SIZE
  Bulks,            \* numbers of elements of one enqueue_bulk
  Wanted,           \* numbers of elements one dequeue_bulk asks for
  Start,            \* elements that have passed through before
  MaxElements       \* elements enqueued from then on

CONSTANTS NoBlock, Uninit, Nothing   \* null pointer, uninitialised memory, no element

ASSUME SizesAssumption ==
  /\ BLOCK_SIZE \in Nat /\ BLOCK_SIZE > 1
  /\ IndexSize % (2 * BLOCK_SIZE) = 0
  /\ InitialIndexSize \in Nat /\ InitialIndexSize > 1
  /\ Start \in 0..(IndexSize - 1)
  /\ Bulks \cup Wanted \subseteq 1..(IndexSize \div 2 - 1)

VARIABLES
  tailIndex, headIndex, dequeueOptimisticCount, dequeueOvercommit,
  entry,          \* BlockIndexEntry: key (index of the first element) and value (block)
  header,         \* the BlockIndexHeaders so far; the last is blockIndex
  elements,       \* what the slots of a block hold
  elementsCompletelyDequeued,
  free,           \* blocks that requisition_block can return
  tailBlock,
  enqueued,       \* elements enqueued so far
  enq,            \* the producer: pc, elements to enqueue, next block's base,
                  \* blocks still needed, blocks got
  deq             \* each consumer: pc and local variables

indices == <<tailIndex, headIndex, dequeueOptimisticCount, dequeueOvercommit>>
blockVars == <<entry, header, elements, elementsCompletelyDequeued, free, tailBlock>>
vars == <<indices, blockVars, enqueued, enq, deq>>

Wrap(i) == i % IndexSize
Base(i) == i - (i % BLOCK_SIZE)
INVALID_BLOCK_BASE == 1
circular_less_than(a, b) == Wrap(a - b) > IndexSize \div 2
Signed(d) == IF d < IndexSize \div 2 THEN d ELSE d - IndexSize
least(a, b) == IF a < b THEN a ELSE b

Capacity(h) == Cardinality(DOMAIN header[h].index)
blockIndex == Len(header)
freshEntry == [key |-> INVALID_BLOCK_BASE, value |-> Uninit]

(* A producer, a consumer that is in no call. *)
noEnqueue == [pc |-> "out", n |-> 0, base |-> 0, left |-> 0, blocks |-> <<>>]
idle == [pc |-> "out", max |-> 0, tail |-> 0, overcommit |-> 0, desired |-> 0, my |-> 0,
         actual |-> 0, index |-> 0, header |-> 0, pos |-> 0, block |-> NoBlock, items |-> <<>>]

(* The state that Start enqueues and dequeues of single elements leave: the
   block that is not used up stays in the index. *)
Init ==
  LET begun == (Start + BLOCK_SIZE - 1) \div BLOCK_SIZE
      first == IF Start % BLOCK_SIZE = 0 THEN NoBlock ELSE CHOOSE b \in Blocks : TRUE
      users(e) == {k \in 0..(begun - 1) : k % InitialIndexSize = e}
  IN
  /\ tailIndex = Start /\ headIndex = Start
  /\ dequeueOptimisticCount = Start /\ dequeueOvercommit = 0
  /\ entry = [e \in 0..(InitialIndexSize - 1) |->
                IF users(e) = {} THEN freshEntry
                ELSE [key |-> Max(users(e)) * BLOCK_SIZE,
                      value |-> IF Max(users(e)) = begun - 1 THEN first ELSE NoBlock]]
  /\ header = <<[tail |-> (begun - 1) % InitialIndexSize,
                 index |-> [i \in 0..(InitialIndexSize - 1) |-> i]]>>
  /\ elements = [b \in Blocks |-> [s \in 0..(BLOCK_SIZE - 1) |-> Nothing]]
  /\ elementsCompletelyDequeued = [b \in Blocks |-> IF b = first THEN Start % BLOCK_SIZE ELSE 0]
  /\ free = Blocks \ {first}
  /\ tailBlock = first
  /\ enqueued = 0
  /\ enq = noEnqueue
  /\ deq = [c \in Consumers |-> idle]

(***************************************************************************)
(* The producer.                                                           *)
(***************************************************************************)
enqueue_bulk(n) ==
  /\ enq.pc = "out" /\ enqueued + n <= MaxElements
  /\ LET before == Base(Wrap(tailIndex - 1))
         needed == Wrap(Base(Wrap(tailIndex + n - 1)) - before) \div BLOCK_SIZE
     IN enq' = [pc |-> IF needed > 0 THEN "insert" ELSE "publish",
                n |-> n, base |-> Wrap(before + BLOCK_SIZE), left |-> needed, blocks |-> <<>>]
  /\ UNCHANGED <<indices, blockVars, enqueued, deq>>

full == ~circular_less_than(headIndex, Wrap(enq.base + BLOCK_SIZE))

(* Mutant: the old entries are copied as they lie, not from the oldest on. *)
grownHeader_asItLies ==
  LET old == header[blockIndex]
      size == Capacity(blockIndex)
  IN [tail |-> size - 1,
      index |-> [i \in 0..(2 * size - 1) |-> IF i < size THEN old.index[i] ELSE i]]

(* The header after new_block_index: twice the size, the old entries first,
   from the oldest to the newest. *)
grownHeader ==
  LET old == header[blockIndex]
      size == Capacity(blockIndex)
  IN [tail |-> size - 1,
      index |-> [i \in 0..(2 * size - 1) |->
                   IF i < size THEN old.index[(old.tail + 1 + i) % size] ELSE i]]

(* The entry after the tail of the block index, and whether a block still has it. *)
newTail == (header[blockIndex].tail + 1) % Capacity(blockIndex)
newEntry == header[blockIndex].index[newTail]
inUse == entry[newEntry].key # INVALID_BLOCK_BASE /\ entry[newEntry].value # NoBlock

(* insert_block_index_entry: the entry after the tail, in a new header if it is in use. *)
insert_block_index_entry ==
  IF ~inUse
     THEN /\ header' = [header EXCEPT ![blockIndex].tail = newTail]
          /\ entry' = [entry EXCEPT ![newEntry].key = enq.base]
     ELSE LET size == Capacity(blockIndex) IN
          /\ header' = Append(header, [grownHeader EXCEPT !.tail = size])
          /\ entry' = [i \in 0..(2 * size - 1) |->
                         IF i < size THEN entry[i]
                         ELSE IF i = size THEN [freshEntry EXCEPT !.key = enq.base]
                         ELSE freshEntry]

insertBlock ==
  /\ enq.pc = "insert" /\ ~full
  /\ insert_block_index_entry
  /\ enq' = [enq EXCEPT !.pc = "requisition"]
  /\ UNCHANGED <<indices, elements, elementsCompletelyDequeued, free, tailBlock, enqueued, deq>>

(* The subqueue is full, or a larger block index is needed and try_enqueue does
   not allocate one, or there is no memory for it. *)
insertFails ==
  /\ enq.pc = "insert" /\ (full \/ inUse)
  /\ enq' = [enq EXCEPT !.pc = "undo"]
  /\ UNCHANGED <<indices, blockVars, enqueued, deq>>

tailEntry == header[blockIndex].index[header[blockIndex].tail]

(* Free blocks are alike: which of them the pool gives makes no difference. *)
requisition_block ==
  /\ enq.pc = "requisition" /\ free # {}
  /\ LET b == CHOOSE b \in free : TRUE IN
       /\ free' = free \ {b}
       /\ elementsCompletelyDequeued' = [elementsCompletelyDequeued EXCEPT ![b] = 0]
       /\ entry' = [entry EXCEPT ![tailEntry].value = b]
       /\ enq' = [enq EXCEPT !.blocks = Append(@, b), !.left = @ - 1,
                             !.base = Wrap(@ + BLOCK_SIZE),
                             !.pc = IF enq.left = 1 THEN "publish" ELSE "insert"]
  /\ UNCHANGED <<indices, header, elements, tailBlock, enqueued, deq>>

rewound(k) == [header EXCEPT ![blockIndex].tail = (@ - k) % Capacity(blockIndex)]

(* No block (try_enqueue without a free one, or malloc fails): rewind_block_index_tail. *)
requisitionFails ==
  /\ enq.pc = "requisition"
  /\ entry' = [entry EXCEPT ![tailEntry].value = NoBlock]
  /\ header' = rewound(1)
  /\ enq' = [enq EXCEPT !.pc = "undo"]
  /\ UNCHANGED <<indices, elements, elementsCompletelyDequeued, free, tailBlock, enqueued, deq>>

(* Mutant: the call fails without its blocks going back to the free list. *)
undo_keepsBlocks ==
  /\ enq.pc = "undo"
  /\ entry' = [e \in DOMAIN entry |->
                 IF \E i \in DOMAIN enq.blocks : entry[e].value = enq.blocks[i]
                 THEN [entry[e] EXCEPT !.value = NoBlock] ELSE entry[e]]
  /\ header' = rewound(Len(enq.blocks))
  /\ enq' = noEnqueue
  /\ UNCHANGED <<indices, elements, elementsCompletelyDequeued, free, tailBlock, enqueued, deq>>

(* The blocks this call has got so far are unlinked and given back; it returns false. *)
undo ==
  /\ enq.pc = "undo"
  /\ LET got == {enq.blocks[i] : i \in DOMAIN enq.blocks} IN
       /\ entry' = [e \in DOMAIN entry |->
                      IF entry[e].value \in got THEN [entry[e] EXCEPT !.value = NoBlock] ELSE entry[e]]
       /\ free' = free \cup got
  /\ header' = rewound(Len(enq.blocks))
  /\ enq' = noEnqueue
  /\ UNCHANGED <<indices, elements, elementsCompletelyDequeued, tailBlock, enqueued, deq>>

(* The elements are constructed, in the old tail block as far as it has room,
   and tailIndex makes them visible. *)
publish ==
  /\ enq.pc = "publish"
  /\ LET chain == IF tailIndex % BLOCK_SIZE # 0 THEN <<tailBlock>> \o enq.blocks ELSE enq.blocks
         new == {Wrap(tailIndex + k) : k \in 0..(enq.n - 1)}
         home(i) == chain[1 + Wrap(Base(i) - Base(tailIndex)) \div BLOCK_SIZE]
         here(b, s) == {i \in new : home(i) = b /\ i % BLOCK_SIZE = s}
     IN /\ elements' = [b \in Blocks |-> [s \in 0..(BLOCK_SIZE - 1) |->
                          IF here(b, s) = {} THEN elements[b][s] ELSE CHOOSE i \in here(b, s) : TRUE]]
        /\ tailBlock' = chain[Len(chain)]
  /\ tailIndex' = Wrap(tailIndex + enq.n)
  /\ enqueued' = enqueued + enq.n
  /\ enq' = noEnqueue
  /\ UNCHANGED <<headIndex, dequeueOptimisticCount, dequeueOvercommit, entry, header,
                 elementsCompletelyDequeued, free, deq>>

(***************************************************************************)
(* A consumer.                                                             *)
(***************************************************************************)
dequeue_bulk(c, max) ==
  /\ deq[c].pc = "out"
  /\ deq' = [deq EXCEPT ![c] = [idle EXCEPT !.pc = "overcommit", !.max = max, !.tail = tailIndex]]
  /\ UNCHANGED <<indices, blockVars, enqueued, enq>>

readOvercommit(c) ==
  /\ deq[c].pc = "overcommit"
  /\ deq' = [deq EXCEPT ![c].pc = "optimistic", ![c].overcommit = dequeueOvercommit]
  /\ UNCHANGED <<indices, blockVars, enqueued, enq>>

readOptimistic(c) ==
  /\ deq[c].pc = "optimistic"
  /\ LET desired == Wrap(deq[c].tail - (dequeueOptimisticCount - deq[c].overcommit)) IN
       deq' = [deq EXCEPT ![c] =
                 IF circular_less_than(0, desired)
                 THEN [idle EXCEPT !.pc = "announce", !.desired = least(desired, deq[c].max),
                                   !.overcommit = deq[c].overcommit]
                 ELSE idle]
  /\ UNCHANGED <<indices, blockVars, enqueued, enq>>

announce(c) ==
  /\ deq[c].pc = "announce"
  /\ dequeueOptimisticCount' = Wrap(dequeueOptimisticCount + deq[c].desired)
  /\ deq' = [deq EXCEPT ![c].pc = "check", ![c].my = dequeueOptimisticCount]
  /\ UNCHANGED <<tailIndex, headIndex, dequeueOvercommit, blockVars, enqueued, enq>>

(* Mutant: the calculation before the announcement is trusted. *)
check_trusted(c) ==
  /\ deq[c].pc = "check"
  /\ deq' = [deq EXCEPT ![c] = [idle EXCEPT !.pc = "take", !.actual = deq[c].desired]]
  /\ UNCHANGED <<indices, blockVars, enqueued, enq>>

(* tailIndex is read again: are the elements there? *)
check(c) ==
  /\ deq[c].pc = "check"
  /\ LET there == Wrap(tailIndex - (deq[c].my - deq[c].overcommit))
         actual == IF circular_less_than(0, there) THEN least(deq[c].desired, there) ELSE 0
     IN deq' = [deq EXCEPT ![c] =
                  IF actual < deq[c].desired
                  THEN [idle EXCEPT !.pc = "giveBack", !.actual = actual, !.desired = deq[c].desired]
                  ELSE [idle EXCEPT !.pc = "take", !.actual = actual]]
  /\ UNCHANGED <<indices, blockVars, enqueued, enq>>

(* Mutant: nothing is taken back when nothing was there. *)
giveBack_onSuccess(c) ==
  /\ deq[c].pc = "giveBack"
  /\ IF deq[c].actual = 0
     THEN UNCHANGED dequeueOvercommit /\ deq' = [deq EXCEPT ![c] = idle]
     ELSE /\ dequeueOvercommit' = Wrap(dequeueOvercommit + deq[c].desired - deq[c].actual)
          /\ deq' = [deq EXCEPT ![c] = [idle EXCEPT !.pc = "take", !.actual = deq[c].actual]]
  /\ UNCHANGED <<tailIndex, headIndex, dequeueOptimisticCount, blockVars, enqueued, enq>>

giveBack(c) ==
  /\ deq[c].pc = "giveBack"
  /\ dequeueOvercommit' = Wrap(dequeueOvercommit + deq[c].desired - deq[c].actual)
  /\ deq' = [deq EXCEPT ![c] = IF deq[c].actual = 0 THEN idle
                               ELSE [idle EXCEPT !.pc = "take", !.actual = deq[c].actual]]
  /\ UNCHANGED <<tailIndex, headIndex, dequeueOptimisticCount, blockVars, enqueued, enq>>

take(c) ==
  /\ deq[c].pc = "take"
  /\ headIndex' = Wrap(headIndex + deq[c].actual)
  /\ deq' = [deq EXCEPT ![c].pc = "header", ![c].index = headIndex]
  /\ UNCHANGED <<tailIndex, dequeueOptimisticCount, dequeueOvercommit, blockVars, enqueued, enq>>

(* get_block_index_index_for_index: blockIndex, its tail, the key found there. *)
readHeader(c) ==
  /\ deq[c].pc = "header"
  /\ deq' = [deq EXCEPT ![c].pc = "tail", ![c].header = blockIndex]
  /\ UNCHANGED <<indices, blockVars, enqueued, enq>>

readTail(c) ==
  /\ deq[c].pc = "tail"
  /\ deq' = [deq EXCEPT ![c].pc = "key", ![c].pos = header[deq[c].header].tail]
  /\ UNCHANGED <<indices, blockVars, enqueued, enq>>

entryAt(c) == header[deq[c].header].index[deq[c].pos]

readKey(c) ==
  /\ deq[c].pc = "key"
  /\ LET offset == Signed(Wrap(Base(deq[c].index) - entry[entryAt(c)].key)) \div BLOCK_SIZE IN
       deq' = [deq EXCEPT ![c].pc = "read",
                          ![c].pos = (@ + offset) % Capacity(deq[c].header)]
  /\ UNCHANGED <<indices, blockVars, enqueued, enq>>

(* How many of the elements still to be read lie in the block at hand. *)
inThisBlock(c) == least(deq[c].actual, BLOCK_SIZE - (deq[c].index % BLOCK_SIZE))

(* The call goes on with the next block, or is ready to return. *)
nextBlock(d) ==
  IF d.actual = 0 THEN [idle EXCEPT !.pc = "return", !.items = d.items]
  ELSE [d EXCEPT !.pc = "read", !.block = NoBlock, !.pos = (@ + 1) % Capacity(d.header)]

(* Mutant: who reads the last slot of a block gives it back, whoever still reads another. *)
readElements_lastSlot(c) ==
  /\ deq[c].pc = "read"
  /\ LET b == entry[entryAt(c)].value
         k == inThisBlock(c)
         first == deq[c].index % BLOCK_SIZE
         after == [deq[c] EXCEPT !.items = @ \o [j \in 1..k |-> elements[b][first + j - 1]],
                                 !.index = Wrap(@ + k), !.actual = @ - k, !.block = b]
     IN /\ elements' = [elements EXCEPT ![b] =
                          [s \in DOMAIN @ |-> IF s \in first..(first + k - 1) THEN Nothing ELSE @[s]]]
        /\ UNCHANGED elementsCompletelyDequeued
        /\ deq' = [deq EXCEPT ![c] = IF first + k = BLOCK_SIZE THEN [after EXCEPT !.pc = "unlink"]
                                     ELSE nextBlock(after)]
  /\ UNCHANGED <<indices, entry, header, free, tailBlock, enqueued, enq>>

(* Moves the elements out of one block and counts them: set_empty, set_many_empty. *)
readElements(c) ==
  /\ deq[c].pc = "read"
  /\ LET b == entry[entryAt(c)].value
         k == inThisBlock(c)
         first == deq[c].index % BLOCK_SIZE
         count == elementsCompletelyDequeued[b] + k
         after == [deq[c] EXCEPT !.items = @ \o [j \in 1..k |-> elements[b][first + j - 1]],
                                 !.index = Wrap(@ + k), !.actual = @ - k, !.block = b]
     IN /\ elements' = [elements EXCEPT ![b] =
                          [s \in DOMAIN @ |-> IF s \in first..(first + k - 1) THEN Nothing ELSE @[s]]]
        /\ elementsCompletelyDequeued' = [elementsCompletelyDequeued EXCEPT ![b] = count]
        /\ deq' = [deq EXCEPT ![c] = IF count = BLOCK_SIZE THEN [after EXCEPT !.pc = "unlink"]
                                     ELSE nextBlock(after)]
  /\ UNCHANGED <<indices, entry, header, free, tailBlock, enqueued, enq>>

(* The block is empty: its entry in the index first, then add_block_to_free_list. *)
unlink(c) ==
  /\ deq[c].pc = "unlink"
  /\ entry' = [entry EXCEPT ![entryAt(c)].value = NoBlock]
  /\ deq' = [deq EXCEPT ![c].pc = "release"]
  /\ UNCHANGED <<indices, header, elements, elementsCompletelyDequeued, free, tailBlock, enqueued, enq>>

add_block_to_free_list(c) ==
  /\ deq[c].pc = "release"
  /\ free' = free \cup {deq[c].block}
  /\ deq' = [deq EXCEPT ![c] = nextBlock(@)]
  /\ UNCHANGED <<indices, entry, header, elements, elementsCompletelyDequeued, tailBlock, enqueued, enq>>

returnItems(c) ==
  /\ deq[c].pc = "return"
  /\ deq' = [deq EXCEPT ![c] = idle]
  /\ UNCHANGED <<indices, blockVars, enqueued, enq>>

Enqueue == insertBlock \/ insertFails \/ requisition_block \/ requisitionFails \/ undo \/ publish

Dequeue(c) ==
  \/ readOvercommit(c) \/ readOptimistic(c) \/ announce(c) \/ check(c) \/ giveBack(c) \/ take(c)
  \/ readHeader(c) \/ readTail(c) \/ readKey(c) \/ readElements(c) \/ unlink(c)
  \/ add_block_to_free_list(c) \/ returnItems(c)

Next ==
  \/ \E n \in Bulks : enqueue_bulk(n)
  \/ Enqueue
  \/ \E c \in Consumers : \E n \in Wanted : dequeue_bulk(c, n)
  \/ \E c \in Consumers : Dequeue(c)

Spec == Init /\ [][Next]_vars

(* No thread stops inside a dequeue, and as long as a thread is free to call
   dequeue, calls go on: BlockingConcurrentQueue repeats a call that fails. *)
FairSpec ==
  /\ Spec
  /\ \A c \in Consumers : WF_vars(Dequeue(c))
  /\ WF_vars(\E c \in Consumers : \E n \in Wanted : dequeue_bulk(c, n))

(***************************************************************************)
(* Properties.                                                             *)
(***************************************************************************)
Announced(c) ==
  CASE deq[c].pc \in {"check", "giveBack"} -> deq[c].desired
    [] deq[c].pc = "take" -> deq[c].actual
    [] OTHER -> 0

ToTake(c) == IF deq[c].pc \in {"take", "giveBack"} THEN deq[c].actual ELSE 0

TypeOK ==
  /\ {tailIndex, headIndex, dequeueOptimisticCount, dequeueOvercommit} \subseteq 0..(IndexSize - 1)
  /\ free \subseteq Blocks /\ tailBlock \in Blocks \cup {NoBlock}
  /\ \A e \in DOMAIN entry :
       /\ entry[e].key = INVALID_BLOCK_BASE \/ entry[e].key \in {Base(i) : i \in 0..(IndexSize - 1)}
       /\ entry[e].value \in Blocks \cup {NoBlock, Uninit}
  /\ elementsCompletelyDequeued \in [Blocks -> 0..BLOCK_SIZE]

(* The counts balance, modulo their width: announcements that were neither taken
   back nor turned into elements are those of consumers on their way.  Otherwise
   elements would stay in the queue for ever. *)
DequeueBooks ==
  Wrap(dequeueOptimisticCount - dequeueOvercommit - headIndex)
    = Wrap(MapThenSumSet(Announced, Consumers))

(* "since there's guaranteed to be at least actualCount elements, this will never
   exceed tail": what consumers are about to take from headIndex is there, however
   stale the overcommit count they calculated with, and the counts balance. *)
NeverPastTail ==
  /\ TypeOK
  /\ DequeueBooks
  /\ MapThenSumSet(ToTake, Consumers) <= Wrap(tailIndex - headIndex)

(* The assertions of get_block_index_index_for_index: the entry that a consumer
   calculates, from a header and a tail that may be old, is the one of its block. *)
FindsItsBlock ==
  \A c \in Consumers :
    /\ deq[c].pc = "key" => entry[entryAt(c)].key # INVALID_BLOCK_BASE
    /\ deq[c].pc = "read" => /\ entry[entryAt(c)].key = Base(deq[c].index)
                             /\ entry[entryAt(c)].value \in Blocks

(* Blocks the destructor gives back: those of the elements left, the last one
   being tailBlock, which is given back without elements too if it is not used up. *)
blockOf(i) ==
  LET es == {e \in DOMAIN entry : entry[e].key = Base(i) /\ entry[e].value \in Blocks}
  IN IF es = {} THEN NoBlock ELSE entry[CHOOSE e \in es : TRUE].value

live == {Wrap(headIndex + k) : k \in 0..(Wrap(tailIndex - headIndex) - 1)}

destructorFrees ==
  LET last == Wrap(tailIndex - 1)
  IN {blockOf(i) : i \in {j \in live : Base(j) # Base(last)}}
       \cup (IF tailBlock # NoBlock /\ (live # {} \/ tailIndex % BLOCK_SIZE # 0)
             THEN {tailBlock} ELSE {})

(* When no call is under way, every block is either free or given back by the
   destructor: none leaks, none is freed twice. *)
NoBlockLeaks ==
  (enq.pc = "out" /\ \A c \in Consumers : deq[c].pc = "out") =>
    /\ destructorFrees \cap free = {}
    /\ destructorFrees \cup free = Blocks

(* The element at an index, as memory has it; what a consumer has read, and will
   have read when its call returns. *)
elementAt(i) == IF blockOf(i) = NoBlock THEN Nothing ELSE elements[blockOf(i)][i % BLOCK_SIZE]

inQueue == [k \in 1..Wrap(tailIndex - headIndex) |-> elementAt(Wrap(headIndex + k - 1))]

takenBy(c) ==
  deq[c].items \o
    (IF deq[c].pc \in {"header", "tail", "key", "read", "unlink", "release"}
     THEN [k \in 1..deq[c].actual |-> elementAt(Wrap(deq[c].index + k - 1))]
     ELSE <<>>)

(* The promise to the nodes: first in, first out, nothing lost, nothing twice.
   Steps that move headIndex or tailIndex are steps of the promise, steps that
   read, unlink, reuse or reallocate memory must not change what they deliver. *)
Promise == INSTANCE ProducerFIFO
             WITH queue <- inQueue, taken <- [c \in Consumers |-> takenBy(c)],
                  Elements <- 0..(IndexSize - 1), MaxBulk <- Max(Bulks \cup Wanted)
ImplementsFIFO == Promise!Spec

(* Elements do not stay behind: a dequeue may fail with elements in the queue,
   and consumers that keep disturbing each other may all fail for ever, but once
   only one of them goes on calling, whatever the others left in the counts, it
   empties the queue. *)
AllDequeued ==
  \A c \in Consumers :
    <>[](\A d \in Consumers \ {c} : deq[d].pc = "out")
      => ((tailIndex # headIndex) ~> (tailIndex = headIndex))
=============================================================================
