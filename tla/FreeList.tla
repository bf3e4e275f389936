------------------------------ MODULE FreeList ------------------------------
(***************************************************************************)
(* Where a moodycamel::ConcurrentQueue has its blocks from: an initial     *)
(* pool that is handed out once, and the lock-free FreeList that blocks    *)
(* come back to.  The list is a stack changed by compare-and-swap of its   *)
(* head; what makes that safe when a block leaves the list and comes back  *)
(* while another thread holds an old head is a reference count per block.  *)
(* The list itself counts as one reference; a block that is given back     *)
(* while others still look at it gets a bit instead, and the last of them  *)
(* puts it on the list.                                                    *)
(*                                                                         *)
(* Each atomic access is a step, in sequentially consistent order.  A      *)
(* block from the heap is not modelled: it is destroyed, never put on the  *)
(* list (RECYCLE_ALLOCATED_BLOCKS is false).                               *)
(***************************************************************************)
EXTENDS Naturals, FiniteSets

CONSTANTS
  Callers,                \* the threads that use the pool
  initialBlockPoolSize,
  SHOULD_BE_ON_FREELIST,  \* 2^31 in the program
  Null

Blocks == 0..(initialBlockPoolSize - 1)

PoolConstants ==
  /\ IsFiniteSet(Callers)
  /\ initialBlockPoolSize \in Nat
  /\ SHOULD_BE_ON_FREELIST \in Nat /\ SHOULD_BE_ON_FREELIST > Cardinality(Callers) + 1
  /\ Null \notin Blocks

ASSUME PoolAssumption == PoolConstants

VARIABLES
  freeListHead,
  freeListRefs,            \* references, and the bit SHOULD_BE_ON_FREELIST
  freeListNext,
  initialBlockPoolIndex,
  own,                     \* blocks each thread has got and not given back
  local                    \* where each thread is, and its local variables

memory == <<freeListHead, freeListRefs, freeListNext, initialBlockPoolIndex>>
flVars == <<memory, own, local>>

(* node: the block at hand; next: what a compare-and-swap of the head expects or
   puts there; head: where try_get goes on after its compare-and-swap failed. *)
out == [pc |-> "out", node |-> Null, refs |-> 0, next |-> Null, head |-> Null]

FLInit ==
  /\ freeListHead = Null
  /\ freeListRefs = [b \in Blocks |-> 0]
  /\ freeListNext = [b \in Blocks |-> Null]
  /\ initialBlockPoolIndex = 0
  /\ own = [t \in Callers |-> {}]
  /\ local = [t \in Callers |-> out]

at(t, pc) == local[t].pc = pc
go(t, pc) == local' = [local EXCEPT ![t].pc = pc]

(* The call returns block b. *)
return(t, b) ==
  /\ own' = [own EXCEPT ![t] = @ \cup {b}]
  /\ local' = [local EXCEPT ![t] = out]

(***************************************************************************)
(* requisition_block: the initial pool first.                              *)
(***************************************************************************)
requisition_block(t) ==
  /\ at(t, "out")
  /\ go(t, IF initialBlockPoolIndex < initialBlockPoolSize THEN "pool" ELSE "getHead")
  /\ UNCHANGED <<memory, own>>

try_get_block_from_initial_pool(t) ==
  /\ at(t, "pool")
  /\ initialBlockPoolIndex' = initialBlockPoolIndex + 1
  /\ IF initialBlockPoolIndex < initialBlockPoolSize
     THEN return(t, initialBlockPoolIndex)
     ELSE go(t, "getHead") /\ UNCHANGED own
  /\ UNCHANGED <<freeListHead, freeListRefs, freeListNext>>

(***************************************************************************)
(* FreeList::try_get.                                                      *)
(***************************************************************************)
lookAt(t, h) ==
  local' = [local EXCEPT ![t] = IF h = Null THEN out ELSE [out EXCEPT !.pc = "getRefs", !.node = h]]

try_get(t) ==
  /\ at(t, "getHead")
  /\ lookAt(t, freeListHead)
  /\ UNCHANGED <<memory, own>>

(* Mutant: with no reference left on the head that was read, it is tried again. *)
loadRefs_sameHead(t) ==
  /\ at(t, "getRefs")
  /\ LET refs == freeListRefs[local[t].node] IN
       IF refs % SHOULD_BE_ON_FREELIST = 0 THEN UNCHANGED local
       ELSE local' = [local EXCEPT ![t].refs = refs, ![t].pc = "addRef"]
  /\ UNCHANGED <<memory, own>>

loadRefs(t) ==
  /\ at(t, "getRefs")
  /\ LET refs == freeListRefs[local[t].node] IN
       local' = [local EXCEPT ![t].refs = refs,
                   ![t].pc = IF refs % SHOULD_BE_ON_FREELIST = 0 THEN "getHead" ELSE "addRef"]
  /\ UNCHANGED <<memory, own>>

(* Mutant: fetch_add in place of the compare-and-swap. *)
addRef_fetch_add(t) ==
  /\ at(t, "addRef")
  /\ freeListRefs' = [freeListRefs EXCEPT ![local[t].node] = @ + 1]
  /\ go(t, "getNext")
  /\ UNCHANGED <<freeListHead, freeListNext, initialBlockPoolIndex, own>>

addRef(t) ==
  /\ at(t, "addRef")
  /\ LET n == local[t].node IN
       IF freeListRefs[n] = local[t].refs
       THEN /\ freeListRefs' = [freeListRefs EXCEPT ![n] = @ + 1]
            /\ go(t, "getNext")
       ELSE UNCHANGED freeListRefs /\ go(t, "getHead")
  /\ UNCHANGED <<freeListHead, freeListNext, initialBlockPoolIndex, own>>

loadNext(t) ==
  /\ at(t, "getNext")
  /\ local' = [local EXCEPT ![t].pc = "unlink", ![t].refs = 0, ![t].next = freeListNext[local[t].node]]
  /\ UNCHANGED <<memory, own>>

(* The compare-and-swap that takes the block from the list; if it fails the
   current head is kept for the next round. *)
unlink(t) ==
  /\ at(t, "unlink")
  /\ IF freeListHead = local[t].node
     THEN freeListHead' = local[t].next /\ go(t, "got")
     ELSE /\ local' = [local EXCEPT ![t].pc = "dropRef", ![t].next = Null, ![t].head = freeListHead]
          /\ UNCHANGED freeListHead
  /\ UNCHANGED <<freeListRefs, freeListNext, initialBlockPoolIndex, own>>

(* Gives up the thread's reference and the one of the list. *)
tookHead(t) ==
  /\ at(t, "got")
  /\ freeListRefs' = [freeListRefs EXCEPT ![local[t].node] = @ - 2]
  /\ return(t, local[t].node)
  /\ UNCHANGED <<freeListHead, freeListNext, initialBlockPoolIndex>>

(* Mutant: the bit is not looked at. *)
dropRef_noBit(t) ==
  /\ at(t, "dropRef")
  /\ freeListRefs' = [freeListRefs EXCEPT ![local[t].node] = @ - 1]
  /\ lookAt(t, local[t].head)
  /\ UNCHANGED <<freeListHead, freeListNext, initialBlockPoolIndex, own>>

(* The last one to drop a block that was given back puts it on the list, and
   then goes on with the head it has seen. *)
dropRef(t) ==
  /\ at(t, "dropRef")
  /\ LET n == local[t].node IN
       /\ freeListRefs' = [freeListRefs EXCEPT ![n] = @ - 1]
       /\ IF freeListRefs[n] = SHOULD_BE_ON_FREELIST + 1
          THEN go(t, "addHead")
          ELSE lookAt(t, local[t].head)
  /\ UNCHANGED <<freeListHead, freeListNext, initialBlockPoolIndex, own>>

(***************************************************************************)
(* FreeList::add and add_knowing_refcount_is_zero.                         *)
(***************************************************************************)
add(t, b) ==
  /\ at(t, "out") /\ b \in own[t]
  /\ own' = [own EXCEPT ![t] = @ \ {b}]
  /\ freeListRefs' = [freeListRefs EXCEPT ![b] = @ + SHOULD_BE_ON_FREELIST]
  /\ IF freeListRefs[b] = 0
     THEN local' = [local EXCEPT ![t] = [out EXCEPT !.pc = "addHead", !.node = b]]
     ELSE UNCHANGED local
  /\ UNCHANGED <<freeListHead, freeListNext, initialBlockPoolIndex>>

add_knowing_refcount_is_zero(t) ==
  /\ at(t, "addHead")
  /\ local' = [local EXCEPT ![t].pc = "setNext", ![t].next = freeListHead]
  /\ UNCHANGED <<memory, own>>

storeNext(t) ==
  /\ at(t, "setNext")
  /\ freeListNext' = [freeListNext EXCEPT ![local[t].node] = local[t].next]
  /\ go(t, "setRefs")
  /\ UNCHANGED <<freeListHead, freeListRefs, initialBlockPoolIndex, own>>

storeRefs(t) ==
  /\ at(t, "setRefs")
  /\ freeListRefs' = [freeListRefs EXCEPT ![local[t].node] = 1]
  /\ go(t, "link")
  /\ UNCHANGED <<freeListHead, freeListNext, initialBlockPoolIndex, own>>

link(t) ==
  /\ at(t, "link")
  /\ IF freeListHead = local[t].next
     THEN freeListHead' = local[t].node /\ lookAt(t, local[t].head)
     ELSE /\ local' = [local EXCEPT ![t].pc = "linkFailed", ![t].next = freeListHead]
          /\ UNCHANGED freeListHead
  /\ UNCHANGED <<freeListRefs, freeListNext, initialBlockPoolIndex, own>>

(* The list's reference is changed for the bit; unless another thread has taken
   a reference meanwhile, and will do it, the thread tries again. *)
linkFailed(t) ==
  /\ at(t, "linkFailed")
  /\ LET n == local[t].node IN
       /\ freeListRefs' = [freeListRefs EXCEPT ![n] = @ + SHOULD_BE_ON_FREELIST - 1]
       /\ IF freeListRefs[n] = 1 THEN go(t, "setNext") ELSE lookAt(t, local[t].head)
  /\ UNCHANGED <<freeListHead, freeListNext, initialBlockPoolIndex, own>>

Call(t) == requisition_block(t) \/ \E b \in Blocks : add(t, b)

Step(t) ==
  \/ try_get_block_from_initial_pool(t)
  \/ try_get(t) \/ loadRefs(t) \/ addRef(t) \/ loadNext(t) \/ unlink(t) \/ tookHead(t) \/ dropRef(t)
  \/ add_knowing_refcount_is_zero(t) \/ storeNext(t) \/ storeRefs(t) \/ link(t) \/ linkFailed(t)

FLNext == \E t \in Callers : Call(t) \/ Step(t)

FLSpec == FLInit /\ [][FLNext]_flVars

(* Callers do not stop inside a call. *)
FairFLSpec == FLSpec /\ \A t \in Callers : WF_flVars(Step(t))

(***************************************************************************)
(* Properties.                                                             *)
(***************************************************************************)
FLTypeOK ==
  /\ freeListHead \in Blocks \cup {Null}
  /\ freeListRefs \in [Blocks -> 0..(2 * SHOULD_BE_ON_FREELIST - 1)]
  /\ freeListNext \in [Blocks -> Blocks \cup {Null}]
  /\ initialBlockPoolIndex \in 0..(initialBlockPoolSize + Cardinality(Callers))
  /\ own \in [Callers -> SUBSET Blocks]

(* What is on the list: the blocks reached from the head in as many steps as
   there are blocks. *)
reached[k \in Nat] ==
  IF k = 0 THEN {freeListHead}
  ELSE reached[k - 1] \cup {freeListNext[b] : b \in reached[k - 1] \ {Null}}

listed == reached[initialBlockPoolSize] \ {Null}

(* The blocks of a thread: those it has got, and the one it is about to put back. *)
holds(t) == own[t] \cup (IF local[t].pc \in {"got", "addHead", "setNext", "setRefs"} THEN {local[t].node} ELSE {})

(* The assertion of try_get: a block just taken from the list is not marked as
   to be put there. *)
NotMarkedWhenTaken ==
  \A t \in Callers : at(t, "got") => freeListRefs[local[t].node] < SHOULD_BE_ON_FREELIST

(* A block has one owner: it is on the list, or with one thread, which has got it
   or is about to put it back, never with two; and a thread that takes one does
   not meet a mark that would let another thread put it on the list. *)
OneOwner ==
  /\ FLTypeOK
  /\ NotMarkedWhenTaken
  /\ \A t \in Callers : holds(t) \cap listed = {}
  /\ \A t, u \in Callers : t # u => holds(t) \cap holds(u) = {}
  /\ \A b \in Blocks : freeListRefs[b] % SHOULD_BE_ON_FREELIST = 0 => b \notin listed

(* No block gets lost: when no call is under way each one is in the pool, on the
   list or with a thread, and nobody refers to one that is not on the list. *)
NothingLost ==
  (\A t \in Callers : at(t, "out")) =>
    /\ Blocks = {b \in Blocks : b >= initialBlockPoolIndex} \cup listed \cup UNION {own[t] : t \in Callers}
    /\ \A b \in Blocks : freeListRefs[b] = IF b \in listed THEN 1 ELSE 0

(***************************************************************************)
(* An inductive invariant that implies OneOwner and NothingLost.           *)
(***************************************************************************)
(* Stages at which a thread refers to the block at hand; has it, as the one that
   adds it; has it, with the reference of the list counted. *)
Refers == {"getNext", "unlink", "dropRef", "got"}
Adds == {"addHead", "setNext", "setRefs"}
Links == {"got", "link", "linkFailed"}
Stages == Refers \cup Adds \cup Links \cup {"out", "pool", "getHead", "getRefs", "addRef"}

is(t, stages, b) == local[t].pc \in stages /\ local[t].node = b
Referring(b) == {t \in Callers : is(t, Refers, b)}
AtPool == {t \in Callers : at(t, "pool")}

Local == [pc : Stages, node : Blocks \cup {Null}, refs : Nat,
          next : Blocks \cup {Null}, head : Blocks \cup {Null}]

PoolTypes ==
  /\ freeListHead \in Blocks \cup {Null}
  /\ freeListRefs \in [Blocks -> Nat]
  /\ freeListNext \in [Blocks -> Blocks \cup {Null}]
  /\ initialBlockPoolIndex \in Nat
  /\ initialBlockPoolIndex + Cardinality(AtPool) <= initialBlockPoolSize + Cardinality(Callers)
  /\ own \in [Callers -> SUBSET Blocks]
  /\ local \in [Callers -> Local]

(* Nobody changes the next of a block that another thread refers to, or links. *)
NextIsCurrent(t) ==
  /\ local[t].pc \notin {"out", "pool", "getHead"} => local[t].node \in Blocks
  /\ at(t, "addRef") => local[t].refs % SHOULD_BE_ON_FREELIST # 0
  /\ local[t].pc \in {"unlink", "setRefs", "link"} => local[t].next = freeListNext[local[t].node]

(* The blocks on the list are those of L: it has them in the order s, from its end
   to its head, none of them twice. *)
Stack(L, s, n) ==
  /\ L = {s[i] : i \in 1..n}
  /\ freeListHead = IF n = 0 THEN Null ELSE s[n]
  /\ \A i \in 1..n : freeListNext[s[i]] = IF i = 1 THEN Null ELSE s[i - 1]
  /\ \A i, j \in 1..n : s[i] = s[j] => i = j

Chained(L) == \E n \in 0..initialBlockPoolSize : \E s \in [1..n -> Blocks] : Stack(L, s, n)

(* Who has a block: the pool, the list (of the blocks L), or one thread. *)
mine(t, b) == b \in own[t] \/ is(t, Adds \cup Links, b)
inPool(b) == b >= initialBlockPoolIndex

OnePlace(b, L) ==
  /\ inPool(b) => b \notin L
  /\ inPool(b) \/ b \in L => \A t \in Callers : ~mine(t, b)
  /\ \A t, u \in Callers : mine(t, b) /\ mine(u, b) => t = u
  /\ \A t \in Callers : ~(b \in own[t] /\ is(t, Adds \cup Links, b))

(* The reference count of a block; one that has no place has the bit, and
   somebody refers to it. *)
RefsAdd(b, L) ==
  LET n == Cardinality(Referring(b)) IN
  /\ inPool(b) => freeListRefs[b] = 0 /\ n = 0
  /\ b \in L => freeListRefs[b] = n + 1
  /\ \A t \in Callers :
       /\ b \in own[t] => freeListRefs[b] = n
       /\ is(t, Links, b) => freeListRefs[b] = n + 1
       /\ is(t, Adds, b) => freeListRefs[b] = SHOULD_BE_ON_FREELIST /\ n = 0
  /\ ~inPool(b) /\ b \notin L /\ (\A t \in Callers : ~mine(t, b)) =>
       freeListRefs[b] = SHOULD_BE_ON_FREELIST + n /\ n # 0

Tally(L) == \A b \in Blocks : OnePlace(b, L) /\ RefsAdd(b, L)

PoolInv ==
  /\ PoolTypes
  /\ \A t \in Callers : NextIsCurrent(t)
  /\ \E L \in SUBSET Blocks : Chained(L) /\ Tally(L)

(* Lock-freedom: threads may disturb each other, but calls keep returning until
   no thread is in one. *)
SomeCallReturns ==
  \/ <>[](\A t \in Callers : at(t, "out"))
  \/ []<><<\E t \in Callers : ~at(t, "out") /\ local'[t].pc = "out">>_flVars
=============================================================================
