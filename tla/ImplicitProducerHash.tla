------------------------ MODULE ImplicitProducerHash ------------------------
(***************************************************************************)
(* How a thread that enqueues finds its producer in a ConcurrentQueue: a   *)
(* lock-free hash table from thread ids to producers, with linear probing. *)
(* A table that gets full is not copied: a larger one is put before it,    *)
(* and each thread copies its own entry when it comes by.  When a thread   *)
(* exits, its entries become reusable and its producer may be recycled by  *)
(* another thread; the id of the thread may come back as that of a new     *)
(* thread, since an id is an address.                                      *)
(*                                                                         *)
(* Each access to shared state is a step, in sequentially consistent       *)
(* order.  The value of an entry is written with its key: only the thread  *)
(* with that id reads it.  The list of producers is only ever added to.    *)
(***************************************************************************)
EXTENDS Naturals, Sequences, FiniteSets, FiniteSetsExt

CONSTANTS
  Threads,         \* ids of threads; a thread that exits may be followed by one of the same id
  hash_thread_id,  \* the hash of each
  InitialSize,     \* INITIAL_IMPLICIT_PRODUCER_HASH_SIZE
  MaxProducers,    \* producers there is memory for
  MaxUpsets        \* allocations that fail and threads that exit

CONSTANTS invalid_thread_id, invalid_thread_id2

twoTo[k \in Nat] == IF k = 0 THEN 1 ELSE 2 * twoTo[k - 1]

ASSUME HashAssumption ==
  /\ IsFiniteSet(Threads)
  /\ hash_thread_id \in [Threads -> Nat]
  /\ InitialSize \in {twoTo[k] : k \in 1..10}   \* a power of two
  /\ MaxProducers \in Nat /\ MaxUpsets \in Nat

(* A thread's id is the address of a thread_local variable: neither 0 nor odd. *)
ASSUME IdAssumption ==
  /\ invalid_thread_id # invalid_thread_id2
  /\ Threads \cap {invalid_thread_id, invalid_thread_id2} = {}

VARIABLES
  tables,                     \* the hash tables; each one's prev is the one before it
  implicitProducerHashCount,
  resizeInProgress,           \* implicitProducerHashResizeInProgress
  producerListTail,           \* producers are numbered; the next of one is the one before it
  inactive,                   \* producers that may be recycled
  own,                        \* whose exit listener each thread has subscribed
  local,                      \* where each thread is, and its local variables
  upsets

listVars == <<producerListTail, inactive>>
vars == <<tables, implicitProducerHashCount, resizeInProgress, listVars, own, local, upsets>>

emptyTable(capacity) == [i \in 0..(capacity - 1) |-> [key |-> invalid_thread_id, value |-> 0]]
capacity(h) == Cardinality(DOMAIN tables[h])
implicitProducerHash == Len(tables)

out == [pc |-> "out", main |-> 0, hash |-> 0, index |-> 0, newCount |-> 0, producer |-> 0]

Init ==
  /\ tables = <<emptyTable(InitialSize)>>
  /\ implicitProducerHashCount = 0
  /\ resizeInProgress = FALSE
  /\ producerListTail = 0
  /\ inactive = {}
  /\ own = [t \in Threads |-> 0]
  /\ local = [t \in Threads |-> out]
  /\ upsets = 0

at(t, pc) == local[t].pc = pc
set(t, l) == local' = [local EXCEPT ![t] = l]

(* The call goes on in table h, at the slot of the thread's id. *)
from(t, h, l) == [l EXCEPT !.hash = h, !.index = hash_thread_id[t] % capacity(h)]
slot(t) == tables[local[t].hash][local[t].index]
nextSlot(l) == [l EXCEPT !.index = (@ + 1) % capacity(l.hash)]
fill(t, key, value) ==
  tables' = [tables EXCEPT ![local[t].hash][local[t].index] = [key |-> key, value |-> value]]

(***************************************************************************)
(* get_or_add_implicit_producer: look in all tables.                       *)
(***************************************************************************)
(* Probing goes from the slot of the id on; it finds the id unless an empty slot
   comes first, and needs one to end without finding it. *)
distance(t, h, i) == (i + capacity(h) - (hash_thread_id[t] % capacity(h))) % capacity(h)
slots(h, key) == {i \in DOMAIN tables[h] : tables[h][i].key = key}
finds(t, h) ==
  \E i \in slots(h, t) : \A j \in slots(h, invalid_thread_id) : distance(t, h, i) < distance(t, h, j)
ends(t, h) == finds(t, h) \/ slots(h, invalid_thread_id) # {}

(* The lookup is one step: only the thread itself writes its id, so its entries
   do not change meanwhile.  If the current table has it the call returns. *)
get_or_add_implicit_producer(t) ==
  /\ at(t, "out")
  /\ ~finds(t, implicitProducerHash)
  /\ \A h \in DOMAIN tables : ends(t, h)
  /\ LET older == {h \in DOMAIN tables : finds(t, h)} IN
       set(t, IF older = {} THEN [out EXCEPT !.pc = "count", !.main = implicitProducerHash]
              ELSE LET h == Max(older) IN
                   from(t, implicitProducerHash,
                        [out EXCEPT !.pc = "copy",
                                    !.producer = tables[h][CHOOSE i \in slots(h, t) : TRUE].value]))
  /\ UNCHANGED <<tables, implicitProducerHashCount, resizeInProgress, listVars, own, upsets>>

(* Found in an older table: add it to the one that was current. *)
copy(t) ==
  /\ at(t, "copy")
  /\ IF slot(t).key \in {invalid_thread_id, invalid_thread_id2}
     THEN /\ fill(t, t, local[t].producer)
          /\ set(t, out)
     ELSE set(t, nextSlot(local[t])) /\ UNCHANGED tables
  /\ UNCHANGED <<implicitProducerHashCount, resizeInProgress, listVars, own, upsets>>

(***************************************************************************)
(* Not found: make room for one more.                                      *)
(***************************************************************************)
countOne(t) ==
  /\ at(t, "count")
  /\ implicitProducerHashCount' = implicitProducerHashCount + 1
  /\ set(t, [out EXCEPT !.pc = "room", !.main = local[t].main, !.newCount = implicitProducerHashCount + 1])
  /\ UNCHANGED <<tables, resizeInProgress, listVars, own, upsets>>

halfFull(l) == l.newCount >= capacity(l.main) \div 2
(* Mutant: while another thread makes a larger table the old one is used, however full. *)
fits_always(l) == TRUE
fits(l) == l.newCount < capacity(l.main) \div 2 + capacity(l.main) \div 4

lockResize(t) ==
  /\ at(t, "room") /\ halfFull(local[t]) /\ ~resizeInProgress
  /\ resizeInProgress' = TRUE
  /\ set(t, [local[t] EXCEPT !.pc = "resize", !.main = implicitProducerHash])
  /\ UNCHANGED <<tables, implicitProducerHashCount, listVars, own, upsets>>

(* Another thread is at it, or there is no need: the table is used if it has
   room, else the thread waits for the next. *)
noResize(t) ==
  /\ at(t, "room") /\ (halfFull(local[t]) => resizeInProgress)
  /\ set(t, IF fits(local[t]) THEN [local[t] EXCEPT !.pc = "recycle", !.newCount = 0]
            ELSE [local[t] EXCEPT !.pc = "reload"])
  /\ UNCHANGED <<tables, implicitProducerHashCount, resizeInProgress, listVars, own, upsets>>

reload(t) ==
  /\ at(t, "reload")
  /\ set(t, [local[t] EXCEPT !.pc = "room", !.main = implicitProducerHash])
  /\ UNCHANGED <<tables, implicitProducerHashCount, resizeInProgress, listVars, own, upsets>>

(* The smallest capacity, doubling, that newCount does not fill by half. *)
newCapacity(l) ==
  CHOOSE c \in {capacity(l.main) * twoTo[k] : k \in 1..l.newCount} :
    /\ l.newCount < c \div 2
    /\ c = 2 * capacity(l.main) \/ l.newCount >= c \div 4

resize(t) ==
  /\ at(t, "resize")
  /\ IF halfFull(local[t])
     THEN /\ tables' = Append(tables, emptyTable(newCapacity(local[t])))
          /\ set(t, [local[t] EXCEPT !.pc = "unlock", !.main = Len(tables) + 1])
     ELSE UNCHANGED tables /\ set(t, [local[t] EXCEPT !.pc = "unlock"])
  /\ UNCHANGED <<implicitProducerHashCount, resizeInProgress, listVars, own, upsets>>

(* Mutant: after a failed allocation the flag stays set. *)
unlockResize_afterSuccess(t) ==
  /\ at(t, "unlock")
  /\ resizeInProgress' = (local[t].newCount = 0)
  /\ set(t, IF local[t].newCount = 0 THEN out ELSE [local[t] EXCEPT !.pc = "recycle", !.newCount = 0])
  /\ UNCHANGED <<tables, implicitProducerHashCount, listVars, own, upsets>>

unlockResize(t) ==
  /\ at(t, "unlock")
  /\ resizeInProgress' = FALSE
  /\ set(t, IF local[t].newCount = 0 THEN out ELSE [local[t] EXCEPT !.pc = "recycle", !.newCount = 0])
  /\ UNCHANGED <<tables, implicitProducerHashCount, listVars, own, upsets>>

(* Memory for a table is not to be had: the call returns null. *)
resizeFails(t) ==
  /\ at(t, "resize") /\ halfFull(local[t]) /\ upsets < MaxUpsets
  /\ upsets' = upsets + 1
  /\ implicitProducerHashCount' = implicitProducerHashCount - 1
  /\ set(t, [out EXCEPT !.pc = "unlock"])
  /\ UNCHANGED <<tables, resizeInProgress, listVars, own>>

(***************************************************************************)
(* recycle_or_create_producer looks for an inactive producer from the tail *)
(* of the list on.  Whoever gets a producer subscribes its exit listener   *)
(* and goes on to insert it.  (The mutex of ThreadExitNotifier delays a    *)
(* subscription while another thread exits, which is left out.)            *)
(***************************************************************************)
subscribe(t, p) ==
  /\ own' = [own EXCEPT ![t] = p]
  /\ set(t, from(t, local[t].main, [out EXCEPT !.pc = "insert", !.producer = p]))

candidate(t) == IF at(t, "recycle") THEN producerListTail ELSE local[t].producer

recycle(t) ==
  /\ local[t].pc \in {"recycle", "scan"} /\ candidate(t) # 0
  /\ IF candidate(t) \in inactive
     THEN inactive' = inactive \ {candidate(t)} /\ subscribe(t, candidate(t))
     ELSE /\ set(t, [local[t] EXCEPT !.pc = "scan", !.producer = candidate(t) - 1])
          /\ UNCHANGED <<inactive, own>>
  /\ UNCHANGED <<tables, implicitProducerHashCount, resizeInProgress, producerListTail, upsets>>

(* A new producer, which add_producer pushes on the list: its compare-and-swap
   is repeated until it succeeds. *)
add_producer(t) ==
  /\ local[t].pc \in {"recycle", "scan"} /\ candidate(t) = 0 /\ producerListTail < MaxProducers
  /\ producerListTail' = producerListTail + 1
  /\ subscribe(t, producerListTail + 1)
  /\ UNCHANGED <<tables, implicitProducerHashCount, resizeInProgress, inactive, upsets>>

(* Nor is memory for a producer. *)
createFails(t) ==
  /\ local[t].pc \in {"recycle", "scan"} /\ candidate(t) = 0 /\ upsets < MaxUpsets
  /\ upsets' = upsets + 1
  /\ implicitProducerHashCount' = implicitProducerHashCount - 1
  /\ set(t, out)
  /\ UNCHANGED <<tables, resizeInProgress, listVars, own>>

(* Add the entry; in a slot that was used before, which is counted already. *)
insert(t) ==
  /\ at(t, "insert")
  /\ IF slot(t).key \in {invalid_thread_id, invalid_thread_id2}
     THEN /\ fill(t, t, local[t].producer)
          /\ set(t, IF slot(t).key = invalid_thread_id THEN out ELSE [out EXCEPT !.pc = "uncount"])
     ELSE set(t, nextSlot(local[t])) /\ UNCHANGED tables
  /\ UNCHANGED <<implicitProducerHashCount, resizeInProgress, listVars, own, upsets>>

uncount(t) ==
  /\ at(t, "uncount")
  /\ implicitProducerHashCount' = implicitProducerHashCount - 1
  /\ set(t, out)
  /\ UNCHANGED <<tables, resizeInProgress, listVars, own, upsets>>

(***************************************************************************)
(* A thread that has a producer exits: ~ThreadExitNotifier calls           *)
(* implicit_producer_thread_exited, which takes the id out of all tables.  *)
(* The notifier's mutex lets one thread at a time do so.                   *)
(***************************************************************************)
exit(t) ==
  /\ at(t, "out") /\ own[t] # 0 /\ upsets < MaxUpsets
  /\ \A u \in Threads : local[u].pc \notin {"forget", "deactivate"}
  /\ upsets' = upsets + 1
  /\ set(t, [out EXCEPT !.pc = "forget", !.hash = implicitProducerHash])
  /\ UNCHANGED <<tables, implicitProducerHashCount, resizeInProgress, listVars, own>>

(* Mutant: the id is taken out of the current table only. *)
implicit_producer_thread_exited_current(t) ==
  /\ at(t, "forget")
  /\ LET h == local[t].hash IN
       /\ ends(t, h)
       /\ tables' = IF finds(t, h)
                    THEN [tables EXCEPT ![h][CHOOSE i \in slots(h, t) : TRUE].key = invalid_thread_id2]
                    ELSE tables
  /\ set(t, [out EXCEPT !.pc = "deactivate"])
  /\ UNCHANGED <<implicitProducerHashCount, resizeInProgress, listVars, own, upsets>>

implicit_producer_thread_exited(t) ==
  /\ at(t, "forget")
  /\ LET h == local[t].hash IN
       /\ ends(t, h)
       /\ tables' = IF finds(t, h)
                    THEN [tables EXCEPT ![h][CHOOSE i \in slots(h, t) : TRUE].key = invalid_thread_id2]
                    ELSE tables
       /\ set(t, IF h > 1 THEN [local[t] EXCEPT !.hash = h - 1] ELSE [out EXCEPT !.pc = "deactivate"])
  /\ UNCHANGED <<implicitProducerHashCount, resizeInProgress, listVars, own, upsets>>

deactivate(t) ==
  /\ at(t, "deactivate")
  /\ inactive' = inactive \cup {own[t]}
  /\ own' = [own EXCEPT ![t] = 0]
  /\ set(t, out)
  /\ UNCHANGED <<tables, implicitProducerHashCount, resizeInProgress, producerListTail, upsets>>

Step(t) ==
  \/ copy(t) \/ countOne(t) \/ lockResize(t) \/ noResize(t) \/ reload(t) \/ resize(t)
  \/ resizeFails(t) \/ unlockResize(t) \/ recycle(t) \/ add_producer(t) \/ createFails(t)
  \/ insert(t) \/ uncount(t) \/ implicit_producer_thread_exited(t) \/ deactivate(t)

Next == \E t \in Threads : get_or_add_implicit_producer(t) \/ exit(t) \/ Step(t)

Spec == Init /\ [][Next]_vars

(* Threads do not stop inside a call. *)
FairSpec == Spec /\ \A t \in Threads : WF_vars(Step(t))

(***************************************************************************)
(* Properties.                                                             *)
(***************************************************************************)
TypeOK ==
  /\ \A h \in DOMAIN tables : \A i \in DOMAIN tables[h] :
       tables[h][i] \in [key : Threads \cup {invalid_thread_id, invalid_thread_id2},
                         value : 0..MaxProducers]
  /\ implicitProducerHashCount \in Nat
  /\ own \in [Threads -> 0..MaxProducers]
  /\ inactive \subseteq 1..producerListTail

(* What a call finds under the id of its thread is the producer this thread
   subscribed, never one an earlier thread with this id has left, and no other
   thread enqueues through it: a subqueue has a single producer. *)
OwnProducer ==
  /\ TypeOK
  /\ \A h \in DOMAIN tables : \A i \in DOMAIN tables[h] :
       tables[h][i].key \in Threads => tables[h][i].value = own[tables[h][i].key]
  /\ \A t, u \in Threads : t # u /\ own[t] # 0 => own[t] # own[u] /\ own[t] \notin inactive

(***************************************************************************)
(* An inductive invariant that implies OwnProducer.                        *)
(***************************************************************************)
Entry == [key : Threads \cup {invalid_thread_id, invalid_thread_id2}, value : 0..MaxProducers]
Table == UNION {[0..(n - 1) -> Entry] : n \in Nat \ {0, 1}}

(* Stages of a call: the id is in no table; no producer is there for it yet; the
   call is counted in implicitProducerHashCount. *)
Looking == {"count", "room", "reload", "resize", "unlock", "recycle", "scan"}
Absent == Looking \cup {"insert", "deactivate"}
Counted ==
  {t \in Threads : \/ local[t].pc \in {"room", "reload", "resize", "recycle", "scan", "insert", "uncount"}
                   \/ at(t, "unlock") /\ local[t].newCount # 0}

Stage == Absent \cup {"out", "copy", "uncount", "forget"}

Local == [pc : Stage, main : Nat, hash : Nat, index : Nat, newCount : Nat,
          producer : 0..producerListTail]

HashTypes ==
  /\ tables \in Seq(Table) /\ Len(tables) > 0
  /\ implicitProducerHashCount \in Nat /\ implicitProducerHashCount >= Cardinality(Counted)
  /\ producerListTail \in 0..MaxProducers
  /\ inactive \subseteq 1..producerListTail
  /\ own \in [Threads -> 0..producerListTail]
  /\ local \in [Threads -> Local]

(* The table a call works in exists; who has to resize has been counted. *)
PlaceExists(t) ==
  /\ local[t].pc \in Looking /\ (at(t, "unlock") => local[t].newCount # 0)
       => local[t].main \in DOMAIN tables
  /\ local[t].pc \in {"room", "reload", "resize"} => local[t].newCount # 0
  /\ local[t].pc \in {"copy", "insert", "forget"} => local[t].hash \in DOMAIN tables
  /\ local[t].pc \in {"copy", "insert"} => local[t].index \in DOMAIN tables[local[t].hash]

(* A table has an id once at most, with the producer of the thread, and no empty
   slot lies between the slot of the id's hash and the entry. *)
EntryFound(t) ==
  \A h \in DOMAIN tables : \A i \in slots(h, t) :
    /\ tables[h][i].value = own[t]
    /\ \A j \in slots(h, t) : i = j
    /\ \A j \in slots(h, invalid_thread_id) : distance(t, h, i) < distance(t, h, j)

(* A thread that probes for a free slot has passed no empty one, and its id is
   not in this table yet. *)
ProbesFromHash(t) ==
  local[t].pc \in {"copy", "insert"} =>
    /\ local[t].producer = own[t]
    /\ slots(local[t].hash, t) = {}
    /\ \A j \in slots(local[t].hash, invalid_thread_id) :
         distance(t, local[t].hash, local[t].index) <= distance(t, local[t].hash, j)

(* A thread has a producer if and only if some table has its id, except between
   the two of them becoming true and becoming false. *)
ListedOrNone(t) ==
  /\ local[t].pc \in Looking => own[t] = 0
  /\ local[t].pc \in {"copy", "insert", "uncount", "forget", "deactivate"} => own[t] # 0
  /\ local[t].pc \in Absent \/ own[t] = 0 => \A h \in DOMAIN tables : slots(h, t) = {}
  /\ local[t].pc \in {"out", "uncount"} /\ own[t] # 0 => \E h \in DOMAIN tables : slots(h, t) # {}
  /\ at(t, "forget") => \A h \in DOMAIN tables : h > local[t].hash => slots(h, t) = {}

OneProducerEach ==
  \A t \in Threads :
    /\ own[t] \notin inactive
    /\ \A u \in Threads : t # u /\ own[t] # 0 => own[t] # own[u]

ThreadInv(t) == PlaceExists(t) /\ EntryFound(t) /\ ProbesFromHash(t) /\ ListedOrNone(t)

HashInv == HashTypes /\ OneProducerEach /\ \A t \in Threads : ThreadInv(t)

(* "Not an infinite loop because at least one slot is free in the hash table". *)
RoomLeft ==
  \A h \in DOMAIN tables : \E i \in DOMAIN tables[h] : tables[h][i].key = invalid_thread_id

(* Every call returns, also one that has to wait for a larger table: a call that
   finds its entry changes nothing and exits are bounded, so from some time on
   no thread is inside a call. *)
EveryCallReturns == <>[](\A t \in Threads : at(t, "out"))
=============================================================================
