---------------------- MODULE BlockingConcurrentQueue ----------------------
(***************************************************************************)
(* moodycamel::BlockingConcurrentQueue, the queue of every node and the    *)
(* notifier of every connection: a ConcurrentQueue `inner' and a           *)
(* LightweightSemaphore.  An enqueue puts its elements into inner and then *)
(* signals; a dequeue takes permits first and then repeats inner's         *)
(* try_dequeue until it has as many elements as permits.  inner appears by *)
(* its contract, as the number of its elements; how it keeps the contract  *)
(* is the subject of ImplicitProducer.                                     *)
(*                                                                         *)
(* The overloads for tokens, moves and try_enqueue differ only in the      *)
(* function of inner they call.  A failed enqueue, a try_dequeue without   *)
(* permit and a try_dequeue of inner that finds nothing change no state.   *)
(***************************************************************************)
EXTENDS LightweightSemaphore

CONSTANTS Producers, Consumers, MaxElements

ASSUME RolesAssumption ==
  /\ Threads = Producers \cup Consumers
  /\ MaxElements \in Nat

VARIABLES
  inner,       \* elements enqueued and not dequeued
  unsignalled, \* elements a producer has enqueued and not yet signalled
  enqueued     \* elements enqueued so far (bounded by MaxElements)

vars == <<semaVars, inner, unsignalled, enqueued>>

QInit ==
  /\ Init
  /\ inner = 0 /\ enqueued = 0
  /\ unsignalled = [p \in Producers |-> 0]

(* enqueue_bulk, enqueue for n = 1: inner.enqueue first, then sema->signal(n). *)
enqueue_bulk(p, n) ==
  /\ pc[p] = "out" /\ enqueued + n <= MaxElements
  /\ inner' = inner + n
  /\ enqueued' = enqueued + n
  /\ unsignalled' = [unsignalled EXCEPT ![p] = n]
  /\ goto(p, "signal")
  /\ UNCHANGED <<m_count, m_sema, max, patience, got, toRelease>>

(* Mutant: one signal for a bulk of elements. *)
signalEnqueued_one(p) ==
  /\ signal(p, 1)
  /\ unsignalled' = [unsignalled EXCEPT ![p] = 0]
  /\ UNCHANGED <<inner, enqueued>>

signalEnqueued(p) ==
  /\ signal(p, unsignalled[p])
  /\ unsignalled' = [unsignalled EXCEPT ![p] = 0]
  /\ UNCHANGED <<inner, enqueued>>

(* try_dequeue, try_dequeue_bulk; and the first line of the waiting versions. *)
try_dequeue_bulk(c, n) ==
  /\ tryWaitMany(c, n)
  /\ UNCHANGED <<inner, unsignalled, enqueued>>

(* wait_dequeue ("forever"), wait_dequeue_timed and the bulk versions. *)
wait_dequeue_bulk(c, n, timeout) ==
  /\ waitMany(c, n, timeout)
  /\ UNCHANGED <<inner, unsignalled, enqueued>>

(* The loop over inner.try_dequeue(_bulk): one call that finds k elements. *)
takeElements(c, k) ==
  /\ pc[c] = "holds" /\ k <= inner
  /\ inner' = inner - k
  /\ got' = [got EXCEPT ![c] = @ - k]
  /\ goto(c, IF got[c] = k THEN "out" ELSE "holds")
  /\ UNCHANGED <<m_count, m_sema, max, patience, toRelease, unsignalled, enqueued>>

Wait(c) == WaitStep(c) /\ UNCHANGED <<inner, unsignalled, enqueued>>
TimeOut(c) == timeOut(c) /\ UNCHANGED <<inner, unsignalled, enqueued>>
Post(p) == post(p) /\ UNCHANGED <<inner, unsignalled, enqueued>>

Next ==
  \/ \E p \in Producers, n \in 1..MaxBulk : enqueue_bulk(p, n)
  \/ \E p \in Producers : signalEnqueued(p) \/ Post(p)
  \/ \E c \in Consumers, n \in 1..MaxBulk : try_dequeue_bulk(c, n)
  \/ \E c \in Consumers, n \in 1..MaxBulk, timeout \in {"none", "some", "forever"} :
       wait_dequeue_bulk(c, n, timeout)
  \/ \E c \in Consumers : Wait(c) \/ TimeOut(c)
  \/ \E c \in Consumers : \E k \in 1..got[c] : takeElements(c, k)

Spec == QInit /\ [][Next]_vars

(* A thread inside an operation goes on; nobody has to begin one. *)
FairSpec ==
  /\ Spec
  /\ \A p \in Producers : WF_vars(signalEnqueued(p) \/ Post(p))
  /\ \A c \in Consumers :
       /\ WF_vars(Wait(c))
       /\ WF_vars(TimeOut(c))
       /\ WF_vars(\E k \in 1..got[c] : takeElements(c, k))

(***************************************************************************)
(* Properties.                                                             *)
(***************************************************************************)
Unsignalled == UNION {{p} \X (1..unsignalled[p]) : p \in Producers}

TypeOK ==
  /\ SemaTypeOK
  /\ inner \in Nat /\ enqueued \in 0..MaxElements
  /\ unsignalled \in [Producers -> 0..MaxBulk]

(* Every element of inner has its permit: in m_count, owed to a waiting thread,
   with the thread that is about to dequeue it, or still to be signalled.  And
   the posts to the kernel semaphore balance with the threads they are owed to. *)
PermitsAreElements ==
  /\ TypeOK
  /\ KernelBalance
  /\ inner = permitsLeft + Cardinality(Held) + Cardinality(Unsignalled)

(* The loops "while (!inner.try_dequeue(item)) continue" cannot spin for ever:
   the threads that hold permits find an element each. *)
HoldersFindElements == Cardinality(Held) <= inner

(* The semaphore is a semaphore. *)
Promise == INSTANCE Semaphore WITH permits <- permitsLeft
ImplementsSemaphore == Promise!Spec

(* No lost wake-up: a consumer asleep in wait_dequeue while elements are there
   wakes up, or other consumers take the elements. *)
NoLostWakeUp ==
  \A c \in Consumers : (pc[c] = "asleep" /\ inner > 0) ~> (pc[c] # "asleep" \/ inner = 0)

(* The loop after a timeout ends: wait_dequeue_timed, on which a timeout of
   TCPConnection waits, returns. *)
TimedWaitReturns ==
  \A c \in Consumers : (pc[c] = "readjust") ~> (pc[c] \notin {"readjust", "retake"})

(***************************************************************************)
(* The inductive invariant: the books of PermitsAreElements, and what a    *)
(* thread has in its hands at the place where it is.                       *)
(***************************************************************************)
Hands ==
  \A t \in Threads :
    /\ (got[t] = 0) <=> (pc[t] \notin {"more", "holds"})
    /\ pc[t] = "more" => got[t] = 1 /\ max[t] > 1
    /\ (toRelease[t] = 0) <=> (pc[t] # "post")
    /\ pc[t] = "signal" => t \in Producers
    /\ t \in Producers => ((unsignalled[t] = 0) <=> (pc[t] # "signal"))

QueueInv == PermitsAreElements /\ Hands
============================================================================
