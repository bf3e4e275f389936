----------------------- MODULE LightweightSemaphore -----------------------
(***************************************************************************)
(* moodycamel::LightweightSemaphore, on which BlockingConcurrentQueue puts *)
(* its consumers to sleep.  m_count is the number of permits; below zero   *)
(* it counts threads that have gone to the kernel semaphore m_sema.  A     *)
(* signal first adds to m_count and then posts to m_sema, once for every   *)
(* sleeper it owes a permit; a wait that times out must take its decrement *)
(* back, unless it is already owed a permit.                               *)
(*                                                                         *)
(* A loop that repeats a compare_exchange on m_count until it succeeds is  *)
(* one step: the value of m_count is all it depends on.  wait and tryWait  *)
(* are waitMany and tryWaitMany for one permit.                            *)
(***************************************************************************)
EXTENDS Integers, FiniteSets

CONSTANTS Threads, MaxBulk

ASSUME ThreadsAssumption == IsFiniteSet(Threads)
ASSUME BulkAssumption == MaxBulk \in Nat \ {0}

VARIABLES
  m_count, m_sema,
  pc,          \* the place of a thread, see Places
  max,         \* permits its wait asks for at most
  patience,    \* its timeout: "none" (0), "some" (> 0), "forever" (< 0)
  got,         \* permits its wait has taken
  toRelease    \* posts its signal has still to make

semaVars == <<m_count, m_sema, pc, max, patience, got, toRelease>>

Places == {"out", "spin", "asleep", "readjust", "retake", "more", "holds",
           "signal", "post"}

(* Threads that have decremented m_count and wait for a permit they are not owed yet. *)
Waiting == {t \in Threads : pc[t] \in {"asleep", "readjust", "retake"}}

(* Posts that signals owe to the kernel semaphore; permits taken and not yet used. *)
Owed == UNION {{t} \X (1..toRelease[t]) : t \in Threads}
Held == UNION {{t} \X (1..got[t]) : t \in Threads}

least(a, b) == IF a < b THEN a ELSE b

Init ==
  /\ m_count = 0 /\ m_sema = 0
  /\ pc = [t \in Threads |-> "out"]
  /\ max = [t \in Threads |-> 1]
  /\ patience = [t \in Threads |-> "forever"]
  /\ got = [t \in Threads |-> 0]
  /\ toRelease = [t \in Threads |-> 0]

goto(t, place) == pc' = [pc EXCEPT ![t] = place]

(* Takes up to n of the permits in m_count on top of those it has. *)
take(t, n) ==
  /\ m_count > 0
  /\ m_count' = m_count - least(m_count, n)
  /\ got' = [got EXCEPT ![t] = @ + least(m_count, n)]
  /\ goto(t, "holds")

tryWaitMany(t, n) ==
  /\ pc[t] = "out"
  /\ take(t, n)
  /\ UNCHANGED <<m_sema, max, patience, toRelease>>

(* waitMany whose tryWaitMany took nothing. *)
waitMany(t, n, timeout) ==
  /\ pc[t] = "out" /\ m_count <= 0
  /\ goto(t, "spin")
  /\ max' = [max EXCEPT ![t] = n]
  /\ patience' = [patience EXCEPT ![t] = timeout]
  /\ UNCHANGED <<m_count, m_sema, got, toRelease>>

spin(t) ==
  /\ pc[t] = "spin"
  /\ take(t, max[t])
  /\ UNCHANGED <<m_sema, max, patience, toRelease>>

(* The first permit is there; if more are wanted, tryWaitMany(max - 1) follows. *)
first(t) ==
  /\ got' = [got EXCEPT ![t] = 1]
  /\ goto(t, IF max[t] > 1 THEN "more" ELSE "holds")

(* Mutant: a count of zero is taken for a permit. *)
stopSpinning_offByOne(t) ==
  /\ pc[t] = "spin"
  /\ m_count' = m_count - 1
  /\ \/ m_count >= 0 /\ first(t)
     \/ m_count < 0 /\ goto(t, "asleep") /\ UNCHANGED got
  /\ UNCHANGED <<m_sema, max, patience, toRelease>>

(* The spins are used up: m_count.fetch_sub(1). *)
stopSpinning(t) ==
  /\ pc[t] = "spin"
  /\ m_count' = m_count - 1
  /\ \/ m_count > 0 /\ first(t)
     \/ /\ m_count <= 0
        /\ goto(t, IF patience[t] = "none" THEN "readjust" ELSE "asleep")
        /\ UNCHANGED got
  /\ UNCHANGED <<m_sema, max, patience, toRelease>>

(* m_sema.wait or timed_wait succeeds. *)
wake(t) ==
  /\ pc[t] = "asleep" /\ m_sema > 0
  /\ m_sema' = m_sema - 1
  /\ first(t)
  /\ UNCHANGED <<m_count, max, patience, toRelease>>

timeOut(t) ==
  /\ pc[t] = "asleep" /\ patience[t] = "some"
  /\ goto(t, "readjust")
  /\ UNCHANGED <<m_count, m_sema, max, patience, got, toRelease>>

(* The loop after a timeout: read the count and take the decrement back, or
   try to take the permit that is owed. *)
readjust(t) ==
  /\ pc[t] = "readjust"
  /\ \/ m_count < 0 /\ m_count' = m_count + 1 /\ goto(t, "out")
     \/ m_count >= 0 /\ UNCHANGED m_count /\ goto(t, "retake")
  /\ UNCHANGED <<m_sema, max, patience, got, toRelease>>

(* Mutant: a permit is owed, and taken without the kernel semaphore. *)
retake_noToken(t) ==
  /\ pc[t] = "retake"
  /\ first(t)
  /\ UNCHANGED <<m_count, m_sema, max, patience, toRelease>>

(* Mutant: the count is not read again while the permit owed is not there. *)
retake_oldCount(t) ==
  /\ pc[t] = "retake" /\ m_sema > 0
  /\ m_sema' = m_sema - 1
  /\ first(t)
  /\ UNCHANGED <<m_count, max, patience, toRelease>>

retake(t) ==
  /\ pc[t] = "retake"
  /\ \/ m_sema > 0 /\ m_sema' = m_sema - 1 /\ first(t)
     \/ m_sema = 0 /\ goto(t, "readjust") /\ UNCHANGED <<m_sema, got>>
  /\ UNCHANGED <<m_count, max, patience, toRelease>>

tryMore(t) ==
  /\ pc[t] = "more"
  /\ \/ take(t, max[t] - 1)
     \/ m_count <= 0 /\ goto(t, "holds") /\ UNCHANGED <<m_count, got>>
  /\ UNCHANGED <<m_sema, max, patience, toRelease>>

(* Mutant: the sleepers are counted after the addition. *)
signal_newCount(t, n) ==
  /\ pc[t] = "signal"
  /\ m_count' = m_count + n
  /\ LET release == least(-(m_count + n), n) IN
       \/ release > 0 /\ toRelease' = [toRelease EXCEPT ![t] = release] /\ goto(t, "post")
       \/ release <= 0 /\ UNCHANGED toRelease /\ goto(t, "out")
  /\ UNCHANGED <<m_sema, max, patience, got>>

(* signal(n): m_count.fetch_add(n), then a post for each permit owed to a sleeper. *)
signal(t, n) ==
  /\ pc[t] = "signal"
  /\ m_count' = m_count + n
  /\ LET release == least(-m_count, n) IN
       \/ release > 0 /\ toRelease' = [toRelease EXCEPT ![t] = release] /\ goto(t, "post")
       \/ release <= 0 /\ UNCHANGED toRelease /\ goto(t, "out")
  /\ UNCHANGED <<m_sema, max, patience, got>>

post(t) ==
  /\ pc[t] = "post"
  /\ m_sema' = m_sema + 1
  /\ toRelease' = [toRelease EXCEPT ![t] = @ - 1]
  /\ goto(t, IF toRelease[t] = 1 THEN "out" ELSE "post")
  /\ UNCHANGED <<m_count, max, patience, got>>

(* The steps of a thread inside a wait. *)
WaitStep(t) ==
  \/ spin(t) \/ stopSpinning(t) \/ wake(t) \/ readjust(t) \/ retake(t) \/ tryMore(t)

availableApprox == IF m_count > 0 THEN m_count ELSE 0

(***************************************************************************)
(* Properties.                                                             *)
(***************************************************************************)
SemaTypeOK ==
  /\ m_count \in Int /\ m_sema \in Nat
  /\ pc \in [Threads -> Places]
  /\ max \in [Threads -> 1..MaxBulk]
  /\ patience \in [Threads -> {"none", "some", "forever"}]
  /\ got \in [Threads -> 0..MaxBulk]
  /\ toRelease \in [Threads -> 0..MaxBulk]

(* Between fetch_add and the last post of signal, and between the timeout and
   the end of the loop of wait, the books balance: the permits in or on their
   way to the kernel are those of the waiting threads that m_count no longer
   counts.  One too few is a thread that sleeps although a permit is free, one
   too many a permit taken twice. *)
KernelBalance == m_sema + Cardinality(Owed) = Cardinality(Waiting) + least(0, m_count)

(* Permits that are signalled and not taken: the refinement mapping. *)
permitsLeft == m_count + Cardinality(Waiting)
===========================================================================
