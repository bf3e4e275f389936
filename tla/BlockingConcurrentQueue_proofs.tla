------------------- MODULE BlockingConcurrentQueue_proofs -------------------
(***************************************************************************)
(* Proofs about the blocking queue, for any number of threads and any      *)
(* sizes of bulks: permits are elements, a consumer with a permit finds an *)
(* element, and the semaphore is a semaphore.                              *)
(*                                                                         *)
(* The second half is about the memory of the queue inside, for any number *)
(* of threads and of blocks: FreeList, a component with a specification    *)
(* and variables of its own.  A block of the pool or of the free list has  *)
(* one owner, and none gets lost.                                          *)
(***************************************************************************)
EXTENDS BlockingConcurrentQueue, FreeList, FiniteSetTheorems, ProofRules, TLAPS

-----------------------------------------------------------------------------
\* The four numbers of the books.
waiting == Cardinality(Waiting)
owed == Cardinality(Owed)
held == Cardinality(Held)
pending == Cardinality(Unsignalled)

LEMMA Roles == IsFiniteSet(Threads) /\ Producers \subseteq Threads /\ Consumers \subseteq Threads
BY ThreadsAssumption, RolesAssumption

LEMMA BulkFacts == MaxBulk \in Nat \ {0} /\ MaxElements \in Nat
BY BulkAssumption, RolesAssumption

LEMMA NumberTypes ==
  ASSUME TypeOK
  PROVE  waiting \in Nat /\ owed \in Nat /\ held \in Nat /\ pending \in Nat
<1>1. IsFiniteSet(Waiting)
  <2>1. Waiting \subseteq Threads
    BY DEF Waiting
  <2> QED BY <2>1, Roles, FS_Subset
<1>2. waiting \in Nat
  BY <1>1, FS_CardinalityType DEF waiting
<1>3. toRelease \in [Threads -> Nat] /\ got \in [Threads -> Nat] /\ unsignalled \in [Producers -> Nat]
  BY BulkFacts DEF TypeOK, SemaTypeOK
<1>4. Owed = Tokens(toRelease, Threads) /\ Held = Tokens(got, Threads)
        /\ Unsignalled = Tokens(unsignalled, Producers)
  BY DEF Owed, Held, Unsignalled, Tokens
<1>5. IsFiniteSet(Producers)
  BY Roles, FS_Subset
<1> QED BY <1>2, <1>3, <1>4, <1>5, Roles, TokensFinite DEF owed, held, pending

waits(place) == IF place \in {"asleep", "readjust", "retake"} THEN 1 ELSE 0

LEMMA WaitingChange ==
  ASSUME TypeOK, NEW t \in Threads, NEW place \in Places, goto(t, place)
  PROVE  waiting' = waiting - waits(pc[t]) + waits(place)
<1>1. pc \in [Threads -> Places] /\ pc' = [pc EXCEPT ![t] = place]
  BY DEF TypeOK, SemaTypeOK, goto
<1> DEFINE Others == Waiting \ {t}
<1>2. IsFiniteSet(Others) /\ IsFiniteSet(Waiting)
  <2>1. Waiting \subseteq Threads
    BY DEF Waiting
  <2> QED BY <2>1, Roles, FS_Subset
<1>3. Cardinality(Others \cup {t}) = Cardinality(Others) + 1 /\ Cardinality(Others) \in Nat
  BY <1>2, FS_AddElement, FS_CardinalityType
<1>4. /\ Waiting = IF waits(pc[t]) = 1 THEN Others \cup {t} ELSE Others
      /\ Waiting' = IF waits(place) = 1 THEN Others \cup {t} ELSE Others
  BY <1>1 DEF Waiting, waits
<1> HIDE DEF Others
<1> QED BY <1>3, <1>4 DEF waiting, waits

\* A step of thread t that takes it to a place with so many permits in hand and
\* so many posts to make.
LEMMA Books ==
  ASSUME TypeOK, NEW t \in Threads, NEW place \in Places,
         NEW g \in Nat, NEW r \in Nat,
         goto(t, place),
         got' = [got EXCEPT ![t] = g],
         toRelease' = [toRelease EXCEPT ![t] = r]
  PROVE  /\ waiting' = waiting - waits(pc[t]) + waits(place)
         /\ held' = held - got[t] + g
         /\ owed' = owed - toRelease[t] + r
<1>1. toRelease \in [Threads -> Nat] /\ got \in [Threads -> Nat]
  BY BulkFacts DEF TypeOK, SemaTypeOK
<1>2. /\ Owed = Tokens(toRelease, Threads) /\ Held = Tokens(got, Threads)
      /\ Owed' = Tokens(toRelease', Threads) /\ Held' = Tokens(got', Threads)
  BY DEF Owed, Held, Tokens
<1>change. \A f, h \in [Threads -> Nat] :
             (\A y \in Threads \ {t} : h[y] = f[y]) =>
                Cardinality(Tokens(h, Threads)) = Cardinality(Tokens(f, Threads)) - f[t] + h[t]
  BY Roles, TokensChange
<1>3. Cardinality(Tokens(got', Threads)) = Cardinality(Tokens(got, Threads)) - got[t] + g
  <2>1. got' \in [Threads -> Nat] /\ got'[t] = g /\ \A y \in Threads \ {t} : got'[y] = got[y]
    BY <1>1
  <2>2. Cardinality(Tokens(got', Threads)) = Cardinality(Tokens(got, Threads)) - got[t] + got'[t]
    BY <1>1, <1>change, <2>1, Zenon
  <2> QED BY <2>1, <2>2
<1>4. Cardinality(Tokens(toRelease', Threads))
        = Cardinality(Tokens(toRelease, Threads)) - toRelease[t] + r
  <2>1. /\ toRelease' \in [Threads -> Nat] /\ toRelease'[t] = r
        /\ \A y \in Threads \ {t} : toRelease'[y] = toRelease[y]
    BY <1>1
  <2>2. Cardinality(Tokens(toRelease', Threads))
          = Cardinality(Tokens(toRelease, Threads)) - toRelease[t] + toRelease'[t]
    BY <1>1, <1>change, <2>1, Zenon
  <2> QED BY <2>1, <2>2
<1> QED BY <1>2, <1>3, <1>4, WaitingChange DEF held, owed

\* The same for the elements a producer has still to signal.
LEMMA PendingChange ==
  ASSUME TypeOK, NEW p \in Producers, NEW n \in Nat,
         unsignalled' = [unsignalled EXCEPT ![p] = n]
  PROVE  pending' = pending - unsignalled[p] + n
<1>1. unsignalled \in [Producers -> Nat] /\ IsFiniteSet(Producers)
  BY BulkFacts, Roles, FS_Subset DEF TypeOK
<1>2. Unsignalled = Tokens(unsignalled, Producers) /\ Unsignalled' = Tokens(unsignalled', Producers)
  BY DEF Unsignalled, Tokens
<1>change. \A f, g \in [Producers -> Nat] :
             (\A y \in Producers \ {p} : g[y] = f[y]) =>
               Cardinality(Tokens(g, Producers)) = Cardinality(Tokens(f, Producers)) - f[p] + g[p]
  BY <1>1, TokensChange
<1>3. Cardinality(Tokens(unsignalled', Producers))
        = Cardinality(Tokens(unsignalled, Producers)) - unsignalled[p] + n
  <2>1. /\ unsignalled' \in [Producers -> Nat] /\ unsignalled'[p] = n
        /\ \A y \in Producers \ {p} : unsignalled'[y] = unsignalled[y]
    BY <1>1
  <2>2. Cardinality(Tokens(unsignalled', Producers))
          = Cardinality(Tokens(unsignalled, Producers)) - unsignalled[p] + unsignalled'[p]
    BY <1>1, <1>change, <2>1, Zenon
  <2> QED BY <2>1, <2>2
<1> QED BY <1>2, <1>3 DEF pending

-----------------------------------------------------------------------------
\* The invariant in terms of the four numbers.
Balanced ==
  /\ m_sema + owed = waiting + least(0, m_count)
  /\ inner = m_count + waiting + held + pending

LEMMA InvariantInNumbers ==
  /\ QueueInv <=> TypeOK /\ Balanced /\ Hands
  /\ QueueInv' <=> TypeOK' /\ Balanced' /\ Hands'
BY DEF QueueInv, PermitsAreElements, KernelBalance, permitsLeft, Balanced,
   waiting, owed, held, pending

\* What a step is for the abstract semaphore.
Takes(n) == n \in 1..MaxBulk /\ permitsLeft >= n /\ permitsLeft' = permitsLeft - n
Signals(n) == n \in 1..MaxBulk /\ permitsLeft' = permitsLeft + n

LEMMA SemaphoreSteps ==
  /\ \A n : Takes(n) => [Promise!Next]_permitsLeft
  /\ \A n : Signals(n) => [Promise!Next]_permitsLeft
  /\ permitsLeft' = permitsLeft => [Promise!Next]_permitsLeft
BY DEF Takes, Signals, Promise!Next, Promise!Signal, Promise!Wait

-----------------------------------------------------------------------------
\* One lemma for each action: types, what threads have in hand, the books, and
\* the step of the semaphore that it is.
LEMMA enqueue_bulkStep ==
  ASSUME QueueInv, NEW p \in Producers, NEW n \in 1..MaxBulk,
         enqueue_bulk(p, n)
  PROVE  QueueInv' /\ [Promise!Next]_permitsLeft
<1> USE Roles, BulkFacts DEF enqueue_bulk, goto, Places
<1>1. TypeOK /\ Balanced /\ Hands
  BY InvariantInNumbers
<1>2. TypeOK'
  BY <1>1 DEF TypeOK, SemaTypeOK, Hands, least
<1>3. Hands'
  BY <1>1 DEF TypeOK, SemaTypeOK, Hands, least
<1>4. /\ waiting' = waiting - waits(pc[p]) + waits("signal")
      /\ held' = held - got[p] + got[p]
      /\ owed' = owed - toRelease[p] + toRelease[p]
  <2>1. goto(p, "signal")
    BY <1>1 DEF TypeOK, SemaTypeOK, Hands, least
  <2>2. /\ "signal" \in Places
        /\ got[p] \in Nat /\ toRelease[p] \in Nat
    BY <1>1 DEF TypeOK, SemaTypeOK, Hands, least
  <2>3. /\ got' = [got EXCEPT ![p] = got[p]]
        /\ toRelease' = [toRelease EXCEPT ![p] = toRelease[p]]
    BY <1>1 DEF TypeOK, SemaTypeOK, Hands, least
  <2> HIDE DEF enqueue_bulk, goto, Places
  <2> QED BY <1>1, <2>1, <2>2, <2>3, Books, ZenonT(60)
<1>5. pending' = pending - unsignalled[p] + n
  <2>1. n \in Nat /\ unsignalled' = [unsignalled EXCEPT ![p] = n]
    OBVIOUS
  <2> HIDE DEF enqueue_bulk, goto
  <2> QED BY <1>1, <2>1, PendingChange
<1>6. Balanced'
  BY <1>1, <1>4, <1>5, NumberTypes DEF Balanced, TypeOK, SemaTypeOK, Hands, least, waits
<1>7. permitsLeft' = permitsLeft
  BY <1>1, <1>4, <1>6, NumberTypes
  DEF Balanced, TypeOK, SemaTypeOK, Hands, least, waits, permitsLeft, waiting
<1> QED BY <1>2, <1>3, <1>6, <1>7, InvariantInNumbers, SemaphoreSteps

LEMMA try_dequeue_bulkStep ==
  ASSUME QueueInv, NEW c \in Consumers, NEW n \in 1..MaxBulk,
         try_dequeue_bulk(c, n)
  PROVE  QueueInv' /\ [Promise!Next]_permitsLeft
<1> USE Roles, BulkFacts DEF try_dequeue_bulk, tryWaitMany, take, goto, Places
<1>1. TypeOK /\ Balanced /\ Hands
  BY InvariantInNumbers
<1>2. TypeOK'
  BY <1>1 DEF TypeOK, SemaTypeOK, Hands, least
<1>3. Hands'
  BY <1>1 DEF TypeOK, SemaTypeOK, Hands, least
<1>4. /\ waiting' = waiting - waits(pc[c]) + waits("holds")
      /\ held' = held - got[c] + (got[c] + least(m_count, n))
      /\ owed' = owed - toRelease[c] + toRelease[c]
  <2>1. goto(c, "holds")
    BY <1>1 DEF TypeOK, SemaTypeOK, Hands, least
  <2>2. /\ "holds" \in Places
        /\ (got[c] + least(m_count, n)) \in Nat /\ toRelease[c] \in Nat
    BY <1>1 DEF TypeOK, SemaTypeOK, Hands, least
  <2>3. /\ got' = [got EXCEPT ![c] = got[c] + least(m_count, n)]
        /\ toRelease' = [toRelease EXCEPT ![c] = toRelease[c]]
    BY <1>1 DEF TypeOK, SemaTypeOK, Hands, least
  <2> HIDE DEF try_dequeue_bulk, tryWaitMany, take, goto, Places
  <2> QED BY <1>1, <2>1, <2>2, <2>3, Books, ZenonT(60)
<1>5. pending' = pending
  BY DEF pending, Unsignalled
<1>6. Balanced'
  BY <1>1, <1>4, <1>5, NumberTypes DEF Balanced, TypeOK, SemaTypeOK, Hands, least, waits
<1>7. Takes(least(m_count, n))
  BY <1>1, <1>4, <1>6, NumberTypes
  DEF Balanced, TypeOK, SemaTypeOK, Hands, least, waits, permitsLeft, waiting, Takes
<1> QED BY <1>2, <1>3, <1>6, <1>7, InvariantInNumbers, SemaphoreSteps

LEMMA wait_dequeue_bulkStep ==
  ASSUME QueueInv, NEW c \in Consumers, NEW n \in 1..MaxBulk,
         NEW timeout \in {"none", "some", "forever"},
         wait_dequeue_bulk(c, n, timeout)
  PROVE  QueueInv' /\ [Promise!Next]_permitsLeft
<1> USE Roles, BulkFacts DEF wait_dequeue_bulk, waitMany, goto, Places
<1>1. TypeOK /\ Balanced /\ Hands
  BY InvariantInNumbers
<1>2. TypeOK'
  BY <1>1 DEF TypeOK, SemaTypeOK, Hands, least
<1>3. Hands'
  BY <1>1 DEF TypeOK, SemaTypeOK, Hands, least
<1>4. /\ waiting' = waiting - waits(pc[c]) + waits("spin")
      /\ held' = held - got[c] + got[c]
      /\ owed' = owed - toRelease[c] + toRelease[c]
  <2>1. goto(c, "spin")
    BY <1>1 DEF TypeOK, SemaTypeOK, Hands, least
  <2>2. /\ "spin" \in Places
        /\ got[c] \in Nat /\ toRelease[c] \in Nat
    BY <1>1 DEF TypeOK, SemaTypeOK, Hands, least
  <2>3. /\ got' = [got EXCEPT ![c] = got[c]]
        /\ toRelease' = [toRelease EXCEPT ![c] = toRelease[c]]
    BY <1>1 DEF TypeOK, SemaTypeOK, Hands, least
  <2> HIDE DEF wait_dequeue_bulk, waitMany, goto, Places
  <2> QED BY <1>1, <2>1, <2>2, <2>3, Books, ZenonT(60)
<1>5. pending' = pending
  BY DEF pending, Unsignalled
<1>6. Balanced'
  BY <1>1, <1>4, <1>5, NumberTypes DEF Balanced, TypeOK, SemaTypeOK, Hands, least, waits
<1>7. permitsLeft' = permitsLeft
  BY <1>1, <1>4, <1>6, NumberTypes
  DEF Balanced, TypeOK, SemaTypeOK, Hands, least, waits, permitsLeft, waiting
<1> QED BY <1>2, <1>3, <1>6, <1>7, InvariantInNumbers, SemaphoreSteps

LEMMA takeElementsStep ==
  ASSUME QueueInv, NEW c \in Consumers, NEW k \in 1..got[c],
         takeElements(c, k)
  PROVE  QueueInv' /\ [Promise!Next]_permitsLeft
<1> USE Roles, BulkFacts DEF takeElements, goto, Places
<1>1. TypeOK /\ Balanced /\ Hands
  BY InvariantInNumbers
<1>2. TypeOK'
  BY <1>1 DEF TypeOK, SemaTypeOK, Hands, least
<1>3. Hands'
  BY <1>1 DEF TypeOK, SemaTypeOK, Hands, least
<1>4. /\ waiting' = waiting - waits(pc[c]) + waits((IF got[c] = k THEN "out" ELSE "holds"))
      /\ held' = held - got[c] + (got[c] - k)
      /\ owed' = owed - toRelease[c] + toRelease[c]
  <2>1. goto(c, (IF got[c] = k THEN "out" ELSE "holds"))
    BY <1>1 DEF TypeOK, SemaTypeOK, Hands, least
  <2>2. /\ (IF got[c] = k THEN "out" ELSE "holds") \in Places
        /\ (got[c] - k) \in Nat /\ toRelease[c] \in Nat
    BY <1>1 DEF TypeOK, SemaTypeOK, Hands, least
  <2>3. /\ got' = [got EXCEPT ![c] = got[c] - k]
        /\ toRelease' = [toRelease EXCEPT ![c] = toRelease[c]]
    BY <1>1 DEF TypeOK, SemaTypeOK, Hands, least
  <2> HIDE DEF takeElements, goto, Places
  <2> QED BY <1>1, <2>1, <2>2, <2>3, Books, ZenonT(60)
<1>5. pending' = pending
  BY DEF pending, Unsignalled
<1>6. Balanced'
  BY <1>1, <1>4, <1>5, NumberTypes DEF Balanced, TypeOK, SemaTypeOK, Hands, least, waits
<1>7. permitsLeft' = permitsLeft
  BY <1>1, <1>4, <1>6, NumberTypes
  DEF Balanced, TypeOK, SemaTypeOK, Hands, least, waits, permitsLeft, waiting
<1> QED BY <1>2, <1>3, <1>6, <1>7, InvariantInNumbers, SemaphoreSteps

LEMMA spinStep ==
  ASSUME QueueInv, NEW c \in Consumers,
         spin(c), UNCHANGED <<inner, unsignalled, enqueued>>
  PROVE  QueueInv' /\ [Promise!Next]_permitsLeft
<1> USE Roles, BulkFacts DEF spin, take, goto, Places
<1>1. TypeOK /\ Balanced /\ Hands
  BY InvariantInNumbers
<1>2. TypeOK'
  BY <1>1 DEF TypeOK, SemaTypeOK, Hands, least
<1>3. Hands'
  BY <1>1 DEF TypeOK, SemaTypeOK, Hands, least
<1>4. /\ waiting' = waiting - waits(pc[c]) + waits("holds")
      /\ held' = held - got[c] + (got[c] + least(m_count, max[c]))
      /\ owed' = owed - toRelease[c] + toRelease[c]
  <2>1. goto(c, "holds")
    BY <1>1 DEF TypeOK, SemaTypeOK, Hands, least
  <2>2. /\ "holds" \in Places
        /\ (got[c] + least(m_count, max[c])) \in Nat /\ toRelease[c] \in Nat
    BY <1>1 DEF TypeOK, SemaTypeOK, Hands, least
  <2>3. /\ got' = [got EXCEPT ![c] = got[c] + least(m_count, max[c])]
        /\ toRelease' = [toRelease EXCEPT ![c] = toRelease[c]]
    BY <1>1 DEF TypeOK, SemaTypeOK, Hands, least
  <2> HIDE DEF spin, take, goto, Places
  <2> QED BY <1>1, <2>1, <2>2, <2>3, Books, ZenonT(60)
<1>5. pending' = pending
  BY DEF pending, Unsignalled
<1>6. Balanced'
  BY <1>1, <1>4, <1>5, NumberTypes DEF Balanced, TypeOK, SemaTypeOK, Hands, least, waits
<1>7. Takes(least(m_count, max[c]))
  BY <1>1, <1>4, <1>6, NumberTypes
  DEF Balanced, TypeOK, SemaTypeOK, Hands, least, waits, permitsLeft, waiting, Takes
<1> QED BY <1>2, <1>3, <1>6, <1>7, InvariantInNumbers, SemaphoreSteps

LEMMA wakeStep ==
  ASSUME QueueInv, NEW c \in Consumers,
         wake(c), UNCHANGED <<inner, unsignalled, enqueued>>
  PROVE  QueueInv' /\ [Promise!Next]_permitsLeft
<1> USE Roles, BulkFacts DEF wake, first, goto, Places
<1>1. TypeOK /\ Balanced /\ Hands
  BY InvariantInNumbers
<1>2. TypeOK'
  BY <1>1 DEF TypeOK, SemaTypeOK, Hands, least
<1>3. Hands'
  BY <1>1 DEF TypeOK, SemaTypeOK, Hands, least
<1>4. /\ waiting' = waiting - waits(pc[c]) + waits((IF max[c] > 1 THEN "more" ELSE "holds"))
      /\ held' = held - got[c] + 1
      /\ owed' = owed - toRelease[c] + toRelease[c]
  <2>1. goto(c, (IF max[c] > 1 THEN "more" ELSE "holds"))
    BY <1>1 DEF TypeOK, SemaTypeOK, Hands, least
  <2>2. /\ (IF max[c] > 1 THEN "more" ELSE "holds") \in Places
        /\ (1) \in Nat /\ toRelease[c] \in Nat
    BY <1>1 DEF TypeOK, SemaTypeOK, Hands, least
  <2>3. /\ got' = [got EXCEPT ![c] = 1]
        /\ toRelease' = [toRelease EXCEPT ![c] = toRelease[c]]
    BY <1>1 DEF TypeOK, SemaTypeOK, Hands, least
  <2> HIDE DEF wake, first, goto, Places
  <2> QED BY <1>1, <2>1, <2>2, <2>3, Books, ZenonT(60)
<1>5. pending' = pending
  BY DEF pending, Unsignalled
<1>6. Balanced'
  BY <1>1, <1>4, <1>5, NumberTypes DEF Balanced, TypeOK, SemaTypeOK, Hands, least, waits
<1>7. Takes(1)
  BY <1>1, <1>4, <1>6, NumberTypes
  DEF Balanced, TypeOK, SemaTypeOK, Hands, least, waits, permitsLeft, waiting, Takes
<1> QED BY <1>2, <1>3, <1>6, <1>7, InvariantInNumbers, SemaphoreSteps

LEMMA stopSpinningStep ==
  ASSUME QueueInv, NEW c \in Consumers,
         stopSpinning(c), UNCHANGED <<inner, unsignalled, enqueued>>
  PROVE  QueueInv' /\ [Promise!Next]_permitsLeft
<1> USE Roles, BulkFacts DEF stopSpinning, first, goto, Places
<1>1. TypeOK /\ Balanced /\ Hands
  BY InvariantInNumbers
<1>2. TypeOK'
  BY <1>1 DEF TypeOK, SemaTypeOK, Hands, least
<1>3. Hands'
  BY <1>1 DEF TypeOK, SemaTypeOK, Hands, least
<1>4. /\ waiting' = waiting - waits(pc[c]) + waits((IF m_count > 0 THEN (IF max[c] > 1 THEN "more" ELSE "holds")
          ELSE IF patience[c] = "none" THEN "readjust" ELSE "asleep"))
      /\ held' = held - got[c] + (IF m_count > 0 THEN 1 ELSE got[c])
      /\ owed' = owed - toRelease[c] + toRelease[c]
  <2>1. goto(c, (IF m_count > 0 THEN (IF max[c] > 1 THEN "more" ELSE "holds")
          ELSE IF patience[c] = "none" THEN "readjust" ELSE "asleep"))
    BY <1>1 DEF TypeOK, SemaTypeOK, Hands, least
  <2>2. /\ (IF m_count > 0 THEN (IF max[c] > 1 THEN "more" ELSE "holds")
          ELSE IF patience[c] = "none" THEN "readjust" ELSE "asleep") \in Places
        /\ (IF m_count > 0 THEN 1 ELSE got[c]) \in Nat /\ toRelease[c] \in Nat
    BY <1>1 DEF TypeOK, SemaTypeOK, Hands, least
  <2>3. /\ got' = [got EXCEPT ![c] = IF m_count > 0 THEN 1 ELSE got[c]]
        /\ toRelease' = [toRelease EXCEPT ![c] = toRelease[c]]
    BY <1>1 DEF TypeOK, SemaTypeOK, Hands, least
  <2> HIDE DEF stopSpinning, first, goto, Places
  <2> QED BY <1>1, <2>1, <2>2, <2>3, Books, ZenonT(60)
<1>5. pending' = pending
  BY DEF pending, Unsignalled
<1>6. Balanced'
  BY <1>1, <1>4, <1>5, NumberTypes DEF Balanced, TypeOK, SemaTypeOK, Hands, least, waits
<1>7. IF m_count > 0 THEN Takes(1) ELSE permitsLeft' = permitsLeft
  BY <1>1, <1>4, <1>6, NumberTypes
  DEF Balanced, TypeOK, SemaTypeOK, Hands, least, waits, permitsLeft, waiting, Takes
<1> QED BY <1>2, <1>3, <1>6, <1>7, InvariantInNumbers, SemaphoreSteps

LEMMA readjustStep ==
  ASSUME QueueInv, NEW c \in Consumers,
         readjust(c), UNCHANGED <<inner, unsignalled, enqueued>>
  PROVE  QueueInv' /\ [Promise!Next]_permitsLeft
<1> USE Roles, BulkFacts DEF readjust, goto, Places
<1>1. TypeOK /\ Balanced /\ Hands
  BY InvariantInNumbers
<1>2. TypeOK'
  BY <1>1 DEF TypeOK, SemaTypeOK, Hands, least
<1>3. Hands'
  BY <1>1 DEF TypeOK, SemaTypeOK, Hands, least
<1>4. /\ waiting' = waiting - waits(pc[c]) + waits((IF m_count < 0 THEN "out" ELSE "retake"))
      /\ held' = held - got[c] + got[c]
      /\ owed' = owed - toRelease[c] + toRelease[c]
  <2>1. goto(c, (IF m_count < 0 THEN "out" ELSE "retake"))
    BY <1>1 DEF TypeOK, SemaTypeOK, Hands, least
  <2>2. /\ (IF m_count < 0 THEN "out" ELSE "retake") \in Places
        /\ got[c] \in Nat /\ toRelease[c] \in Nat
    BY <1>1 DEF TypeOK, SemaTypeOK, Hands, least
  <2>3. /\ got' = [got EXCEPT ![c] = got[c]]
        /\ toRelease' = [toRelease EXCEPT ![c] = toRelease[c]]
    BY <1>1 DEF TypeOK, SemaTypeOK, Hands, least
  <2> HIDE DEF readjust, goto, Places
  <2> QED BY <1>1, <2>1, <2>2, <2>3, Books, ZenonT(60)
<1>5. pending' = pending
  BY DEF pending, Unsignalled
<1>6. Balanced'
  BY <1>1, <1>4, <1>5, NumberTypes DEF Balanced, TypeOK, SemaTypeOK, Hands, least, waits
<1>7. permitsLeft' = permitsLeft
  BY <1>1, <1>4, <1>6, NumberTypes
  DEF Balanced, TypeOK, SemaTypeOK, Hands, least, waits, permitsLeft, waiting
<1> QED BY <1>2, <1>3, <1>6, <1>7, InvariantInNumbers, SemaphoreSteps

LEMMA retakeStep ==
  ASSUME QueueInv, NEW c \in Consumers,
         retake(c), UNCHANGED <<inner, unsignalled, enqueued>>
  PROVE  QueueInv' /\ [Promise!Next]_permitsLeft
<1> USE Roles, BulkFacts DEF retake, first, goto, Places
<1>1. TypeOK /\ Balanced /\ Hands
  BY InvariantInNumbers
<1>2. TypeOK'
  BY <1>1 DEF TypeOK, SemaTypeOK, Hands, least
<1>3. Hands'
  BY <1>1 DEF TypeOK, SemaTypeOK, Hands, least
<1>4. /\ waiting' = waiting - waits(pc[c]) + waits((IF m_sema > 0 THEN (IF max[c] > 1 THEN "more" ELSE "holds") ELSE "readjust"))
      /\ held' = held - got[c] + (IF m_sema > 0 THEN 1 ELSE got[c])
      /\ owed' = owed - toRelease[c] + toRelease[c]
  <2>1. goto(c, (IF m_sema > 0 THEN (IF max[c] > 1 THEN "more" ELSE "holds") ELSE "readjust"))
    BY <1>1 DEF TypeOK, SemaTypeOK, Hands, least
  <2>2. /\ (IF m_sema > 0 THEN (IF max[c] > 1 THEN "more" ELSE "holds") ELSE "readjust") \in Places
        /\ (IF m_sema > 0 THEN 1 ELSE got[c]) \in Nat /\ toRelease[c] \in Nat
    BY <1>1 DEF TypeOK, SemaTypeOK, Hands, least
  <2>3. /\ got' = [got EXCEPT ![c] = IF m_sema > 0 THEN 1 ELSE got[c]]
        /\ toRelease' = [toRelease EXCEPT ![c] = toRelease[c]]
    BY <1>1 DEF TypeOK, SemaTypeOK, Hands, least
  <2> HIDE DEF retake, first, goto, Places
  <2> QED BY <1>1, <2>1, <2>2, <2>3, Books, ZenonT(60)
<1>5. pending' = pending
  BY DEF pending, Unsignalled
<1>6. Balanced'
  BY <1>1, <1>4, <1>5, NumberTypes DEF Balanced, TypeOK, SemaTypeOK, Hands, least, waits
<1>7. IF m_sema > 0 THEN Takes(1) ELSE permitsLeft' = permitsLeft
  BY <1>1, <1>4, <1>6, NumberTypes
  DEF Balanced, TypeOK, SemaTypeOK, Hands, least, waits, permitsLeft, waiting, Takes
<1> QED BY <1>2, <1>3, <1>6, <1>7, InvariantInNumbers, SemaphoreSteps

LEMMA tryMoreStep ==
  ASSUME QueueInv, NEW c \in Consumers,
         tryMore(c), UNCHANGED <<inner, unsignalled, enqueued>>
  PROVE  QueueInv' /\ [Promise!Next]_permitsLeft
<1> USE Roles, BulkFacts DEF tryMore, take, goto, Places
<1>1. TypeOK /\ Balanced /\ Hands
  BY InvariantInNumbers
<1>2. TypeOK'
  BY <1>1 DEF TypeOK, SemaTypeOK, Hands, least
<1>3. Hands'
  BY <1>1 DEF TypeOK, SemaTypeOK, Hands, least
<1>4. /\ waiting' = waiting - waits(pc[c]) + waits("holds")
      /\ held' = held - got[c] + (IF m_count > 0 THEN 1 + least(m_count, max[c] - 1) ELSE 1)
      /\ owed' = owed - toRelease[c] + toRelease[c]
  <2>1. goto(c, "holds")
    BY <1>1 DEF TypeOK, SemaTypeOK, Hands, least
  <2>2. /\ "holds" \in Places
        /\ (IF m_count > 0 THEN 1 + least(m_count, max[c] - 1) ELSE 1) \in Nat /\ toRelease[c] \in Nat
    BY <1>1 DEF TypeOK, SemaTypeOK, Hands, least
  <2>3. /\ got' = [got EXCEPT ![c] = IF m_count > 0 THEN 1 + least(m_count, max[c] - 1) ELSE 1]
        /\ toRelease' = [toRelease EXCEPT ![c] = toRelease[c]]
    BY <1>1 DEF TypeOK, SemaTypeOK, Hands, least
  <2> HIDE DEF tryMore, take, goto, Places
  <2> QED BY <1>1, <2>1, <2>2, <2>3, Books, ZenonT(60)
<1>5. pending' = pending
  BY DEF pending, Unsignalled
<1>6. Balanced'
  BY <1>1, <1>4, <1>5, NumberTypes DEF Balanced, TypeOK, SemaTypeOK, Hands, least, waits
<1>7. IF m_count > 0 THEN Takes(least(m_count, max[c] - 1)) ELSE permitsLeft' = permitsLeft
  BY <1>1, <1>4, <1>6, NumberTypes
  DEF Balanced, TypeOK, SemaTypeOK, Hands, least, waits, permitsLeft, waiting, Takes
<1> QED BY <1>2, <1>3, <1>6, <1>7, InvariantInNumbers, SemaphoreSteps

LEMMA signalEnqueuedStep ==
  ASSUME QueueInv, NEW p \in Producers,
         signalEnqueued(p)
  PROVE  QueueInv' /\ [Promise!Next]_permitsLeft
<1> USE Roles, BulkFacts DEF signalEnqueued, signal, goto, Places
<1>1. TypeOK /\ Balanced /\ Hands
  BY InvariantInNumbers
<1>2. TypeOK'
  BY <1>1 DEF TypeOK, SemaTypeOK, Hands, least
<1>3. Hands'
  BY <1>1 DEF TypeOK, SemaTypeOK, Hands, least
<1>4. /\ waiting' = waiting - waits(pc[p]) + waits((IF m_count < 0 THEN "post" ELSE "out"))
      /\ held' = held - got[p] + got[p]
      /\ owed' = owed - toRelease[p] + (IF m_count < 0 THEN least(-m_count, unsignalled[p]) ELSE 0)
  <2>1. goto(p, (IF m_count < 0 THEN "post" ELSE "out"))
    BY <1>1 DEF TypeOK, SemaTypeOK, Hands, least
  <2>2. /\ (IF m_count < 0 THEN "post" ELSE "out") \in Places
        /\ got[p] \in Nat /\ (IF m_count < 0 THEN least(-m_count, unsignalled[p]) ELSE 0) \in Nat
    BY <1>1 DEF TypeOK, SemaTypeOK, Hands, least
  <2>3. /\ got' = [got EXCEPT ![p] = got[p]]
        /\ toRelease' = [toRelease EXCEPT ![p] = IF m_count < 0 THEN least(-m_count, unsignalled[p]) ELSE 0]
    BY <1>1 DEF TypeOK, SemaTypeOK, Hands, least
  <2> HIDE DEF signalEnqueued, signal, goto, Places
  <2> QED BY <1>1, <2>1, <2>2, <2>3, Books, ZenonT(60)
<1>5. pending' = pending - unsignalled[p] + (0)
  <2>1. (0) \in Nat /\ unsignalled' = [unsignalled EXCEPT ![p] = 0]
    OBVIOUS
  <2> HIDE DEF signalEnqueued, signal, goto
  <2> QED BY <1>1, <2>1, PendingChange
<1>6. Balanced'
  BY <1>1, <1>4, <1>5, NumberTypes DEF Balanced, TypeOK, SemaTypeOK, Hands, least, waits
<1>7. Signals(unsignalled[p])
  BY <1>1, <1>4, <1>6, NumberTypes
  DEF Balanced, TypeOK, SemaTypeOK, Hands, least, waits, permitsLeft, waiting, Signals
<1> QED BY <1>2, <1>3, <1>6, <1>7, InvariantInNumbers, SemaphoreSteps

LEMMA TimeOutStep ==
  ASSUME QueueInv, NEW c \in Consumers,
         TimeOut(c)
  PROVE  QueueInv' /\ [Promise!Next]_permitsLeft
<1> USE Roles, BulkFacts DEF TimeOut, timeOut, goto, Places
<1>1. TypeOK /\ Balanced /\ Hands
  BY InvariantInNumbers
<1>2. TypeOK'
  BY <1>1 DEF TypeOK, SemaTypeOK, Hands, least
<1>3. Hands'
  BY <1>1 DEF TypeOK, SemaTypeOK, Hands, least
<1>4. /\ waiting' = waiting - waits(pc[c]) + waits("readjust")
      /\ held' = held - got[c] + got[c]
      /\ owed' = owed - toRelease[c] + toRelease[c]
  <2>1. goto(c, "readjust")
    BY <1>1 DEF TypeOK, SemaTypeOK, Hands, least
  <2>2. /\ "readjust" \in Places
        /\ got[c] \in Nat /\ toRelease[c] \in Nat
    BY <1>1 DEF TypeOK, SemaTypeOK, Hands, least
  <2>3. /\ got' = [got EXCEPT ![c] = got[c]]
        /\ toRelease' = [toRelease EXCEPT ![c] = toRelease[c]]
    BY <1>1 DEF TypeOK, SemaTypeOK, Hands, least
  <2> HIDE DEF TimeOut, timeOut, goto, Places
  <2> QED BY <1>1, <2>1, <2>2, <2>3, Books, ZenonT(60)
<1>5. pending' = pending
  BY DEF pending, Unsignalled
<1>6. Balanced'
  BY <1>1, <1>4, <1>5, NumberTypes DEF Balanced, TypeOK, SemaTypeOK, Hands, least, waits
<1>7. permitsLeft' = permitsLeft
  BY <1>1, <1>4, <1>6, NumberTypes
  DEF Balanced, TypeOK, SemaTypeOK, Hands, least, waits, permitsLeft, waiting
<1> QED BY <1>2, <1>3, <1>6, <1>7, InvariantInNumbers, SemaphoreSteps

LEMMA PostStep ==
  ASSUME QueueInv, NEW p \in Producers,
         Post(p)
  PROVE  QueueInv' /\ [Promise!Next]_permitsLeft
<1> USE Roles, BulkFacts DEF Post, post, goto, Places
<1>1. TypeOK /\ Balanced /\ Hands
  BY InvariantInNumbers
<1>2. TypeOK'
  BY <1>1 DEF TypeOK, SemaTypeOK, Hands, least
<1>3. Hands'
  BY <1>1 DEF TypeOK, SemaTypeOK, Hands, least
<1>4. /\ waiting' = waiting - waits(pc[p]) + waits((IF toRelease[p] = 1 THEN "out" ELSE "post"))
      /\ held' = held - got[p] + got[p]
      /\ owed' = owed - toRelease[p] + (toRelease[p] - 1)
  <2>1. goto(p, (IF toRelease[p] = 1 THEN "out" ELSE "post"))
    BY <1>1 DEF TypeOK, SemaTypeOK, Hands, least
  <2>2. /\ (IF toRelease[p] = 1 THEN "out" ELSE "post") \in Places
        /\ got[p] \in Nat /\ (toRelease[p] - 1) \in Nat
    BY <1>1 DEF TypeOK, SemaTypeOK, Hands, least
  <2>3. /\ got' = [got EXCEPT ![p] = got[p]]
        /\ toRelease' = [toRelease EXCEPT ![p] = toRelease[p] - 1]
    BY <1>1 DEF TypeOK, SemaTypeOK, Hands, least
  <2> HIDE DEF Post, post, goto, Places
  <2> QED BY <1>1, <2>1, <2>2, <2>3, Books, ZenonT(60)
<1>5. pending' = pending
  BY DEF pending, Unsignalled
<1>6. Balanced'
  BY <1>1, <1>4, <1>5, NumberTypes DEF Balanced, TypeOK, SemaTypeOK, Hands, least, waits
<1>7. permitsLeft' = permitsLeft
  BY <1>1, <1>4, <1>6, NumberTypes
  DEF Balanced, TypeOK, SemaTypeOK, Hands, least, waits, permitsLeft, waiting
<1> QED BY <1>2, <1>3, <1>6, <1>7, InvariantInNumbers, SemaphoreSteps

-----------------------------------------------------------------------------
LEMMA QueueStep ==
  ASSUME QueueInv, [Next]_vars
  PROVE  QueueInv' /\ [Promise!Next]_permitsLeft
<1>1. ASSUME NEW p \in Producers, signalEnqueued(p) \/ Post(p)
      PROVE  QueueInv' /\ [Promise!Next]_permitsLeft
  BY <1>1, signalEnqueuedStep, PostStep
<1>2. ASSUME NEW c \in Consumers, Wait(c) \/ TimeOut(c)
      PROVE  QueueInv' /\ [Promise!Next]_permitsLeft
  BY <1>2, spinStep, stopSpinningStep, wakeStep, readjustStep, retakeStep, tryMoreStep, TimeOutStep
  DEF Wait, WaitStep
<1>3. CASE UNCHANGED vars
  <2>1. UNCHANGED permitsLeft
    BY <1>3 DEF vars, semaVars, permitsLeft, Waiting
  <2>2. QueueInv'
    BY <1>3 DEF vars, semaVars, QueueInv, Hands, PermitsAreElements, KernelBalance, TypeOK,
       SemaTypeOK, permitsLeft, Waiting, Owed, Held, Unsignalled
  <2> QED BY <2>1, <2>2
<1> QED
  BY <1>1, <1>2, <1>3, enqueue_bulkStep, try_dequeue_bulkStep, wait_dequeue_bulkStep,
     takeElementsStep
  DEF Next

LEMMA QueueInit == QInit => QueueInv /\ permitsLeft = 0
<1> SUFFICES ASSUME QInit PROVE QueueInv /\ permitsLeft = 0
  OBVIOUS
<1> USE Roles, BulkFacts DEF QInit, Init
<1>1. TypeOK /\ Hands
  BY DEF TypeOK, SemaTypeOK, Hands, Places
<1>2. Waiting = {} /\ Owed = {} /\ Held = {} /\ Unsignalled = {}
  BY DEF Waiting, Owed, Held, Unsignalled
<1>3. Cardinality({}) = 0
  BY FS_EmptySet
<1> QED
  BY <1>1, <1>2, <1>3 DEF QueueInv, PermitsAreElements, KernelBalance, permitsLeft, least

\* The inductive invariant, for any number of threads and elements.
THEOREM QueueInvariant == Spec => []QueueInv
BY QueueInit, QueueStep, PTL DEF Spec

\* Between enqueue, signal, post, wait and dequeue no permit is lost or made up:
\* whatever the threads do in between, elements and permits are as many.
THEOREM PermitsMatch == Spec => []PermitsAreElements
<1>1. QueueInv => PermitsAreElements
  BY DEF QueueInv
<1> QED BY <1>1, QueueInvariant, PTL

\* A thread that has a permit finds an element: the loops around try_dequeue of
\* the inner queue do not spin for ever on an empty one.
THEOREM HoldersServed == Spec => []HoldersFindElements
<1>1. QueueInv => HoldersFindElements
  <2> SUFFICES ASSUME QueueInv PROVE held <= inner
    BY DEF HoldersFindElements, held
  <2>1. TypeOK /\ Balanced
    BY InvariantInNumbers
  <2> QED BY <2>1, NumberTypes DEF Balanced, TypeOK, SemaTypeOK, least
<1> QED BY <1>1, QueueInvariant, PTL

\* LightweightSemaphore implements a counting semaphore.
THEOREM SemaphoreImplements == Spec => ImplementsSemaphore
<1>1. QInit => Promise!Init
  BY QueueInit DEF Promise!Init
<1>2. QueueInv /\ [Next]_vars => [Promise!Next]_permitsLeft
  BY QueueStep
<1> QED BY <1>1, <1>2, QueueInvariant, PTL DEF Spec, ImplementsSemaphore, Promise!Spec

-----------------------------------------------------------------------------
\* The blocks of the queue inside: the pool they come from and the free list
\* they come back to, whatever else the queue does.
LEMMA PoolFacts ==
  ASSUME PoolConstants
  PROVE  /\ initialBlockPoolSize \in Nat /\ SHOULD_BE_ON_FREELIST \in Nat /\ Null \notin Blocks
         /\ IsFiniteSet(Callers) /\ Cardinality(Callers) \in Nat
         /\ SHOULD_BE_ON_FREELIST > Cardinality(Callers) + 1
BY FS_CardinalityType DEF PoolConstants

\* What the bit is to the count of references.
LEMMA Residues ==
  ASSUME PoolConstants
  PROVE  \A m \in Nat : m < SHOULD_BE_ON_FREELIST =>
           /\ m % SHOULD_BE_ON_FREELIST = m
           /\ (SHOULD_BE_ON_FREELIST + m) % SHOULD_BE_ON_FREELIST = m
<1> SUFFICES ASSUME NEW m \in Nat, m < SHOULD_BE_ON_FREELIST
             PROVE  /\ m % SHOULD_BE_ON_FREELIST = m
                    /\ (SHOULD_BE_ON_FREELIST + m) % SHOULD_BE_ON_FREELIST = m
  OBVIOUS
<1>1. SHOULD_BE_ON_FREELIST \in Nat \ {0}
  BY PoolFacts
<1>2. m \in 0..(2 * SHOULD_BE_ON_FREELIST - 1)
  BY <1>1
<1>3. m % SHOULD_BE_ON_FREELIST = m
  BY <1>1, <1>2, WrapsOnce
<1> DEFINE x == SHOULD_BE_ON_FREELIST + m
<1>4. x \in 0..(2 * SHOULD_BE_ON_FREELIST - 1) /\ ~(x < SHOULD_BE_ON_FREELIST) /\ x - SHOULD_BE_ON_FREELIST = m
  BY <1>1
<1>5. x % SHOULD_BE_ON_FREELIST = m
  <2> HIDE DEF x
  <2> QED BY <1>1, <1>4, WrapsOnce
<1> QED BY <1>3, <1>5

\* Numbers of threads.
LEMMA Threadsets ==
  ASSUME PoolConstants
  PROVE  /\ \A R \in SUBSET Callers : /\ Cardinality(R) \in Nat /\ Cardinality(R) <= Cardinality(Callers)
                                      /\ Cardinality(R) = 0 <=> R = {}
         /\ \A R \in SUBSET Callers : \A t \in Callers :
              /\ t \notin R => Cardinality(R \cup {t}) = Cardinality(R) + 1
              /\ t \in R => Cardinality(R \ {t}) = Cardinality(R) - 1
<1>1. ASSUME NEW R \in SUBSET Callers
      PROVE  IsFiniteSet(R) /\ Cardinality(R) \in Nat /\ Cardinality(R) <= Cardinality(Callers)
  BY PoolFacts, FS_Subset, FS_CardinalityType
<1>2. ASSUME NEW R \in SUBSET Callers PROVE Cardinality(R) = 0 <=> R = {}
  BY <1>1, FS_EmptySet
<1>3. ASSUME NEW R \in SUBSET Callers, NEW t \in Callers
      PROVE /\ t \notin R => Cardinality(R \cup {t}) = Cardinality(R) + 1
            /\ t \in R => Cardinality(R \ {t}) = Cardinality(R) - 1
  BY <1>1, FS_AddElement, FS_RemoveElement
<1> QED BY <1>1, <1>2, <1>3

\* A block that a step of thread t does not concern keeps its place and its count.
LEMMA Elsewhere ==
  ASSUME NEW t \in Callers, NEW c \in Blocks, NEW L, NEW M,
         \A u \in Callers \ {t} : own'[u] = own[u] /\ local'[u] = local[u],
         c \in own'[t] <=> c \in own[t],
         is(t, Refers, c)' <=> is(t, Refers, c),
         is(t, Adds, c)' <=> is(t, Adds, c),
         is(t, Links, c)' <=> is(t, Links, c),
         freeListRefs'[c] = freeListRefs[c],
         inPool(c)' <=> inPool(c),
         c \in M <=> c \in L,
         OnePlace(c, L), RefsAdd(c, L)
  PROVE  OnePlace(c, M)' /\ RefsAdd(c, M)'
<1>1. \A u \in Callers : /\ c \in own'[u] <=> c \in own[u]
                         /\ is(u, Refers, c)' <=> is(u, Refers, c)
                         /\ is(u, Adds, c)' <=> is(u, Adds, c)
                         /\ is(u, Links, c)' <=> is(u, Links, c)
  BY DEF is
<1>2. Referring(c)' = Referring(c)
  BY <1>1 DEF Referring
<1>3. \A u \in Callers : /\ mine(u, c)' <=> mine(u, c)
                         /\ is(u, Adds \cup Links, c)' <=> is(u, Adds \cup Links, c)
  BY <1>1 DEF mine, is
<1>4. OnePlace(c, M)'
  BY <1>1, <1>3 DEF OnePlace
<1>5. RefsAdd(c, M)'
  BY <1>1, <1>2, <1>3 DEF RefsAdd
<1> QED BY <1>4, <1>5

\* The list changes with the head, and with the next of its blocks.
LEMMA SameList ==
  ASSUME NEW L, Chained(L), freeListHead' = freeListHead,
         \A c \in L : freeListNext'[c] = freeListNext[c]
  PROVE  Chained(L)'
<1>1. PICK n \in 0..initialBlockPoolSize : \E s \in [1..n -> Blocks] : Stack(L, s, n)
  BY DEF Chained
<1>2. PICK s \in [1..n -> Blocks] : Stack(L, s, n)
  BY <1>1
<1>3. \A i \in 1..n : freeListNext'[s[i]] = freeListNext[s[i]]
  BY <1>2 DEF Stack
<1>4. Stack(L, s, n)'
  BY <1>2, <1>3 DEF Stack
<1> QED BY <1>4 DEF Chained

\* What remains of the invariant when a step of thread t changes no next and leaves the pool alone.
LEMMA Together ==
  ASSUME PoolConstants, PoolInv, NEW t \in Callers,
         freeListHead' \in Blocks \cup {Null},
         freeListRefs' \in [Blocks -> Nat],
         UNCHANGED <<freeListNext, initialBlockPoolIndex>>,
         own' \in [Callers -> SUBSET Blocks],
         local' \in [Callers -> Local],
         \A u \in Callers \ {t} : local'[u] = local[u],
         ~at(t, "pool"), ~at(t, "pool")',
         NextIsCurrent(t)',
         NEW L \in SUBSET Blocks, Chained(L)', Tally(L)'
  PROVE  PoolInv'
<1>1. AtPool' = AtPool
  BY DEF AtPool, at
<1>2. PoolTypes'
  BY <1>1 DEF PoolInv, PoolTypes
<1>3. \A u \in Callers : NextIsCurrent(u)'
  BY DEF PoolInv, NextIsCurrent, at
<1> QED BY <1>2, <1>3 DEF PoolInv

\* A step of thread t after which it is to every block what it was before.
LEMMA Quiet ==
  ASSUME PoolConstants, PoolInv, NEW t \in Callers,
         UNCHANGED <<memory, own>>,
         local' \in [Callers -> Local],
         \A u \in Callers \ {t} : local'[u] = local[u],
         ~at(t, "pool"), ~at(t, "pool")',
         NextIsCurrent(t)',
         \A c \in Blocks : /\ is(t, Refers, c)' <=> is(t, Refers, c)
                           /\ is(t, Adds, c)' <=> is(t, Adds, c)
                           /\ is(t, Links, c)' <=> is(t, Links, c)
  PROVE  PoolInv'
<1>2. PICK L \in SUBSET Blocks : Chained(L) /\ Tally(L)
  BY DEF PoolInv
<1>3. Chained(L)'
  BY <1>2, SameList DEF memory
<1>5. Tally(L)'
  <2> SUFFICES ASSUME NEW c \in Blocks PROVE OnePlace(c, L)' /\ RefsAdd(c, L)'
    BY DEF Tally
  <2>1. OnePlace(c, L) /\ RefsAdd(c, L)
    BY <1>2 DEF Tally
  <2>2. inPool(c)' <=> inPool(c)
    BY DEF inPool, memory
  <2>3. own' = own /\ freeListRefs' = freeListRefs
    BY DEF memory
  <2> QED BY <2>1, <2>2, <2>3, Elsewhere
<1>6. /\ freeListHead' \in Blocks \cup {Null} /\ freeListRefs' \in [Blocks -> Nat]
      /\ UNCHANGED <<freeListNext, initialBlockPoolIndex>>
      /\ own' \in [Callers -> SUBSET Blocks]
  BY DEF PoolInv, PoolTypes, memory
<1> QED BY <1>3, <1>5, <1>6, Together

\* How the places change.
LEMMA Going ==
  ASSUME PoolTypes, NEW t \in Callers, NEW stage \in Stages, go(t, stage)
  PROVE  /\ local' \in [Callers -> Local]
         /\ \A u \in Callers \ {t} : local'[u] = local[u]
         /\ local'[t].pc = stage /\ local'[t].node = local[t].node
         /\ local'[t].next = local[t].next /\ local'[t].refs = local[t].refs
BY DEF PoolTypes, go, Local

LEMMA LookingAt ==
  ASSUME PoolTypes, NEW t \in Callers, NEW h \in Blocks \cup {Null}, lookAt(t, h)
  PROVE  /\ local' \in [Callers -> Local]
         /\ \A u \in Callers \ {t} : local'[u] = local[u]
         /\ local'[t].pc \in {"out", "getRefs"}
         /\ local'[t].pc = "getRefs" => local'[t].node \in Blocks
BY DEF PoolTypes, lookAt, Local, out, Stages

LEMMA Returning ==
  ASSUME PoolTypes, NEW t \in Callers, NEW b \in Blocks, return(t, b)
  PROVE  /\ local' \in [Callers -> Local]
         /\ \A u \in Callers \ {t} : local'[u] = local[u] /\ own'[u] = own[u]
         /\ local'[t].pc = "out"
         /\ own' \in [Callers -> SUBSET Blocks]
         /\ own'[t] = own[t] \cup {b}
BY DEF PoolTypes, return, Local, out, Stages

-----------------------------------------------------------------------------
LEMMA RequisitionStep ==
  ASSUME PoolConstants, PoolInv, NEW t \in Callers, requisition_block(t)
  PROVE  PoolInv'
<1>1. CASE initialBlockPoolIndex < initialBlockPoolSize
  <2>1. go(t, "pool") /\ at(t, "out") /\ UNCHANGED <<memory, own>>
    BY <1>1 DEF requisition_block
  <2>2. /\ local' \in [Callers -> Local]
        /\ \A u \in Callers \ {t} : local'[u] = local[u]
        /\ local'[t].pc = "pool"
    BY <2>1, Going DEF PoolInv, Stages
  <2>3. t \notin AtPool /\ AtPool' = AtPool \cup {t} /\ AtPool \in SUBSET Callers
         /\ AtPool' \in SUBSET Callers
    BY <2>1, <2>2 DEF AtPool, at
  <2>4. PoolTypes'
    <3>1. Cardinality(AtPool') <= Cardinality(Callers) /\ Cardinality(AtPool') \in Nat
      BY <2>3, Threadsets
    <3> QED BY <1>1, <2>1, <2>2, <3>1, PoolFacts DEF PoolInv, PoolTypes, memory
  <2>5. \A u \in Callers : NextIsCurrent(u)'
    BY <2>1, <2>2 DEF PoolInv, NextIsCurrent, at, memory
  <2>7. PICK L \in SUBSET Blocks : Chained(L) /\ Tally(L)
    BY DEF PoolInv
  <2>8. Chained(L)'
    BY <2>1, <2>7, SameList DEF memory
  <2>9. Tally(L)'
    <3> SUFFICES ASSUME NEW c \in Blocks PROVE OnePlace(c, L)' /\ RefsAdd(c, L)'
      BY DEF Tally
    <3>2. OnePlace(c, L) /\ RefsAdd(c, L)
      BY <2>7 DEF Tally
    <3>3. (inPool(c)' <=> inPool(c)) /\ own' = own /\ freeListRefs' = freeListRefs
      BY <2>1 DEF inPool, memory
    <3>4. /\ is(t, Refers, c)' <=> is(t, Refers, c)
          /\ is(t, Adds, c)' <=> is(t, Adds, c)
          /\ is(t, Links, c)' <=> is(t, Links, c)
      BY <2>1, <2>2 DEF is, Refers, Adds, Links, at
    <3> QED BY <2>2, <3>2, <3>3, <3>4, Elsewhere
  <2> QED BY <2>4, <2>5, <2>8, <2>9 DEF PoolInv
<1>2. CASE ~(initialBlockPoolIndex < initialBlockPoolSize)
  <2>1. go(t, "getHead") /\ at(t, "out") /\ UNCHANGED <<memory, own>>
    BY <1>2 DEF requisition_block
  <2>2. /\ local' \in [Callers -> Local]
        /\ \A u \in Callers \ {t} : local'[u] = local[u]
        /\ local'[t].pc = "getHead"
    BY <2>1, Going DEF PoolInv, Stages
  <2>3. ~at(t, "pool") /\ ~at(t, "pool")' /\ NextIsCurrent(t)'
    BY <2>1, <2>2 DEF at, NextIsCurrent
  <2>4. \A c \in Blocks : /\ is(t, Refers, c)' <=> is(t, Refers, c)
                          /\ is(t, Adds, c)' <=> is(t, Adds, c)
                          /\ is(t, Links, c)' <=> is(t, Links, c)
    BY <2>1, <2>2 DEF is, Refers, Adds, Links, at
  <2> QED BY <2>1, <2>2, <2>3, <2>4, Quiet
<1> QED BY <1>1, <1>2

LEMMA TryGetStep ==
  ASSUME PoolConstants, PoolInv, NEW t \in Callers, try_get(t)
  PROVE  PoolInv'
<1>1. at(t, "getHead") /\ lookAt(t, freeListHead) /\ UNCHANGED <<memory, own>>
  BY DEF try_get
<1>2. /\ local' \in [Callers -> Local]
      /\ \A u \in Callers \ {t} : local'[u] = local[u]
      /\ local'[t].pc \in {"out", "getRefs"}
      /\ local'[t].pc = "getRefs" => local'[t].node \in Blocks
  BY <1>1, LookingAt DEF PoolInv, PoolTypes
<1>3. ~at(t, "pool") /\ ~at(t, "pool")' /\ NextIsCurrent(t)'
  BY <1>1, <1>2 DEF at, NextIsCurrent
<1>4. \A c \in Blocks : /\ is(t, Refers, c)' <=> is(t, Refers, c)
                        /\ is(t, Adds, c)' <=> is(t, Adds, c)
                        /\ is(t, Links, c)' <=> is(t, Links, c)
  BY <1>1, <1>2 DEF is, Refers, Adds, Links, at
<1> QED BY <1>1, <1>2, <1>3, <1>4, Quiet

LEMMA LoadRefsStep ==
  ASSUME PoolConstants, PoolInv, NEW t \in Callers, loadRefs(t)
  PROVE  PoolInv'
<1>1. at(t, "getRefs") /\ UNCHANGED <<memory, own>>
  BY DEF loadRefs
<1>2. local[t] \in Local /\ local[t].node \in Blocks /\ freeListRefs[local[t].node] \in Nat
  BY <1>1 DEF PoolInv, PoolTypes, NextIsCurrent, at
<1>3. /\ local' \in [Callers -> Local]
      /\ \A u \in Callers \ {t} : local'[u] = local[u]
      /\ local'[t].node = local[t].node
      /\ local'[t].pc \in {"getHead", "addRef"}
      /\ local'[t].pc = "addRef" => local'[t].refs % SHOULD_BE_ON_FREELIST # 0
  BY <1>2 DEF loadRefs, PoolInv, PoolTypes, Local, Stages
<1>4. ~at(t, "pool") /\ ~at(t, "pool")' /\ NextIsCurrent(t)'
  BY <1>1, <1>2, <1>3 DEF at, NextIsCurrent
<1>5. \A c \in Blocks : /\ is(t, Refers, c)' <=> is(t, Refers, c)
                        /\ is(t, Adds, c)' <=> is(t, Adds, c)
                        /\ is(t, Links, c)' <=> is(t, Links, c)
  BY <1>1, <1>3 DEF is, Refers, Adds, Links, at
<1> QED BY <1>1, <1>3, <1>4, <1>5, Quiet

LEMMA LoadNextStep ==
  ASSUME PoolConstants, PoolInv, NEW t \in Callers, loadNext(t)
  PROVE  PoolInv'
<1>1. at(t, "getNext") /\ UNCHANGED <<memory, own>>
  BY DEF loadNext
<1>2. local[t] \in Local /\ local[t].node \in Blocks /\ freeListNext[local[t].node] \in Blocks \cup {Null}
  BY <1>1 DEF PoolInv, PoolTypes, NextIsCurrent, at
<1>3. /\ local' \in [Callers -> Local]
      /\ \A u \in Callers \ {t} : local'[u] = local[u]
      /\ local'[t].node = local[t].node
      /\ local'[t].pc = "unlink" /\ local'[t].next = freeListNext[local[t].node]
  BY <1>2 DEF loadNext, PoolInv, PoolTypes, Local, Stages, Refers
<1>4. ~at(t, "pool") /\ ~at(t, "pool")' /\ NextIsCurrent(t)'
  BY <1>1, <1>2, <1>3 DEF at, NextIsCurrent, memory
<1>5. \A c \in Blocks : /\ is(t, Refers, c)' <=> is(t, Refers, c)
                        /\ is(t, Adds, c)' <=> is(t, Adds, c)
                        /\ is(t, Links, c)' <=> is(t, Links, c)
  BY <1>1, <1>3 DEF is, Refers, Adds, Links, at
<1> QED BY <1>1, <1>3, <1>4, <1>5, Quiet

LEMMA AddHeadStep ==
  ASSUME PoolConstants, PoolInv, NEW t \in Callers, add_knowing_refcount_is_zero(t)
  PROVE  PoolInv'
<1>1. at(t, "addHead") /\ UNCHANGED <<memory, own>>
  BY DEF add_knowing_refcount_is_zero
<1>2. local[t] \in Local /\ local[t].node \in Blocks /\ freeListHead \in Blocks \cup {Null}
  BY <1>1 DEF PoolInv, PoolTypes, NextIsCurrent, at
<1>3. /\ local' \in [Callers -> Local]
      /\ \A u \in Callers \ {t} : local'[u] = local[u]
      /\ local'[t].node = local[t].node
      /\ local'[t].pc = "setNext"
  BY <1>2 DEF add_knowing_refcount_is_zero, PoolInv, PoolTypes, Local, Stages, Adds
<1>4. ~at(t, "pool") /\ ~at(t, "pool")' /\ NextIsCurrent(t)'
  BY <1>1, <1>2, <1>3 DEF at, NextIsCurrent
<1>5. \A c \in Blocks : /\ is(t, Refers, c)' <=> is(t, Refers, c)
                        /\ is(t, Adds, c)' <=> is(t, Adds, c)
                        /\ is(t, Links, c)' <=> is(t, Links, c)
  BY <1>1, <1>3 DEF is, Refers, Adds, Links, at
<1> QED BY <1>1, <1>3, <1>4, <1>5, Quiet

\* The compare-and-swap of addRef, unlink or link fails.
LEMMA FailedSwap ==
  ASSUME PoolConstants, PoolInv, NEW t \in Callers, UNCHANGED <<memory, own>>,
         \/ addRef(t) /\ freeListRefs[local[t].node] # local[t].refs
         \/ unlink(t) /\ freeListHead # local[t].node
         \/ link(t) /\ freeListHead # local[t].next
  PROVE  PoolInv'
<1>1. /\ local[t].pc \in {"addRef", "unlink", "link"}
      /\ local[t] \in Local /\ local[t].node \in Blocks /\ freeListHead \in Blocks \cup {Null}
  BY DEF PoolInv, PoolTypes, NextIsCurrent, at, addRef, unlink, link
<1>2. /\ local' \in [Callers -> Local]
      /\ \A u \in Callers \ {t} : local'[u] = local[u]
      /\ local'[t].node = local[t].node
      /\ \/ at(t, "addRef") /\ local'[t].pc = "getHead"
         \/ at(t, "unlink") /\ local'[t].pc = "dropRef"
         \/ at(t, "link") /\ local'[t].pc = "linkFailed"
  <2>1. CASE addRef(t) /\ freeListRefs[local[t].node] # local[t].refs
    <3>1. go(t, "getHead") /\ at(t, "addRef")
      BY <2>1 DEF addRef
    <3> QED BY <3>1, Going DEF PoolInv, Stages
  <2>2. CASE unlink(t) /\ freeListHead # local[t].node
    <3>1. /\ local' = [local EXCEPT ![t].pc = "dropRef", ![t].next = Null, ![t].head = freeListHead]
          /\ at(t, "unlink")
      BY <2>2 DEF unlink
    <3> QED BY <1>1, <3>1 DEF PoolInv, PoolTypes, Local, Stages, Refers
  <2>3. CASE link(t) /\ freeListHead # local[t].next
    <3>1. /\ local' = [local EXCEPT ![t].pc = "linkFailed", ![t].next = freeListHead]
          /\ at(t, "link")
      BY <2>3 DEF link
    <3> QED BY <1>1, <3>1 DEF PoolInv, PoolTypes, Local, Stages, Links
  <2> QED BY <2>1, <2>2, <2>3
<1>3. ~at(t, "pool") /\ ~at(t, "pool")' /\ NextIsCurrent(t)'
  BY <1>1, <1>2 DEF at, NextIsCurrent
<1>4. \A c \in Blocks : /\ is(t, Refers, c)' <=> is(t, Refers, c)
                        /\ is(t, Adds, c)' <=> is(t, Adds, c)
                        /\ is(t, Links, c)' <=> is(t, Links, c)
  BY <1>2 DEF is, Refers, Adds, Links, at
<1> QED BY <1>2, <1>3, <1>4, Quiet

-----------------------------------------------------------------------------
\* A step of thread t that concerns block b.
LEMMA BooksAt ==
  ASSUME NEW t \in Callers, NEW b \in Blocks, NEW L, NEW M, Tally(L),
         \A u \in Callers \ {t} : own'[u] = own[u] /\ local'[u] = local[u],
         \A c \in Blocks \ {b} :
           /\ c \in own'[t] <=> c \in own[t]
           /\ ~is(t, Refers, c) /\ ~is(t, Refers, c)'
           /\ ~is(t, Adds, c) /\ ~is(t, Adds, c)'
           /\ ~is(t, Links, c) /\ ~is(t, Links, c)'
           /\ freeListRefs'[c] = freeListRefs[c]
           /\ inPool(c)' <=> inPool(c)
           /\ c \in M <=> c \in L,
         OnePlace(b, M)', RefsAdd(b, M)'
  PROVE  Tally(M)'
<1> SUFFICES ASSUME NEW c \in Blocks \ {b} PROVE OnePlace(c, M)' /\ RefsAdd(c, M)'
  BY DEF Tally
<1>1. OnePlace(c, L) /\ RefsAdd(c, L)
  BY DEF Tally
<1> QED BY <1>1, Elsewhere

\* What the threads that do no step are to block b.
LEMMA Bystanders ==
  ASSUME NEW t, NEW b,
         \A u \in Callers \ {t} : own'[u] = own[u] /\ local'[u] = local[u]
  PROVE  \A u \in Callers \ {t} : /\ mine(u, b)' <=> mine(u, b)
                                  /\ b \in own'[u] <=> b \in own[u]
                                  /\ is(u, Adds, b)' <=> is(u, Adds, b)
                                  /\ is(u, Links, b)' <=> is(u, Links, b)
                                  /\ is(u, Adds \cup Links, b)' <=> is(u, Adds \cup Links, b)
BY DEF mine, is

LEMMA Mine ==
  \A u, b : /\ mine(u, b) <=> b \in own[u] \/ is(u, Adds, b) \/ is(u, Links, b)
            /\ is(u, Adds \cup Links, b) <=> is(u, Adds, b) \/ is(u, Links, b)
            /\ mine(u, b)' <=> b \in own'[u] \/ is(u, Adds, b)' \/ is(u, Links, b)'
            /\ is(u, Adds \cup Links, b)' <=> is(u, Adds, b)' \/ is(u, Links, b)'
BY DEF mine, is

\* How a step of thread t changes the number of references to block b.
LEMMA Counting ==
  ASSUME PoolConstants, NEW t \in Callers, NEW b,
         \A u \in Callers \ {t} : own'[u] = own[u] /\ local'[u] = local[u]
  PROVE  LET n == Cardinality(Referring(b))
             m == Cardinality(Referring(b)')
         IN /\ n \in Nat /\ m \in Nat
            /\ n < SHOULD_BE_ON_FREELIST - 1 /\ m < SHOULD_BE_ON_FREELIST - 1
            /\ (is(t, Refers, b) <=> is(t, Refers, b)') => m = n
            /\ ~is(t, Refers, b) /\ is(t, Refers, b)' => m = n + 1
            /\ is(t, Refers, b) /\ ~is(t, Refers, b)' => m = n - 1
<1>1. \A u \in Callers \ {t} : is(u, Refers, b)' <=> is(u, Refers, b)
  BY DEF is
<1>2. /\ Referring(b)' = IF is(t, Refers, b)' THEN Referring(b) \cup {t} ELSE Referring(b) \ {t}
      /\ t \in Referring(b) <=> is(t, Refers, b)
      /\ Referring(b) \in SUBSET Callers /\ Referring(b)' \in SUBSET Callers
  BY <1>1 DEF Referring
<1> DEFINE n == Cardinality(Referring(b))
           m == Cardinality(Referring(b)')
<1>3. /\ n \in Nat /\ m \in Nat
      /\ n < SHOULD_BE_ON_FREELIST - 1 /\ m < SHOULD_BE_ON_FREELIST - 1
  BY <1>2, Threadsets, PoolFacts
<1>4. (is(t, Refers, b) <=> is(t, Refers, b)') => m = n
  <2> SUFFICES ASSUME is(t, Refers, b) <=> is(t, Refers, b)' PROVE Referring(b)' = Referring(b)
    OBVIOUS
  <2> QED BY <1>2
<1>5. ~is(t, Refers, b) /\ is(t, Refers, b)' => m = n + 1
  BY <1>2, Threadsets
<1>6. is(t, Refers, b) /\ ~is(t, Refers, b)' => m = n - 1
  BY <1>2, Threadsets
<1> QED BY <1>3, <1>4, <1>5, <1>6

-----------------------------------------------------------------------------
LEMMA AddRefStep ==
  ASSUME PoolConstants, PoolInv, NEW t \in Callers, addRef(t)
  PROVE  PoolInv'
<1>1. CASE freeListRefs[local[t].node] # local[t].refs
  BY <1>1, FailedSwap DEF addRef, memory
<1>2. CASE freeListRefs[local[t].node] = local[t].refs
  <2>1. PICK b \in Blocks : b = local[t].node
    BY DEF PoolInv, NextIsCurrent, addRef, at
  <2>2. /\ at(t, "addRef") /\ go(t, "getNext")
        /\ freeListRefs' = [freeListRefs EXCEPT ![b] = @ + 1]
        /\ UNCHANGED <<freeListHead, freeListNext, initialBlockPoolIndex, own>>
        /\ freeListRefs[b] % SHOULD_BE_ON_FREELIST # 0
        /\ freeListRefs \in [Blocks -> Nat]
    BY <1>2, <2>1 DEF addRef, PoolInv, NextIsCurrent, PoolTypes
  <2>3. /\ local' \in [Callers -> Local]
        /\ \A u \in Callers \ {t} : local'[u] = local[u]
        /\ local'[t].pc = "getNext" /\ local'[t].node = b
    BY <2>1, <2>2, Going DEF PoolInv, Stages, Refers
  <2>4. ~at(t, "pool") /\ ~at(t, "pool")' /\ NextIsCurrent(t)'
    BY <2>2, <2>3 DEF at, NextIsCurrent
  <2>5. PICK L \in SUBSET Blocks : Chained(L) /\ Tally(L)
    BY DEF PoolInv
  <2>8. Tally(L) /\ OnePlace(b, L) /\ RefsAdd(b, L)
    BY <2>5 DEF Tally
  <2>9. /\ is(t, Refers, b)' /\ ~is(t, Adds, b)' /\ ~is(t, Links, b)'
        /\ ~is(t, Refers, b) /\ ~is(t, Adds, b) /\ ~is(t, Links, b)
    BY <2>2, <2>3 DEF is, at, Refers, Adds, Links
  <2>10. /\ inPool(b)' <=> inPool(b)
         /\ own' = own
         /\ \A u \in Callers \ {t} : own'[u] = own[u]
    BY <2>2 DEF inPool
  <2>11. freeListRefs[b] # 0 /\ freeListRefs[b] # SHOULD_BE_ON_FREELIST
    <3>1. 0 % SHOULD_BE_ON_FREELIST = 0 /\ SHOULD_BE_ON_FREELIST % SHOULD_BE_ON_FREELIST = 0
      <4>1. 0 \in Nat /\ 0 < SHOULD_BE_ON_FREELIST /\ SHOULD_BE_ON_FREELIST + 0 = SHOULD_BE_ON_FREELIST
        BY PoolFacts
      <4> QED BY <4>1, Residues
    <3> QED BY <2>2, <3>1
  <2>12. \A u \in Callers : /\ mine(u, b)' <=> mine(u, b)
                            /\ b \in own'[u] <=> b \in own[u]
                            /\ is(u, Adds, b)' <=> is(u, Adds, b)
                            /\ is(u, Links, b)' <=> is(u, Links, b)
                            /\ is(u, Adds \cup Links, b)' <=> is(u, Adds \cup Links, b)
    <3>1. \A u \in Callers \ {t} : own'[u] = own[u] /\ local'[u] = local[u]
      BY <2>3, <2>10
    <3>2. /\ mine(t, b)' <=> mine(t, b)
          /\ is(t, Adds \cup Links, b)' <=> is(t, Adds \cup Links, b)
      BY <2>9, <2>10, Mine
    <3>3. \A u \in Callers \ {t} : /\ mine(u, b)' <=> mine(u, b)
                                   /\ is(u, Adds, b)' <=> is(u, Adds, b)
                                   /\ is(u, Links, b)' <=> is(u, Links, b)
                                   /\ is(u, Adds \cup Links, b)' <=> is(u, Adds \cup Links, b)
      BY <3>1, Bystanders
    <3> QED BY <2>9, <2>10, <3>2, <3>3
  <2>13. OnePlace(b, L)' /\ RefsAdd(b, L)'
    <3>1. freeListRefs'[b] = freeListRefs[b] + 1 /\ freeListRefs[b] \in Nat
      BY <2>2
    <3>2. Cardinality(Referring(b)') = Cardinality(Referring(b)) + 1 /\ Cardinality(Referring(b)) \in Nat
      BY <2>3, <2>9, <2>10, Counting
    <3>3. OnePlace(b, L)'
      BY <2>8, <2>10, <2>12 DEF OnePlace
    <3>4. RefsAdd(b, L)'
      BY <2>8, <2>10, <2>11, <2>12, <3>1, <3>2, PoolFacts DEF RefsAdd
    <3> QED BY <3>3, <3>4
  <2>14. Tally(L)'
    <3>1. \A c \in Blocks \ {b} :
            /\ ~is(t, Refers, c) /\ ~is(t, Refers, c)'
            /\ ~is(t, Adds, c) /\ ~is(t, Adds, c)'
            /\ ~is(t, Links, c) /\ ~is(t, Links, c)'
            /\ freeListRefs'[c] = freeListRefs[c]
            /\ inPool(c)' <=> inPool(c)
      BY <2>1, <2>2, <2>3 DEF is, inPool
    <3> QED BY <2>3, <2>8, <2>10, <2>13, <3>1, BooksAt
  <2>15. Chained(L)'
    BY <2>2, <2>5, SameList
  <2>16. /\ freeListHead' \in Blocks \cup {Null} /\ freeListRefs' \in [Blocks -> Nat]
         /\ UNCHANGED <<freeListNext, initialBlockPoolIndex>>
         /\ own' \in [Callers -> SUBSET Blocks]
    BY <2>2 DEF PoolInv, PoolTypes
  <2> QED BY <2>3, <2>4, <2>14, <2>15, <2>16, Together
<1> QED BY <1>1, <1>2

-----------------------------------------------------------------------------
\* A step of thread t with block b in hand, which leaves the pool and what
\* follows each block alone.
StepAt(t, b) ==
  /\ freeListHead' \in Blocks \cup {Null}
  /\ freeListRefs' \in [Blocks -> Nat]
  /\ \A c \in Blocks \ {b} : freeListRefs'[c] = freeListRefs[c]
  /\ UNCHANGED <<freeListNext, initialBlockPoolIndex>>
  /\ own' \in [Callers -> SUBSET Blocks]
  /\ \A c \in Blocks \ {b} : c \in own'[t] <=> c \in own[t]
  /\ local' \in [Callers -> Local]
  /\ \A u \in Callers \ {t} : own'[u] = own[u] /\ local'[u] = local[u]
  /\ local[t].pc \in Refers \cup Adds \cup Links => local[t].node = b
  /\ local'[t].pc \in Refers \cup Adds \cup Links => local'[t].node = b
  /\ ~at(t, "pool") /\ ~at(t, "pool")'
  /\ NextIsCurrent(t)'

LEMMA AtBlock ==
  ASSUME PoolConstants, PoolInv, NEW t \in Callers, NEW b \in Blocks, StepAt(t, b),
         NEW L \in SUBSET Blocks, Tally(L),
         NEW M \in SUBSET Blocks, Chained(M)',
         \A c \in Blocks \ {b} : c \in M <=> c \in L,
         OnePlace(b, M)', RefsAdd(b, M)'
  PROVE  PoolInv'
<1>1. \A c \in Blocks \ {b} :
        /\ c \in own'[t] <=> c \in own[t]
        /\ ~is(t, Refers, c) /\ ~is(t, Refers, c)'
        /\ ~is(t, Adds, c) /\ ~is(t, Adds, c)'
        /\ ~is(t, Links, c) /\ ~is(t, Links, c)'
        /\ freeListRefs'[c] = freeListRefs[c]
        /\ inPool(c)' <=> inPool(c)
  BY DEF is, inPool, StepAt
<1>2. Tally(M)'
  BY <1>1, BooksAt DEF StepAt
<1> QED BY <1>2, Together DEF StepAt

\* The list as the invariant has it.
LEMMA TheList ==
  ASSUME PoolConstants, PoolInv
  PROVE  \E L \in SUBSET Blocks : Chained(L) /\ Tally(L)
BY DEF PoolInv

LEMMA GotStep ==
  ASSUME PoolConstants, PoolInv, NEW t \in Callers, tookHead(t)
  PROVE  PoolInv'
<1>1. PICK b \in Blocks : b = local[t].node
  BY DEF PoolInv, NextIsCurrent, tookHead, at
<1>2. /\ at(t, "got") /\ return(t, b)
      /\ freeListRefs' = [freeListRefs EXCEPT ![b] = @ - 2]
      /\ UNCHANGED <<freeListHead, freeListNext, initialBlockPoolIndex>>
  BY <1>1 DEF tookHead
<1>3. /\ local' \in [Callers -> Local]
      /\ \A u \in Callers \ {t} : own'[u] = own[u] /\ local'[u] = local[u]
      /\ local'[t].pc = "out"
      /\ own' \in [Callers -> SUBSET Blocks]
      /\ own'[t] = own[t] \cup {b}
  BY <1>2, Returning DEF PoolInv
<1>4. PICK L \in SUBSET Blocks : Chained(L) /\ Tally(L)
  BY TheList
<1>5. OnePlace(b, L) /\ RefsAdd(b, L)
  BY <1>4 DEF Tally
<1>6. /\ is(t, Refers, b) /\ ~is(t, Adds, b) /\ is(t, Links, b)
      /\ ~is(t, Refers, b)' /\ ~is(t, Adds, b)' /\ ~is(t, Links, b)'
      /\ b \in own'[t]
  BY <1>1, <1>2, <1>3 DEF is, at, Refers, Adds, Links
<1>7. inPool(b)' <=> inPool(b)
  BY <1>2 DEF inPool
<1>8. \A u \in Callers \ {t} : ~mine(u, b)' /\ b \notin own'[u] /\ ~is(u, Adds, b)' /\ ~is(u, Links, b)'
  BY <1>3, <1>5, <1>6, Bystanders, Mine DEF OnePlace
<1>9. /\ Cardinality(Referring(b)') = Cardinality(Referring(b)) - 1
      /\ Cardinality(Referring(b)) \in Nat /\ Cardinality(Referring(b)') \in Nat
  BY <1>3, <1>6, Counting
<1>10. freeListRefs[b] = Cardinality(Referring(b)) + 1 /\ ~inPool(b) /\ b \notin L
  BY <1>5, <1>6, Mine DEF OnePlace, RefsAdd
<1>11. /\ freeListRefs'[b] = Cardinality(Referring(b)')
       /\ freeListRefs' \in [Blocks -> Nat]
       /\ \A c \in Blocks \ {b} : freeListRefs'[c] = freeListRefs[c]
  BY <1>2, <1>9, <1>10 DEF PoolInv, PoolTypes
<1>12. OnePlace(b, L)'
  BY <1>6, <1>7, <1>8, <1>10, Mine DEF OnePlace
<1>13. RefsAdd(b, L)'
  BY <1>6, <1>7, <1>8, <1>10, <1>11, Mine DEF RefsAdd
<1>14. Chained(L)'
  BY <1>2, <1>4, SameList
<1>15. StepAt(t, b)
  BY <1>1, <1>2, <1>3, <1>11 DEF StepAt, PoolInv, PoolTypes, at, NextIsCurrent, Refers, Adds, Links
<1> QED BY <1>4, <1>12, <1>13, <1>14, <1>15, AtBlock

-----------------------------------------------------------------------------
\* What a block on the list, or in the hands of threads, is taken for.
LEMMA Popped ==
  ASSUME PoolConstants, NEW L \in SUBSET Blocks, Chained(L), NEW b \in Blocks, freeListHead = b,
         freeListHead' = freeListNext[b], UNCHANGED freeListNext
  PROVE  b \in L /\ Chained(L \ {b})'
<1>1. PICK n \in 0..initialBlockPoolSize : \E s \in [1..n -> Blocks] : Stack(L, s, n)
  BY DEF Chained
<1>2. PICK s \in [1..n -> Blocks] : Stack(L, s, n)
  BY <1>1
<1>3. n # 0 /\ s[n] = b /\ n \in 1..n /\ initialBlockPoolSize \in Nat
  BY <1>2, PoolFacts DEF Stack
<1>4. b \in L
  BY <1>2, <1>3 DEF Stack
<1> DEFINE r == [i \in 1..(n - 1) |-> s[i]]
<1>5. n - 1 \in 0..initialBlockPoolSize /\ r \in [1..(n - 1) -> Blocks]
  BY <1>3
<1>6. L \ {b} = {r[i] : i \in 1..(n - 1)}
  <2>1. ASSUME NEW c \in L \ {b} PROVE c \in {r[i] : i \in 1..(n - 1)}
    <3>1. PICK i \in 1..n : c = s[i]
      BY <1>2 DEF Stack
    <3>2. i \in 1..(n - 1)
      BY <1>3, <3>1
    <3> QED BY <3>1, <3>2
  <2>2. ASSUME NEW i \in 1..(n - 1) PROVE r[i] \in L \ {b}
    <3>1. i \in 1..n /\ i # n
      BY <1>3
    <3>2. s[i] \in L /\ s[i] # s[n]
      BY <1>2, <1>3, <3>1 DEF Stack
    <3> QED BY <1>3, <3>2
  <2> QED BY <2>1, <2>2
<1>7. freeListHead' = IF n - 1 = 0 THEN Null ELSE r[n - 1]
  <2>1. freeListHead' = IF n = 1 THEN Null ELSE s[n - 1]
    BY <1>2, <1>3 DEF Stack
  <2>2. n # 1 => n - 1 \in 1..(n - 1) /\ r[n - 1] = s[n - 1]
    BY <1>3
  <2> QED BY <1>3, <2>1, <2>2
<1>8. \A i \in 1..(n - 1) : freeListNext'[r[i]] = IF i = 1 THEN Null ELSE r[i - 1]
  BY <1>2, <1>3 DEF Stack
<1>9. \A i, j \in 1..(n - 1) : r[i] = r[j] => i = j
  BY <1>2, <1>3 DEF Stack
<1>10. Stack(L \ {b}, r, n - 1)'
  <2> HIDE DEF r
  <2> QED BY <1>6, <1>7, <1>8, <1>9 DEF Stack
<1>11. Chained(L \ {b})'
  <2> HIDE DEF r
  <2> QED BY <1>5, <1>10 DEF Chained
<1> QED BY <1>4, <1>11

LEMMA UnlinkStep ==
  ASSUME PoolConstants, PoolInv, NEW t \in Callers, unlink(t)
  PROVE  PoolInv'
<1>0. CASE freeListHead # local[t].node
  BY <1>0, FailedSwap DEF unlink, memory
<1>1. CASE freeListHead = local[t].node
  <2>1. PICK b \in Blocks : b = local[t].node
    BY DEF PoolInv, NextIsCurrent, unlink, at
  <2>2. /\ at(t, "unlink") /\ go(t, "got")
        /\ freeListHead = b /\ freeListHead' = freeListNext[b]
        /\ UNCHANGED <<freeListRefs, freeListNext, initialBlockPoolIndex, own>>
    BY <1>1, <2>1 DEF unlink, PoolInv, NextIsCurrent, at
  <2>3. /\ local' \in [Callers -> Local]
        /\ \A u \in Callers \ {t} : own'[u] = own[u] /\ local'[u] = local[u]
        /\ local'[t].pc = "got" /\ local'[t].node = b
    BY <2>1, <2>2, Going DEF PoolInv, Stages, Refers
  <2>4. PICK L \in SUBSET Blocks : Chained(L) /\ Tally(L)
    BY TheList
  <2>5. OnePlace(b, L) /\ RefsAdd(b, L)
    BY <2>4 DEF Tally
  <2>6. PICK M \in SUBSET Blocks : M = L \ {b}
    OBVIOUS
  <2>7. b \in L /\ Chained(M)'
    BY <2>2, <2>4, <2>6, Popped
  <2>8. /\ is(t, Refers, b) /\ is(t, Refers, b)' /\ ~is(t, Adds, b)' /\ is(t, Links, b)'
        /\ b \notin own'[t]
    BY <2>1, <2>2, <2>3, <2>5, <2>7 DEF is, at, Refers, Adds, Links, OnePlace, mine
  <2>9. ~inPool(b)' /\ b \notin M
    BY <2>2, <2>5, <2>6, <2>7 DEF inPool, OnePlace
  <2>10. \A u \in Callers \ {t} : ~mine(u, b)' /\ b \notin own'[u] /\ ~is(u, Adds, b)' /\ ~is(u, Links, b)'
    BY <2>3, <2>5, <2>7, Bystanders, Mine DEF OnePlace
  <2>11. freeListRefs'[b] = Cardinality(Referring(b)') + 1
    BY <2>2, <2>3, <2>5, <2>7, <2>8, Counting DEF RefsAdd
  <2>12. OnePlace(b, M)'
    BY <2>8, <2>9, <2>10, Mine DEF OnePlace
  <2>13. RefsAdd(b, M)'
    BY <2>8, <2>9, <2>10, <2>11, Mine DEF RefsAdd
  <2>14. StepAt(t, b)
    BY <2>1, <2>2, <2>3 DEF StepAt, PoolInv, PoolTypes, at, NextIsCurrent
  <2>15. \A c \in Blocks \ {b} : c \in M <=> c \in L
    BY <2>6
  <2> QED BY <2>4, <2>7, <2>12, <2>13, <2>14, <2>15, AtBlock
<1> QED BY <1>0, <1>1

LEMMA DropRefStep ==
  ASSUME PoolConstants, PoolInv, NEW t \in Callers, dropRef(t)
  PROVE  PoolInv'
<1>1. PICK b \in Blocks : b = local[t].node
  BY DEF PoolInv, NextIsCurrent, dropRef, at
<1>2. /\ at(t, "dropRef")
      /\ freeListRefs' = [freeListRefs EXCEPT ![b] = @ - 1]
      /\ freeListRefs[b] = SHOULD_BE_ON_FREELIST + 1 => go(t, "addHead")
      /\ freeListRefs[b] # SHOULD_BE_ON_FREELIST + 1 => lookAt(t, local[t].head)
      /\ UNCHANGED <<freeListHead, freeListNext, initialBlockPoolIndex, own>>
  BY <1>1 DEF dropRef
<1>3. /\ local' \in [Callers -> Local]
      /\ \A u \in Callers \ {t} : own'[u] = own[u] /\ local'[u] = local[u]
      /\ IF freeListRefs[b] = SHOULD_BE_ON_FREELIST + 1
         THEN local'[t].pc = "addHead" /\ local'[t].node = b
         ELSE /\ local'[t].pc \in {"out", "getRefs"}
              /\ local'[t].pc = "getRefs" => local'[t].node \in Blocks
  <2>1. CASE freeListRefs[b] = SHOULD_BE_ON_FREELIST + 1
    BY <1>1, <1>2, <2>1, Going DEF PoolInv, Stages, Adds
  <2>2. CASE freeListRefs[b] # SHOULD_BE_ON_FREELIST + 1
    <3>1. local[t].head \in Blocks \cup {Null}
      BY DEF PoolInv, PoolTypes, Local
    <3> QED BY <1>2, <2>2, <3>1, LookingAt DEF PoolInv
  <2> QED BY <2>1, <2>2
<1>4. PICK L \in SUBSET Blocks : Chained(L) /\ Tally(L)
  BY TheList
<1>5. OnePlace(b, L) /\ RefsAdd(b, L)
  BY <1>4 DEF Tally
<1>6. /\ is(t, Refers, b) /\ ~is(t, Adds, b) /\ ~is(t, Links, b)
      /\ ~is(t, Refers, b)' /\ ~is(t, Links, b)'
      /\ is(t, Adds, b)' <=> freeListRefs[b] = SHOULD_BE_ON_FREELIST + 1
  BY <1>1, <1>2, <1>3 DEF is, at, Refers, Adds, Links
<1>7. (inPool(b)' <=> inPool(b)) /\ own' = own
  BY <1>2 DEF inPool
<1> DEFINE n == Cardinality(Referring(b))
           m == Cardinality(Referring(b)')
<1>8. n \in Nat /\ m \in Nat /\ n < SHOULD_BE_ON_FREELIST - 1 /\ m = n - 1
  BY <1>3, <1>6, Counting
<1>9. freeListRefs[b] \in Nat /\ freeListRefs[b] >= n /\ freeListRefs'[b] = freeListRefs[b] - 1
  <2>1. freeListRefs \in [Blocks -> Nat]
    BY DEF PoolInv, PoolTypes
  <2>2. freeListRefs[b] >= n
    <3>1. SHOULD_BE_ON_FREELIST \in Nat
      BY PoolFacts
    <3> HIDE DEF n
    <3> QED BY <1>5, <1>8, <3>1, Mine DEF RefsAdd, n
  <2> QED BY <1>2, <2>1, <2>2
<1>10. ASSUME freeListRefs[b] = SHOULD_BE_ON_FREELIST + 1
       PROVE  /\ n = 1 /\ ~inPool(b) /\ b \notin L
              /\ \A u \in Callers : ~mine(u, b) /\ b \notin own[u] /\ ~is(u, Adds, b) /\ ~is(u, Links, b)
  BY <1>5, <1>8, <1>10, PoolFacts, Mine DEF RefsAdd
<1>11. \A u \in Callers \ {t} : /\ mine(u, b)' <=> mine(u, b)
                                /\ b \in own'[u] <=> b \in own[u]
                                /\ is(u, Adds, b)' <=> is(u, Adds, b)
                                /\ is(u, Links, b)' <=> is(u, Links, b)
                                /\ is(u, Adds \cup Links, b)' <=> is(u, Adds \cup Links, b)
  BY <1>3, Bystanders
<1>12. OnePlace(b, L)' /\ RefsAdd(b, L)'
  <2>1. CASE freeListRefs[b] = SHOULD_BE_ON_FREELIST + 1
    <3>1. is(t, Adds, b)' /\ b \notin own'[t] /\ ~inPool(b)' /\ b \notin L
      BY <1>6, <1>7, <1>10, <2>1
    <3>2. \A u \in Callers \ {t} : ~mine(u, b)' /\ b \notin own'[u] /\ ~is(u, Adds, b)' /\ ~is(u, Links, b)'
      BY <1>10, <1>11, <2>1
    <3>3. OnePlace(b, L)'
      BY <1>6, <3>1, <3>2, Mine DEF OnePlace
    <3>4. freeListRefs'[b] = SHOULD_BE_ON_FREELIST /\ Cardinality(Referring(b)') = 0
      BY <1>8, <1>9, <1>10, <2>1, PoolFacts
    <3>5. RefsAdd(b, L)'
      BY <1>6, <3>1, <3>2, <3>4, Mine DEF RefsAdd
    <3> QED BY <3>3, <3>5
  <2>2. CASE freeListRefs[b] # SHOULD_BE_ON_FREELIST + 1
    <3>1. \A u \in Callers : /\ mine(u, b)' <=> mine(u, b)
                             /\ b \in own'[u] <=> b \in own[u]
                             /\ is(u, Adds, b)' <=> is(u, Adds, b)
                             /\ is(u, Links, b)' <=> is(u, Links, b)
                             /\ is(u, Adds \cup Links, b)' <=> is(u, Adds \cup Links, b)
      BY <1>6, <1>7, <1>11, <2>2, Mine
    <3>2. OnePlace(b, L)'
      BY <1>5, <1>7, <3>1 DEF OnePlace
    <3>3. n # 0
      BY <1>8
    <3>4. RefsAdd(b, L)'
      <4>1. SHOULD_BE_ON_FREELIST \in Nat
        BY PoolFacts
      <4> QED BY <1>5, <1>7, <1>8, <1>9, <2>2, <3>1, <3>3, <4>1 DEF RefsAdd
    <3> QED BY <3>2, <3>4
  <2> QED BY <2>1, <2>2
<1>13. freeListRefs' \in [Blocks -> Nat] /\ \A c \in Blocks \ {b} : freeListRefs'[c] = freeListRefs[c]
  BY <1>2, <1>8, <1>9 DEF PoolInv, PoolTypes
<1>14. Chained(L)'
  BY <1>2, <1>4, SameList
<1>15. StepAt(t, b)
  BY <1>1, <1>2, <1>3, <1>13 DEF StepAt, PoolInv, PoolTypes, at, NextIsCurrent, Refers, Adds, Links
<1> QED BY <1>4, <1>12, <1>14, <1>15, AtBlock

LEMMA AddStep ==
  ASSUME PoolConstants, PoolInv, NEW t \in Callers, NEW b \in Blocks, add(t, b)
  PROVE  PoolInv'
<1>1. /\ at(t, "out") /\ b \in own[t]
      /\ own' = [own EXCEPT ![t] = @ \ {b}]
      /\ freeListRefs' = [freeListRefs EXCEPT ![b] = @ + SHOULD_BE_ON_FREELIST]
      /\ UNCHANGED <<freeListHead, freeListNext, initialBlockPoolIndex>>
      /\ freeListRefs \in [Blocks -> Nat] /\ own \in [Callers -> SUBSET Blocks]
      /\ local \in [Callers -> Local]
  BY DEF add, PoolInv, PoolTypes
<1>2. /\ local' \in [Callers -> Local]
      /\ \A u \in Callers \ {t} : own'[u] = own[u] /\ local'[u] = local[u]
      /\ own' \in [Callers -> SUBSET Blocks]
      /\ own'[t] = own[t] \ {b}
      /\ IF freeListRefs[b] = 0 THEN local'[t].pc = "addHead" /\ local'[t].node = b
                                ELSE local'[t].pc = "out"
  <2>1. /\ own' \in [Callers -> SUBSET Blocks] /\ own'[t] = own[t] \ {b}
        /\ \A u \in Callers \ {t} : own'[u] = own[u]
    BY <1>1
  <2>2. CASE freeListRefs[b] = 0
    <3>1. local' = [local EXCEPT ![t] = [out EXCEPT !.pc = "addHead", !.node = b]]
      BY <2>2 DEF add
    <3>2. [out EXCEPT !.pc = "addHead", !.node = b] \in Local
      BY DEF out, Local, Stages, Adds
    <3> QED BY <1>1, <2>1, <2>2, <3>1, <3>2 DEF out
  <2>3. CASE freeListRefs[b] # 0
    BY <1>1, <2>1, <2>3 DEF add, at
  <2> QED BY <2>2, <2>3
<1>3. PICK L \in SUBSET Blocks : Chained(L) /\ Tally(L)
  BY TheList
<1>4. OnePlace(b, L) /\ RefsAdd(b, L)
  BY <1>3 DEF Tally
<1>5. /\ ~is(t, Refers, b) /\ ~is(t, Refers, b)' /\ ~is(t, Links, b)'
      /\ is(t, Adds, b)' <=> freeListRefs[b] = 0
      /\ b \notin own'[t]
  BY <1>1, <1>2 DEF is, at, Refers, Adds, Links
<1>6. mine(t, b) /\ ~inPool(b) /\ ~inPool(b)' /\ b \notin L
  BY <1>1, <1>4 DEF inPool, OnePlace, mine
<1>7. \A u \in Callers \ {t} : ~mine(u, b)' /\ b \notin own'[u] /\ ~is(u, Adds, b)' /\ ~is(u, Links, b)'
  BY <1>2, <1>4, <1>6, Bystanders, Mine DEF OnePlace
<1>8. /\ freeListRefs[b] = Cardinality(Referring(b))
      /\ Cardinality(Referring(b)') = Cardinality(Referring(b))
      /\ Cardinality(Referring(b)) \in Nat
  BY <1>1, <1>2, <1>4, <1>5, Counting DEF RefsAdd
<1>9. /\ freeListRefs'[b] = freeListRefs[b] + SHOULD_BE_ON_FREELIST
      /\ freeListRefs' \in [Blocks -> Nat]
      /\ \A c \in Blocks \ {b} : freeListRefs'[c] = freeListRefs[c]
      /\ SHOULD_BE_ON_FREELIST \in Nat
  BY <1>1, PoolFacts
<1>10. OnePlace(b, L)'
  BY <1>5, <1>6, <1>7, Mine DEF OnePlace
<1>11. RefsAdd(b, L)'
  <2>1. freeListRefs'[b] = SHOULD_BE_ON_FREELIST + Cardinality(Referring(b)')
    BY <1>8, <1>9
  <2>2. Cardinality(Referring(b)') = 0 <=> is(t, Adds, b)'
    BY <1>5, <1>8
  <2>3. is(t, Adds, b)' => freeListRefs'[b] = SHOULD_BE_ON_FREELIST
    BY <1>9, <2>1, <2>2
  <2> QED BY <1>5, <1>6, <1>7, <2>1, <2>2, <2>3, Mine DEF RefsAdd
<1>12. Chained(L)'
  BY <1>1, <1>3, SameList
<1>13. StepAt(t, b)
  BY <1>1, <1>2, <1>9 DEF StepAt, PoolInv, PoolTypes, at, NextIsCurrent, Refers, Adds, Links
<1> QED BY <1>3, <1>10, <1>11, <1>12, <1>13, AtBlock

LEMMA StoreRefsStep ==
  ASSUME PoolConstants, PoolInv, NEW t \in Callers, storeRefs(t)
  PROVE  PoolInv'
<1>1. PICK b \in Blocks : b = local[t].node
  BY DEF PoolInv, NextIsCurrent, storeRefs, at
<1>2. /\ at(t, "setRefs") /\ go(t, "link")
      /\ freeListRefs' = [freeListRefs EXCEPT ![b] = 1]
      /\ UNCHANGED <<freeListHead, freeListNext, initialBlockPoolIndex, own>>
      /\ freeListRefs \in [Blocks -> Nat]
  BY <1>1 DEF storeRefs, PoolInv, PoolTypes
<1>3. /\ local' \in [Callers -> Local]
      /\ \A u \in Callers \ {t} : own'[u] = own[u] /\ local'[u] = local[u]
      /\ local'[t].pc = "link" /\ local'[t].node = b /\ local'[t].next = local[t].next
  BY <1>1, <1>2, Going DEF PoolInv, Stages, Links
<1>4. PICK L \in SUBSET Blocks : Chained(L) /\ Tally(L)
  BY TheList
<1>5. OnePlace(b, L) /\ RefsAdd(b, L)
  BY <1>4 DEF Tally
<1>6. /\ ~is(t, Refers, b) /\ is(t, Adds, b)
      /\ ~is(t, Refers, b)' /\ ~is(t, Adds, b)' /\ is(t, Links, b)'
  BY <1>1, <1>2, <1>3 DEF is, at, Refers, Adds, Links
<1>7. mine(t, b) /\ ~inPool(b)' /\ b \notin L /\ b \notin own'[t]
  BY <1>2, <1>5, <1>6, Mine DEF inPool, OnePlace
<1>8. \A u \in Callers \ {t} : ~mine(u, b)' /\ b \notin own'[u] /\ ~is(u, Adds, b)' /\ ~is(u, Links, b)'
  BY <1>3, <1>5, <1>7, Bystanders, Mine DEF OnePlace
<1>9. Cardinality(Referring(b)') = 0
  BY <1>3, <1>5, <1>6, Counting DEF RefsAdd
<1>10. /\ freeListRefs'[b] = 1
       /\ freeListRefs' \in [Blocks -> Nat]
       /\ \A c \in Blocks \ {b} : freeListRefs'[c] = freeListRefs[c]
  BY <1>2
<1>11. OnePlace(b, L)'
  BY <1>6, <1>7, <1>8, Mine DEF OnePlace
<1>12. RefsAdd(b, L)'
  BY <1>6, <1>7, <1>8, <1>9, <1>10, Mine DEF RefsAdd
<1>13. Chained(L)'
  BY <1>2, <1>4, SameList
<1>14. StepAt(t, b)
  BY <1>1, <1>2, <1>3, <1>10 DEF StepAt, PoolInv, PoolTypes, at, NextIsCurrent
<1> QED BY <1>4, <1>11, <1>12, <1>13, <1>14, AtBlock

LEMMA LinkFailedStep ==
  ASSUME PoolConstants, PoolInv, NEW t \in Callers, linkFailed(t)
  PROVE  PoolInv'
<1>1. PICK b \in Blocks : b = local[t].node
  BY DEF PoolInv, NextIsCurrent, linkFailed, at
<1>2. /\ at(t, "linkFailed")
      /\ freeListRefs' = [freeListRefs EXCEPT ![b] = @ + SHOULD_BE_ON_FREELIST - 1]
      /\ freeListRefs[b] = 1 => go(t, "setNext")
      /\ freeListRefs[b] # 1 => lookAt(t, local[t].head)
      /\ UNCHANGED <<freeListHead, freeListNext, initialBlockPoolIndex, own>>
      /\ freeListRefs \in [Blocks -> Nat]
  BY <1>1 DEF linkFailed, PoolInv, PoolTypes
<1>3. /\ local' \in [Callers -> Local]
      /\ \A u \in Callers \ {t} : own'[u] = own[u] /\ local'[u] = local[u]
      /\ IF freeListRefs[b] = 1
         THEN local'[t].pc = "setNext" /\ local'[t].node = b
         ELSE /\ local'[t].pc \in {"out", "getRefs"}
              /\ local'[t].pc = "getRefs" => local'[t].node \in Blocks
  <2>1. CASE freeListRefs[b] = 1
    BY <1>1, <1>2, <2>1, Going DEF PoolInv, Stages, Adds
  <2>2. CASE freeListRefs[b] # 1
    <3>1. local[t].head \in Blocks \cup {Null}
      BY DEF PoolInv, PoolTypes, Local
    <3> QED BY <1>2, <2>2, <3>1, LookingAt DEF PoolInv
  <2> QED BY <2>1, <2>2
<1>4. PICK L \in SUBSET Blocks : Chained(L) /\ Tally(L)
  BY TheList
<1>5. OnePlace(b, L) /\ RefsAdd(b, L)
  BY <1>4 DEF Tally
<1>6. /\ ~is(t, Refers, b) /\ is(t, Links, b)
      /\ ~is(t, Refers, b)' /\ ~is(t, Links, b)'
      /\ is(t, Adds, b)' <=> freeListRefs[b] = 1
  BY <1>1, <1>2, <1>3 DEF is, at, Refers, Adds, Links
<1>7. mine(t, b) /\ ~inPool(b) /\ ~inPool(b)' /\ b \notin L /\ b \notin own'[t]
  BY <1>2, <1>5, <1>6, Mine DEF inPool, OnePlace
<1>8. \A u \in Callers \ {t} : ~mine(u, b)' /\ b \notin own'[u] /\ ~is(u, Adds, b)' /\ ~is(u, Links, b)'
  BY <1>3, <1>5, <1>7, Bystanders, Mine DEF OnePlace
<1>9. /\ freeListRefs[b] = Cardinality(Referring(b)) + 1
      /\ Cardinality(Referring(b)') = Cardinality(Referring(b))
      /\ Cardinality(Referring(b)) \in Nat
  BY <1>3, <1>5, <1>6, Counting DEF RefsAdd
<1>10. /\ freeListRefs'[b] = freeListRefs[b] + SHOULD_BE_ON_FREELIST - 1
       /\ freeListRefs' \in [Blocks -> Nat]
       /\ \A c \in Blocks \ {b} : freeListRefs'[c] = freeListRefs[c]
       /\ SHOULD_BE_ON_FREELIST \in Nat
  BY <1>2, <1>9, PoolFacts
<1>11. OnePlace(b, L)'
  BY <1>6, <1>7, <1>8, Mine DEF OnePlace
<1>12. RefsAdd(b, L)'
  <2>1. freeListRefs'[b] = SHOULD_BE_ON_FREELIST + Cardinality(Referring(b)')
    BY <1>9, <1>10
  <2>2. Cardinality(Referring(b)') = 0 <=> is(t, Adds, b)'
    BY <1>6, <1>9
  <2>3. is(t, Adds, b)' => freeListRefs'[b] = SHOULD_BE_ON_FREELIST
    BY <1>10, <2>1, <2>2
  <2> QED BY <1>6, <1>7, <1>8, <2>1, <2>2, <2>3, Mine DEF RefsAdd
<1>13. Chained(L)'
  BY <1>2, <1>4, SameList
<1>14. StepAt(t, b)
  BY <1>1, <1>2, <1>3, <1>10 DEF StepAt, PoolInv, PoolTypes, at, NextIsCurrent, Refers, Adds, Links
<1> QED BY <1>4, <1>11, <1>12, <1>13, <1>14, AtBlock

LEMMA Pushed ==
  ASSUME PoolConstants, NEW L \in SUBSET Blocks, Chained(L), NEW b \in Blocks, b \notin L,
         freeListNext[b] = freeListHead, freeListHead' = b, UNCHANGED freeListNext
  PROVE  Chained(L \cup {b})'
<1>1. PICK n \in 0..initialBlockPoolSize : \E s \in [1..n -> Blocks] : Stack(L, s, n)
  BY DEF Chained
<1>2. PICK s \in [1..n -> Blocks] : Stack(L, s, n)
  BY <1>1
<1>3. n \in Nat /\ initialBlockPoolSize \in Nat
  BY PoolFacts
<1>4. \A i \in 1..n : s[i] \in L
  BY <1>2 DEF Stack
<1>5. n < initialBlockPoolSize
  <2>1. s \in Injection(1..n, Blocks) /\ s \notin Surjection(1..n, Blocks)
    BY <1>2, <1>4 DEF Stack, Injection, Surjection, IsInjective
  <2>2. IsFiniteSet(Blocks) /\ Cardinality(Blocks) = initialBlockPoolSize
    BY <1>3, FS_Interval DEF Blocks
  <2>3. Cardinality(1..n) = n
    BY <1>3, FS_Interval
  <2>4. Cardinality(1..n) <= Cardinality(Blocks) /\ Cardinality(1..n) # Cardinality(Blocks)
    BY <2>1, <2>2, FS_Injection
  <2> QED BY <1>3, <2>2, <2>3, <2>4
<1> DEFINE r == [i \in 1..(n + 1) |-> IF i = n + 1 THEN b ELSE s[i]]
<1>6. n + 1 \in 0..initialBlockPoolSize /\ r \in [1..(n + 1) -> Blocks]
  BY <1>3, <1>5
<1>7. r[n + 1] = b /\ \A i \in 1..n : i \in 1..(n + 1) /\ r[i] = s[i] /\ r[i] # b
  BY <1>3, <1>4
<1>8. \A i \in 1..(n + 1) : i = n + 1 \/ i \in 1..n
  BY <1>3
<1> HIDE DEF r
<1>9. L \cup {b} = {r[i] : i \in 1..(n + 1)}
  <2>1. ASSUME NEW c \in L \cup {b} PROVE c \in {r[i] : i \in 1..(n + 1)}
    <3>1. CASE c = b
      <4>1. n + 1 \in 1..(n + 1)
        BY <1>3
      <4> QED BY <1>7, <3>1, <4>1
    <3>2. CASE c \in L
      <4>1. PICK i \in 1..n : c = s[i]
        BY <1>2, <3>2 DEF Stack
      <4> QED BY <1>7, <4>1
    <3> QED BY <3>1, <3>2
  <2>2. ASSUME NEW i \in 1..(n + 1) PROVE r[i] \in L \cup {b}
    BY <1>4, <1>7, <1>8
  <2> QED BY <2>1, <2>2
<1>10. freeListHead' = IF n + 1 = 0 THEN Null ELSE r[n + 1]
  BY <1>3, <1>7
<1>11. \A i \in 1..(n + 1) : freeListNext'[r[i]] = IF i = 1 THEN Null ELSE r[i - 1]
  <2>1. ASSUME NEW i \in 1..n PROVE freeListNext'[r[i]] = IF i = 1 THEN Null ELSE r[i - 1]
    <3>1. i # 1 => i - 1 \in 1..n
      BY <1>3
    <3> QED BY <1>2, <1>7, <3>1 DEF Stack
  <2>2. freeListNext'[r[n + 1]] = IF n + 1 = 1 THEN Null ELSE r[n + 1 - 1]
    <3>1. freeListNext'[r[n + 1]] = IF n = 0 THEN Null ELSE s[n]
      BY <1>2, <1>7 DEF Stack
    <3>2. n # 0 => n \in 1..n /\ n + 1 - 1 = n
      BY <1>3
    <3> QED BY <1>3, <1>7, <3>1, <3>2
  <2>3. ASSUME NEW i \in 1..(n + 1) PROVE freeListNext'[r[i]] = IF i = 1 THEN Null ELSE r[i - 1]
    <3>1. CASE i = n + 1
      BY <2>2, <3>1
    <3>2. CASE i \in 1..n
      BY <2>1, <3>2
    <3> QED BY <1>8, <3>1, <3>2
  <2> QED BY <2>3
<1>12. \A i, j \in 1..(n + 1) : r[i] = r[j] => i = j
  <2> SUFFICES ASSUME NEW i \in 1..(n + 1), NEW j \in 1..(n + 1), r[i] = r[j] PROVE i = j
    OBVIOUS
  <2> QED BY <1>2, <1>7, <1>8 DEF Stack
<1>13. Stack(L \cup {b}, r, n + 1)'
  BY <1>9, <1>10, <1>11, <1>12 DEF Stack
<1> QED BY <1>6, <1>13 DEF Chained

LEMMA LinkStep ==
  ASSUME PoolConstants, PoolInv, NEW t \in Callers, link(t)
  PROVE  PoolInv'
<1>0. CASE freeListHead # local[t].next
  BY <1>0, FailedSwap DEF link, memory
<1>1. CASE freeListHead = local[t].next
  <2>1. PICK b \in Blocks : b = local[t].node
    BY DEF PoolInv, NextIsCurrent, link, at
  <2>2. /\ at(t, "link") /\ lookAt(t, local[t].head)
        /\ freeListNext[b] = freeListHead /\ freeListHead' = b
        /\ UNCHANGED <<freeListRefs, freeListNext, initialBlockPoolIndex, own>>
    BY <1>1, <2>1 DEF link, PoolInv, NextIsCurrent, at
  <2>3. /\ local' \in [Callers -> Local]
        /\ \A u \in Callers \ {t} : own'[u] = own[u] /\ local'[u] = local[u]
        /\ local'[t].pc \in {"out", "getRefs"}
        /\ local'[t].pc = "getRefs" => local'[t].node \in Blocks
    <3>1. local[t].head \in Blocks \cup {Null}
      BY DEF PoolInv, PoolTypes, Local
    <3> QED BY <2>2, <3>1, LookingAt DEF PoolInv
  <2>4. PICK L \in SUBSET Blocks : Chained(L) /\ Tally(L)
    BY TheList
  <2>5. OnePlace(b, L) /\ RefsAdd(b, L)
    BY <2>4 DEF Tally
  <2>6. /\ ~is(t, Refers, b) /\ is(t, Links, b)
        /\ ~is(t, Refers, b)' /\ ~is(t, Adds, b)' /\ ~is(t, Links, b)'
    BY <2>1, <2>2, <2>3 DEF is, at, Refers, Adds, Links
  <2>7. mine(t, b) /\ ~inPool(b)' /\ b \notin L /\ b \notin own'[t]
    BY <2>2, <2>5, <2>6, Mine DEF inPool, OnePlace
  <2>8. PICK M \in SUBSET Blocks : M = L \cup {b}
    OBVIOUS
  <2>9. Chained(M)' /\ b \in M
    BY <2>2, <2>4, <2>7, <2>8, Pushed
  <2>10. \A u \in Callers : ~mine(u, b)' /\ b \notin own'[u] /\ ~is(u, Adds, b)' /\ ~is(u, Links, b)'
    <3>1. \A u \in Callers \ {t} : ~mine(u, b)
      BY <2>5, <2>7 DEF OnePlace
    <3>2. \A u \in Callers \ {t} : ~mine(u, b)'
      BY <2>3, <3>1, Bystanders
    <3>3. ~mine(t, b)'
      BY <2>6, <2>7, Mine
    <3> QED BY <3>2, <3>3, Mine
  <2>11. freeListRefs'[b] = Cardinality(Referring(b)') + 1
    BY <2>2, <2>3, <2>5, <2>6, Counting DEF RefsAdd
  <2>12. OnePlace(b, M)'
    BY <2>7, <2>9, <2>10 DEF OnePlace
  <2>13. RefsAdd(b, M)'
    BY <2>7, <2>9, <2>10, <2>11 DEF RefsAdd
  <2>14. StepAt(t, b)
    BY <2>1, <2>2, <2>3 DEF StepAt, PoolInv, PoolTypes, at, NextIsCurrent, Refers, Adds, Links
  <2>15. \A c \in Blocks \ {b} : c \in M <=> c \in L
    BY <2>8
  <2> QED BY <2>4, <2>9, <2>12, <2>13, <2>14, <2>15, AtBlock
<1> QED BY <1>0, <1>1

\* Nobody but the thread that adds a block looks at its next.
LEMMA StoreNextStep ==
  ASSUME PoolConstants, PoolInv, NEW t \in Callers, storeNext(t)
  PROVE  PoolInv'
<1>1. PICK b \in Blocks : b = local[t].node
  BY DEF PoolInv, NextIsCurrent, storeNext, at
<1>2. /\ at(t, "setNext") /\ go(t, "setRefs")
      /\ freeListNext' = [freeListNext EXCEPT ![b] = local[t].next]
      /\ UNCHANGED <<freeListHead, freeListRefs, initialBlockPoolIndex, own>>
      /\ freeListNext \in [Blocks -> Blocks \cup {Null}] /\ local[t].next \in Blocks \cup {Null}
  BY <1>1 DEF storeNext, PoolInv, PoolTypes, Local
<1>3. /\ local' \in [Callers -> Local]
      /\ \A u \in Callers \ {t} : own'[u] = own[u] /\ local'[u] = local[u]
      /\ local'[t].pc = "setRefs" /\ local'[t].node = b /\ local'[t].next = local[t].next
  BY <1>1, <1>2, Going DEF PoolInv, Stages, Adds
<1>4. PICK L \in SUBSET Blocks : Chained(L) /\ Tally(L)
  BY TheList
<1>5. OnePlace(b, L) /\ RefsAdd(b, L)
  BY <1>4 DEF Tally
<1>6. is(t, Adds, b) /\ mine(t, b)
  BY <1>1, <1>2, Mine DEF is, at, Adds
<1>7. b \notin L
  BY <1>5, <1>6 DEF OnePlace
<1>8. Referring(b) = {}
  <2>1. Cardinality(Referring(b)) = 0 /\ Referring(b) \in SUBSET Callers
    BY <1>5, <1>6 DEF RefsAdd, Referring
  <2> QED BY <2>1, Threadsets
<1>9. \A u \in Callers \ {t} : local[u].pc \in {"unlink", "setRefs", "link"} => local[u].node # b
  <2>1. \A u \in Callers \ {t} : ~mine(u, b)
    BY <1>5, <1>6 DEF OnePlace
  <2>2. \A u \in Callers \ {t} : ~is(u, Adds, b) /\ ~is(u, Links, b) /\ ~is(u, Refers, b)
    BY <1>8, <2>1, Mine DEF Referring
  <2> QED BY <2>2 DEF is, Adds, Links, Refers
<1>10. PoolTypes'
  <2>1. AtPool' = AtPool
    BY <1>2, <1>3 DEF AtPool, at
  <2> QED BY <1>2, <1>3, <2>1 DEF PoolInv, PoolTypes
<1>11. \A u \in Callers : NextIsCurrent(u)'
  <2>1. NextIsCurrent(t)'
    BY <1>2, <1>3 DEF NextIsCurrent, at
  <2>2. ASSUME NEW u \in Callers \ {t} PROVE NextIsCurrent(u)'
    <3>1. NextIsCurrent(u) /\ local'[u] = local[u]
      BY <1>3 DEF PoolInv
    <3>2. \A c \in Blocks \ {b} : freeListNext'[c] = freeListNext[c]
      BY <1>2
    <3> QED BY <1>9, <3>1, <3>2 DEF NextIsCurrent, at
  <2> QED BY <2>1, <2>2
<1>12. Chained(L)'
  <2>1. \A c \in L : freeListNext'[c] = freeListNext[c]
    BY <1>2, <1>7
  <2> QED BY <1>2, <1>4, <2>1, SameList
<1>13. Tally(L)'
  <2> SUFFICES ASSUME NEW c \in Blocks PROVE OnePlace(c, L)' /\ RefsAdd(c, L)'
    BY DEF Tally
  <2>1. OnePlace(c, L) /\ RefsAdd(c, L)
    BY <1>4 DEF Tally
  <2>2. (inPool(c)' <=> inPool(c)) /\ own' = own /\ freeListRefs' = freeListRefs
    BY <1>2 DEF inPool
  <2>3. /\ is(t, Refers, c)' <=> is(t, Refers, c)
        /\ is(t, Adds, c)' <=> is(t, Adds, c)
        /\ is(t, Links, c)' <=> is(t, Links, c)
    BY <1>1, <1>2, <1>3 DEF is, Refers, Adds, Links, at
  <2> QED BY <1>3, <2>1, <2>2, <2>3, Elsewhere
<1> QED BY <1>10, <1>11, <1>12, <1>13 DEF PoolInv

-----------------------------------------------------------------------------
\* A block of the initial pool is handed out, or there is none left.
LEMMA PoolStep ==
  ASSUME PoolConstants, PoolInv, NEW t \in Callers, try_get_block_from_initial_pool(t)
  PROVE  PoolInv'
<1>1. /\ at(t, "pool") /\ initialBlockPoolIndex' = initialBlockPoolIndex + 1
      /\ UNCHANGED <<freeListHead, freeListRefs, freeListNext>>
      /\ initialBlockPoolIndex \in Nat /\ initialBlockPoolSize \in Nat
      /\ own \in [Callers -> SUBSET Blocks]
  BY PoolFacts DEF try_get_block_from_initial_pool, PoolInv, PoolTypes
<1>2. PICK i \in Nat : i = initialBlockPoolIndex
  BY <1>1
<1>3. i < initialBlockPoolSize => i \in Blocks
  BY <1>1 DEF Blocks
<1>4. /\ local' \in [Callers -> Local]
      /\ \A u \in Callers \ {t} : own'[u] = own[u] /\ local'[u] = local[u]
      /\ local'[t].pc \in {"out", "getHead"}
      /\ own' \in [Callers -> SUBSET Blocks]
      /\ own'[t] = IF i < initialBlockPoolSize THEN own[t] \cup {i} ELSE own[t]
  <2>1. CASE i < initialBlockPoolSize
    <3>1. return(t, i)
      BY <1>2, <2>1 DEF try_get_block_from_initial_pool
    <3> QED BY <1>3, <2>1, <3>1, Returning DEF PoolInv
  <2>2. CASE ~(i < initialBlockPoolSize)
    <3>1. go(t, "getHead") /\ own' = own
      BY <1>2, <2>2 DEF try_get_block_from_initial_pool
    <3> QED BY <1>1, <2>2, <3>1, Going DEF PoolInv, Stages
  <2> QED BY <2>1, <2>2
<1>5. PoolTypes'
  <2>1. t \in AtPool /\ AtPool' = AtPool \ {t} /\ AtPool \in SUBSET Callers
    BY <1>1, <1>4 DEF AtPool, at
  <2>2. /\ Cardinality(AtPool') = Cardinality(AtPool) - 1
        /\ Cardinality(AtPool) \in Nat
    BY <2>1, Threadsets
  <2>3. initialBlockPoolIndex' \in Nat
        /\ initialBlockPoolIndex' + Cardinality(AtPool') = initialBlockPoolIndex + Cardinality(AtPool)
    BY <1>1, <2>2
  <2> QED BY <1>1, <1>4, <2>3 DEF PoolInv, PoolTypes
<1>6. \A u \in Callers : NextIsCurrent(u)'
  BY <1>1, <1>4 DEF PoolInv, NextIsCurrent, at
<1>7. PICK L \in SUBSET Blocks : Chained(L) /\ Tally(L)
  BY TheList
<1>8. Chained(L)'
  BY <1>1, <1>7, SameList
<1>9. \A c \in Blocks : /\ ~is(t, Refers, c) /\ ~is(t, Refers, c)'
                        /\ ~is(t, Adds, c) /\ ~is(t, Adds, c)'
                        /\ ~is(t, Links, c) /\ ~is(t, Links, c)'
                        /\ freeListRefs'[c] = freeListRefs[c]
  BY <1>1, <1>4 DEF is, Refers, Adds, Links, at
<1>10. \A c \in Blocks : c # i => (inPool(c)' <=> inPool(c)) /\ (c \in own'[t] <=> c \in own[t])
  BY <1>1, <1>2, <1>4 DEF inPool, Blocks
<1>11. Tally(L)'
  <2>1. CASE i < initialBlockPoolSize
    <3>1. i \in Blocks /\ OnePlace(i, L) /\ RefsAdd(i, L)
      BY <1>3, <1>7, <2>1 DEF Tally
    <3>2. inPool(i) /\ ~inPool(i)' /\ i \in own'[t]
      BY <1>1, <1>2, <1>4, <2>1 DEF inPool
    <3>3. \A u \in Callers \ {t} : ~mine(u, i)' /\ i \notin own'[u] /\ ~is(u, Adds, i)' /\ ~is(u, Links, i)'
      BY <1>4, <3>1, <3>2, Bystanders, Mine DEF OnePlace
    <3>4. freeListRefs'[i] = 0 /\ Cardinality(Referring(i)') = 0
      BY <1>1, <1>4, <1>9, <3>1, <3>2, Counting DEF RefsAdd
    <3>5. OnePlace(i, L)'
      <4>1. i \notin L /\ ~is(t, Adds \cup Links, i)'
        BY <1>9, <3>1, <3>2, Mine DEF OnePlace
      <4> QED BY <3>2, <3>3, <4>1, Mine DEF OnePlace
    <3>6. RefsAdd(i, L)'
      BY <1>9, <3>1, <3>2, <3>3, <3>4, Mine DEF RefsAdd, OnePlace
    <3> QED BY <1>4, <1>7, <1>9, <1>10, <3>1, <3>5, <3>6, BooksAt
  <2>2. CASE ~(i < initialBlockPoolSize)
    <3> SUFFICES ASSUME NEW c \in Blocks PROVE OnePlace(c, L)' /\ RefsAdd(c, L)'
      BY DEF Tally
    <3>1. OnePlace(c, L) /\ RefsAdd(c, L)
      BY <1>7 DEF Tally
    <3>2. c # i
      BY <1>1, <2>2 DEF Blocks
    <3> QED BY <1>4, <1>9, <1>10, <3>1, <3>2, Elsewhere
  <2> QED BY <2>1, <2>2
<1> QED BY <1>5, <1>6, <1>7, <1>8, <1>11 DEF PoolInv

-----------------------------------------------------------------------------
LEMMA PoolInit ==
  ASSUME PoolConstants, FLInit
  PROVE  PoolInv
<1>1. local = [t \in Callers |-> out] /\ out \in Local
  BY DEF FLInit, out, Local, Stages
<1>2. \A t \in Callers : /\ local[t].pc = "out" /\ own[t] = {}
                         /\ \A b : ~is(t, Refers, b) /\ ~is(t, Adds, b) /\ ~is(t, Links, b)
  BY <1>1 DEF FLInit, out, is, Refers, Adds, Links
<1>3. Cardinality(AtPool) = 0 /\ \A b \in Blocks : Cardinality(Referring(b)) = 0
  <2>1. AtPool = {} /\ \A b \in Blocks : Referring(b) = {}
    BY <1>2 DEF AtPool, Referring, at
  <2>2. Cardinality({}) = 0
    BY Threadsets
  <2> QED BY <2>1, <2>2
<1>4. PoolTypes
  <2>1. local \in [Callers -> Local]
    BY <1>1
  <2> QED BY <1>3, <2>1, PoolFacts DEF PoolTypes, FLInit
<1>5. \A t \in Callers : NextIsCurrent(t)
  BY <1>2 DEF NextIsCurrent, at
<1>6. Chained({})
  <2>1. PICK s : s = [i \in 1..0 |-> 0]
    OBVIOUS
  <2>2. s \in [1..0 -> Blocks] /\ 0 \in 0..initialBlockPoolSize
    BY <2>1, PoolFacts
  <2>3. Stack({}, s, 0)
    BY DEF Stack, FLInit
  <2> QED BY <2>2, <2>3 DEF Chained
<1>7. Tally({})
  <2> SUFFICES ASSUME NEW b \in Blocks PROVE OnePlace(b, {}) /\ RefsAdd(b, {})
    BY DEF Tally
  <2>1. inPool(b) /\ freeListRefs[b] = 0
    BY PoolFacts DEF FLInit, inPool, Blocks
  <2>2. \A t \in Callers : ~mine(t, b) /\ b \notin own[t]
    BY <1>2, Mine
  <2> QED BY <1>2, <1>3, <2>1, <2>2 DEF OnePlace, RefsAdd
<1> QED BY <1>4, <1>5, <1>6, <1>7 DEF PoolInv

LEMMA PoolNext ==
  ASSUME PoolConstants, PoolInv, [FLNext]_flVars
  PROVE  PoolInv'
<1>1. ASSUME NEW t \in Callers, Call(t) PROVE PoolInv'
  BY <1>1, RequisitionStep, AddStep DEF Call
<1>2. ASSUME NEW t \in Callers, Step(t) PROVE PoolInv'
  BY <1>2, PoolStep, TryGetStep, LoadRefsStep, AddRefStep, LoadNextStep, UnlinkStep, GotStep,
     DropRefStep, AddHeadStep, StoreNextStep, StoreRefsStep, LinkStep, LinkFailedStep DEF Step
<1>3. ASSUME UNCHANGED flVars PROVE PoolInv'
  <2>1. /\ UNCHANGED <<freeListHead, freeListRefs, freeListNext, initialBlockPoolIndex, own, local>>
    BY <1>3 DEF flVars, memory
  <2>2. PICK L \in SUBSET Blocks : Chained(L) /\ Tally(L)
    BY TheList
  <2>3. Chained(L)'
    BY <2>1, <2>2, SameList
  <2>4. Tally(L)'
    <3>1. \A u, c : /\ is(u, Refers, c)' <=> is(u, Refers, c)
                    /\ is(u, Adds, c)' <=> is(u, Adds, c)
                    /\ is(u, Links, c)' <=> is(u, Links, c)
      BY <2>1 DEF is
    <3>2. \A c : /\ Referring(c)' = Referring(c)
                 /\ inPool(c)' <=> inPool(c)
      BY <2>1, <3>1 DEF Referring, inPool
    <3>3. \A u, c : /\ mine(u, c)' <=> mine(u, c)
                    /\ is(u, Adds \cup Links, c)' <=> is(u, Adds \cup Links, c)
      BY <2>1, <3>1, Mine
    <3>4. \A c \in Blocks : OnePlace(c, L)'
      BY <2>1, <2>2, <3>2, <3>3 DEF Tally, OnePlace
    <3>5. \A c \in Blocks : RefsAdd(c, L)'
      BY <2>1, <2>2, <3>1, <3>2, <3>3 DEF Tally, RefsAdd
    <3> QED BY <3>4, <3>5 DEF Tally
  <2>5. PoolTypes' /\ \A t \in Callers : NextIsCurrent(t)'
    BY <2>1 DEF PoolInv, PoolTypes, AtPool, NextIsCurrent, at
  <2> QED BY <2>3, <2>4, <2>5 DEF PoolInv
<1> QED BY <1>1, <1>2, <1>3 DEF FLNext

-----------------------------------------------------------------------------
\* What the definition of reached computes.
LEMMA Reached ==
  freeListHead \in Blocks \cup {Null} /\ freeListNext \in [Blocks -> Blocks \cup {Null}] =>
    /\ reached[0] = {freeListHead}
    /\ \A k \in Nat : reached[k + 1] = reached[k] \cup {freeListNext[b] : b \in reached[k] \ {Null}}
<1> DEFINE V == SUBSET (Blocks \cup {Null})
           a == {freeListHead}
           G(X) == X \cup {freeListNext[b] : b \in X \ {Null}}
           F == [X \in V |-> G(X)]
           Def(f) == f = [k \in Nat |-> IF k = 0 THEN {freeListHead} ELSE G(f[k - 1])]
<1>0. SUFFICES ASSUME freeListHead \in Blocks \cup {Null}, freeListNext \in [Blocks -> Blocks \cup {Null}]
               PROVE  /\ reached[0] = {freeListHead}
                      /\ \A k \in Nat : reached[k + 1] = G(reached[k])
  OBVIOUS
<1>1. PICK f \in [Nat -> V] : f[0] = a /\ \A k \in Nat : f[k + 1] = F[f[k]]
  <2>1. a \in V
    BY <1>0
  <2>2. ASSUME NEW X \in V PROVE G(X) \in V
    BY <1>0
  <2>3. F \in [V -> V]
    <3> HIDE DEF G, V
    <3> QED BY <2>2
  <2>4. \E f \in [Nat -> V] : f[0] = a /\ \A k \in Nat : f[k + 1] = F[f[k]]
    <3> HIDE DEF V, a, F
    <3> QED BY <2>1, <2>3, RecursionOverNat
  <2> QED BY <2>4
<1>2. Def(f)
  <2> HIDE DEF G
  <2>1. ASSUME NEW k \in Nat PROVE f[k] = IF k = 0 THEN {freeListHead} ELSE G(f[k - 1])
    <3>1. CASE k = 0
      BY <1>1, <3>1
    <3>2. CASE k # 0
      <4>1. k - 1 \in Nat /\ (k - 1) + 1 = k
        BY <3>2
      <4>2. f[k] = F[f[k - 1]] /\ f[k - 1] \in V
        BY <1>1, <4>1
      <4> QED BY <3>2, <4>2
    <3> QED BY <3>1, <3>2
  <2>2. f = [k \in Nat |-> f[k]]
    OBVIOUS
  <2> QED BY <2>1, <2>2
<1>3. Def(reached)
  <2>1. reached = CHOOSE g : Def(g)
    BY DEF reached
  <2> HIDE DEF Def
  <2> QED BY <1>2, <2>1
<1>4. \A k \in Nat : reached[k] = IF k = 0 THEN {freeListHead} ELSE G(reached[k - 1])
  <2> HIDE DEF G
  <2> QED BY <1>3, Zenon
<1>5. reached[0] = {freeListHead}
  BY <1>4
<1>6. ASSUME NEW k \in Nat PROVE reached[k + 1] = G(reached[k])
  <2> HIDE DEF G
  <2>1. k + 1 \in Nat /\ k + 1 # 0 /\ (k + 1) - 1 = k
    OBVIOUS
  <2> QED BY <1>4, <2>1
<1> QED BY <1>5, <1>6

\* Following the list from its head finds all of it and nothing else.
LEMMA ListedIs ==
  ASSUME PoolConstants, PoolInv, NEW L \in SUBSET Blocks, Chained(L)
  PROVE  listed = L
<1>1. PICK n \in 0..initialBlockPoolSize : \E s \in [1..n -> Blocks] : Stack(L, s, n)
  BY DEF Chained
<1>2. PICK s \in [1..n -> Blocks] : Stack(L, s, n)
  BY <1>1
<1>3. n \in Nat /\ initialBlockPoolSize \in Nat /\ n <= initialBlockPoolSize /\ Null \notin Blocks
  BY PoolFacts
<1>4. /\ reached[0] = {freeListHead}
      /\ \A k \in Nat : reached[k + 1] = reached[k] \cup {freeListNext[b] : b \in reached[k] \ {Null}}
  BY Reached DEF PoolInv, PoolTypes
<1> DEFINE Upper(k) == {i \in 1..n : i + k >= n}
           Top(k) == {s[i] : i \in Upper(k)}
           T == {k \in Nat : reached[k] \ {Null} = Top(k)}
<1>5. \A k \in Nat : \A i \in Upper(k) : s[i] \in Blocks /\ s[i] # Null
  BY <1>3
<1>6. 0 \in T
  <2>1. CASE n = 0
    <3>1. freeListHead = Null /\ Top(0) = {}
      BY <1>2, <2>1 DEF Stack
    <3> QED BY <1>4, <3>1
  <2>2. CASE n # 0
    <3>1. freeListHead = s[n] /\ n \in 1..n
      BY <1>2, <1>3, <2>2 DEF Stack
    <3>2. Upper(0) = {n}
      BY <1>3, <3>1
    <3> HIDE DEF Upper
    <3> QED BY <1>3, <1>4, <3>1, <3>2
  <2> QED BY <2>1, <2>2
<1>7. ASSUME NEW k \in T PROVE k + 1 \in T
  <2>1. k \in Nat /\ reached[k] \ {Null} = Top(k)
    OBVIOUS
  <2>2. reached[k + 1] = reached[k] \cup {freeListNext[b] : b \in Top(k)}
    BY <1>4, <2>1
  <2>3. \A i \in Upper(k) : /\ i \in Upper(k + 1)
                            /\ \/ freeListNext[s[i]] = Null
                               \/ i - 1 \in Upper(k + 1) /\ freeListNext[s[i]] = s[i - 1]
    BY <1>2, <1>3, <2>1 DEF Stack
  <2>4. \A i \in Upper(k + 1) : i \in Upper(k) \/ (i + 1 \in Upper(k) /\ freeListNext[s[i + 1]] = s[i])
    <3> SUFFICES ASSUME NEW i \in Upper(k + 1), i \notin Upper(k)
                 PROVE  i + 1 \in Upper(k) /\ freeListNext[s[i + 1]] = s[i]
      OBVIOUS
    <3>1. i \in Nat /\ i >= 1 /\ i + k + 1 = n
      BY <1>3, <2>1
    <3>2. i + 1 \in Upper(k) /\ i + 1 \in 1..n /\ i + 1 # 1 /\ (i + 1) - 1 = i
      BY <1>3, <2>1, <3>1
    <3>3. freeListNext[s[i + 1]] = s[(i + 1) - 1]
      BY <1>2, <3>2 DEF Stack
    <3> QED BY <3>2, <3>3
  <2>5. \A i \in Upper(k + 1) : s[i] \in Blocks /\ s[i] # Null
    BY <1>5, <2>1
  <2>6. k + 1 \in Nat
    BY <2>1
  <2> HIDE DEF Upper
  <2>7. ASSUME NEW c \in reached[k + 1] \ {Null} PROVE c \in Top(k + 1)
    <3>1. CASE c \in reached[k]
      BY <2>1, <2>3, <3>1
    <3>2. CASE c \in {freeListNext[b] : b \in Top(k)}
      <4>1. PICK i \in Upper(k) : c = freeListNext[s[i]]
        BY <3>2
      <4> QED BY <2>3, <4>1
    <3> QED BY <2>2, <3>1, <3>2
  <2>8. ASSUME NEW i \in Upper(k + 1) PROVE s[i] \in reached[k + 1] \ {Null}
    <3>1. CASE i \in Upper(k)
      BY <2>1, <2>2, <2>5, <3>1
    <3>2. CASE i + 1 \in Upper(k) /\ freeListNext[s[i + 1]] = s[i]
      BY <2>2, <2>5, <3>2
    <3> QED BY <2>4, <3>1, <3>2
  <2>9. reached[k + 1] \ {Null} = Top(k + 1)
    BY <2>7, <2>8
  <2> QED BY <2>6, <2>9
<1>8. T = Nat
  <2>1. T \in SUBSET Nat
    OBVIOUS
  <2> HIDE DEF T
  <2> QED BY <1>6, <1>7, <2>1, InductionOverNat
<1>9. listed = Top(initialBlockPoolSize)
  <2>1. initialBlockPoolSize \in T
    BY <1>3, <1>8
  <2> QED BY <2>1 DEF listed
<1>10. Upper(initialBlockPoolSize) = 1..n
  BY <1>3
<1> HIDE DEF Upper
<1> QED BY <1>2, <1>9, <1>10 DEF Stack

\* What a thread holds is its own.
LEMMA HoldsIsMine ==
  ASSUME PoolConstants, PoolInv, NEW t \in Callers, NEW b \in holds(t)
  PROVE  mine(t, b) /\ b \in Blocks
<1>1. own[t] \in SUBSET Blocks /\ (local[t].pc \in Adds \cup Links => local[t].node \in Blocks)
  BY DEF PoolInv, PoolTypes, NextIsCurrent, Adds, Links
<1>2. CASE b \in own[t]
  BY <1>1, <1>2 DEF mine
<1>3. CASE b \notin own[t]
  BY <1>1, <1>3 DEF holds, mine, is, Adds, Links
<1> QED BY <1>2, <1>3

\* How many threads refer to a block.
LEMMA FewRefer ==
  ASSUME PoolConstants, NEW b
  PROVE  /\ Cardinality(Referring(b)) \in Nat
         /\ Cardinality(Referring(b)) < SHOULD_BE_ON_FREELIST - 1
         /\ Cardinality(Referring(b)) = 0 <=> Referring(b) = {}
<1>1. Referring(b) \in SUBSET Callers
  BY DEF Referring
<1> QED BY <1>1, Threadsets, PoolFacts

LEMMA OwnedOnce ==
  ASSUME PoolConstants, PoolInv
  PROVE  OneOwner
<1>1. PICK L \in SUBSET Blocks : Chained(L) /\ Tally(L)
  BY TheList
<1>2. listed = L
  BY <1>1, ListedIs
<1>3. \A b \in Blocks : OnePlace(b, L) /\ RefsAdd(b, L)
  BY <1>1 DEF Tally
<1>4. SHOULD_BE_ON_FREELIST \in Nat /\ initialBlockPoolSize \in Nat
  BY PoolFacts
<1>5. FLTypeOK
  <2>1. ASSUME NEW b \in Blocks PROVE freeListRefs[b] \in 0..(2 * SHOULD_BE_ON_FREELIST - 1)
    <3>1. RefsAdd(b, L)
      BY <1>3
    <3>2. freeListRefs[b] \in Nat /\ freeListRefs[b] <= SHOULD_BE_ON_FREELIST + Cardinality(Referring(b))
      <4>1. PICK n \in Nat : n = Cardinality(Referring(b))
        BY FewRefer
      <4>2. freeListRefs[b] \in {0, n, n + 1, SHOULD_BE_ON_FREELIST, SHOULD_BE_ON_FREELIST + n}
        BY <3>1, <4>1, Mine DEF RefsAdd
      <4>3. SHOULD_BE_ON_FREELIST > 0
        BY FewRefer, <1>4
      <4> QED BY <1>4, <4>1, <4>2, <4>3
    <3> QED BY <1>4, <3>2, FewRefer
  <2>2. freeListRefs \in [Blocks -> 0..(2 * SHOULD_BE_ON_FREELIST - 1)]
    <3>1. freeListRefs \in [Blocks -> Nat]
      BY DEF PoolInv, PoolTypes
    <3> QED BY <2>1, <3>1
  <2>3. initialBlockPoolIndex \in 0..(initialBlockPoolSize + Cardinality(Callers))
    <3>1. Cardinality(AtPool) \in Nat
      <4>1. AtPool \in SUBSET Callers
        BY DEF AtPool
      <4> QED BY <4>1, Threadsets
    <3> QED BY <1>4, <3>1, PoolFacts DEF PoolInv, PoolTypes
  <2> QED BY <2>2, <2>3 DEF FLTypeOK, PoolInv, PoolTypes
<1>6. NotMarkedWhenTaken
  <2> SUFFICES ASSUME NEW t \in Callers, at(t, "got")
               PROVE  freeListRefs[local[t].node] < SHOULD_BE_ON_FREELIST
    BY DEF NotMarkedWhenTaken
  <2>1. PICK b \in Blocks : b = local[t].node
    BY DEF PoolInv, NextIsCurrent, at
  <2>2. is(t, Links, b)
    BY <2>1 DEF is, at, Links
  <2>3. freeListRefs[b] = Cardinality(Referring(b)) + 1
    BY <1>3, <2>2 DEF RefsAdd
  <2> QED BY <1>4, <2>1, <2>3, FewRefer
<1>7. ASSUME NEW t \in Callers PROVE holds(t) \cap listed = {}
  BY <1>2, <1>3, HoldsIsMine DEF OnePlace
<1>8. ASSUME NEW t \in Callers, NEW u \in Callers, t # u PROVE holds(t) \cap holds(u) = {}
  BY <1>3, <1>8, HoldsIsMine DEF OnePlace
<1>9. ASSUME NEW b \in Blocks, b \in L PROVE freeListRefs[b] % SHOULD_BE_ON_FREELIST # 0
  <2>1. PICK n \in Nat : n = Cardinality(Referring(b))
    BY FewRefer
  <2>2. freeListRefs[b] = n + 1 /\ n + 1 \in Nat /\ n + 1 < SHOULD_BE_ON_FREELIST
    BY <1>3, <1>4, <1>9, <2>1, FewRefer DEF RefsAdd
  <2> QED BY <2>2, Residues
<1> QED BY <1>2, <1>5, <1>6, <1>7, <1>8, <1>9 DEF OneOwner

LEMMA AccountedFor ==
  ASSUME PoolConstants, PoolInv
  PROVE  NothingLost
<1> SUFFICES ASSUME \A t \in Callers : at(t, "out")
             PROVE  /\ Blocks = {b \in Blocks : b >= initialBlockPoolIndex} \cup listed \cup UNION {own[t] : t \in Callers}
                    /\ \A b \in Blocks : freeListRefs[b] = IF b \in listed THEN 1 ELSE 0
  BY DEF NothingLost
<1>1. PICK L \in SUBSET Blocks : Chained(L) /\ Tally(L)
  BY TheList
<1>2. listed = L
  BY <1>1, ListedIs
<1>3. \A t \in Callers : \A b : ~is(t, Refers, b) /\ ~is(t, Adds, b) /\ ~is(t, Links, b)
  BY DEF at, is, Refers, Adds, Links
<1>4. own \in [Callers -> SUBSET Blocks]
  BY DEF PoolInv, PoolTypes
<1>5. ASSUME NEW b \in Blocks
      PROVE  /\ inPool(b) \/ b \in L \/ \E t \in Callers : b \in own[t]
             /\ freeListRefs[b] = IF b \in L THEN 1 ELSE 0
  <2>1. OnePlace(b, L) /\ RefsAdd(b, L)
    BY <1>1 DEF Tally
  <2>2. Cardinality(Referring(b)) = 0
    <3>1. Referring(b) = {}
      BY <1>3 DEF Referring
    <3> QED BY <3>1, FewRefer
  <2>3. \A t \in Callers : mine(t, b) <=> b \in own[t]
    BY <1>3, Mine
  <2>4. inPool(b) \/ b \in L \/ \E t \in Callers : b \in own[t]
    BY <2>1, <2>2, <2>3 DEF RefsAdd
  <2>5. freeListRefs[b] = IF b \in L THEN 1 ELSE 0
    BY <2>1, <2>2, <2>4 DEF RefsAdd
  <2> QED BY <2>4, <2>5
<1>6. Blocks \subseteq {b \in Blocks : b >= initialBlockPoolIndex} \cup L \cup UNION {own[t] : t \in Callers}
  BY <1>5 DEF inPool
<1>7. UNION {own[t] : t \in Callers} \subseteq Blocks
  BY <1>4
<1> QED BY <1>2, <1>5, <1>6, <1>7

\* The inductive invariant of the free list and the pool.
THEOREM PoolInvariant == FLSpec => []PoolInv
<1>1. FLInit => PoolInv
  BY PoolInit, PoolAssumption
<1>2. PoolInv /\ [FLNext]_flVars => PoolInv'
  BY PoolNext, PoolAssumption
<1> QED BY <1>1, <1>2, PTL DEF FLSpec

\* A block that threads get from the pool or from the list (try_get), give back
\* (add) or put back for another (the last reference of a block with the bit) has
\* one owner at any time, however the threads meet and whatever comes back to the
\* head of the list meanwhile.
THEOREM OneOwnerAlways == FLSpec => []OneOwner
<1>1. PoolInv => OneOwner
  BY OwnedOnce, PoolAssumption
<1> QED BY <1>1, PoolInvariant, PTL

\* No block gets lost between those who drop the last reference and those who
\* give it back.
THEOREM NothingLostEver == FLSpec => []NothingLost
<1>1. PoolInv => NothingLost
  BY AccountedFor, PoolAssumption
<1> QED BY <1>1, PoolInvariant, PTL
=============================================================================
