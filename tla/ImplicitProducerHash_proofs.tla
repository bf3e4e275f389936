--------------------- MODULE ImplicitProducerHash_proofs ---------------------
(***************************************************************************)
(* Proof that a thread which enqueues finds its own producer in the hash   *)
(* tables of a ConcurrentQueue and shares it with no other thread, for any *)
(* number of threads, any hashes, sizes, failures and exits.  The          *)
(* inductive invariant is HashInv.                                         *)
(***************************************************************************)
EXTENDS ImplicitProducerHash, SequenceTheorems, ProofRules

(***************************************************************************)
(* Numbers: the probing order and the size of a new table.                 *)
(***************************************************************************)
(* How far a slot is from the slot a of the hash in a table of c slots: slot a
   is the nearest, no two are equally far, and the next slot is one farther
   unless probing has come all the way round. *)
LEMMA ProbeOrder ==
  ASSUME NEW c \in Nat \ {0}, NEW a \in 0..(c - 1), NEW i \in 0..(c - 1)
  PROVE  /\ (i + c - a) % c \in 0..(c - 1)
         /\ (a + c - a) % c = 0
         /\ \A j \in 0..(c - 1) : (i + c - a) % c = (j + c - a) % c => i = j
         /\ (i + 1) % c \in 0..(c - 1)
         /\ \/ (i + c - a) % c = c - 1
            \/ (((i + 1) % c) + c - a) % c = ((i + c - a) % c) + 1
<1>1. \A j \in 0..(c - 1) : (j + c - a) % c = IF j < a THEN j + c - a ELSE j - a
  <2> TAKE j \in 0..(c - 1)
  <2> DEFINE x == j + c - a
  <2>1. x \in 0..(2 * c - 1)
    OBVIOUS
  <2>2. x % c = IF x < c THEN x ELSE x - c
    <3> HIDE DEF x
    <3> QED
      BY <2>1, WrapsOnce
  <2> QED
    BY <2>2
<1>2. (i + 1) % c = IF i + 1 < c THEN i + 1 ELSE 0
  <2> DEFINE x == i + 1
  <2>1. x \in 0..(2 * c - 1)
    OBVIOUS
  <2>2. x % c = IF x < c THEN x ELSE x - c
    <3> HIDE DEF x
    <3> QED
      BY <2>1, WrapsOnce
  <2> QED
    BY <2>2
<1>3. (i + 1) % c \in 0..(c - 1)
  BY <1>2
<1> DEFINE n == (i + 1) % c
           D(j) == (j + c - a) % c
<1>4. /\ D(i) = IF i < a THEN i + c - a ELSE i - a
      /\ D(a) = 0
      /\ D(n) = IF n < a THEN n + c - a ELSE n - a
      /\ \A j \in 0..(c - 1) : D(j) = IF j < a THEN j + c - a ELSE j - a
  BY <1>1, <1>3
<1>5. n = IF i + 1 < c THEN i + 1 ELSE 0
  BY <1>2
<1> HIDE DEF n, D
<1>6. D(i) \in 0..(c - 1) /\ \A j \in 0..(c - 1) : D(i) = D(j) => i = j
  BY <1>4
<1>7. D(i) = c - 1 \/ D(n) = D(i) + 1
  BY <1>4, <1>5
<1> QED
  BY <1>3, <1>4, <1>6, <1>7 DEF n, D

(* The powers of two. *)
LEMMA TwoTo ==
  /\ twoTo \in [Nat -> Nat] /\ twoTo[0] = 1
  /\ \A k \in Nat : twoTo[k + 1] = 2 * twoTo[k]
<1> DEFINE F == [x \in Nat |-> 2 * x]
           Def(f) == f = [k \in Nat |-> IF k = 0 THEN 1 ELSE 2 * f[k - 1]]
<1>1. PICK f \in [Nat -> Nat] : f[0] = 1 /\ \A k \in Nat : f[k + 1] = F[f[k]]
  <2> DEFINE V == Nat
             a == 1
  <2>1. a \in V /\ F \in [V -> V]
    OBVIOUS
  <2>2. \E f \in [Nat -> V] : f[0] = a /\ \A k \in Nat : f[k + 1] = F[f[k]]
    <3> HIDE DEF F, V, a
    <3> QED
      BY <2>1, RecursionOverNat
  <2> QED
    BY <2>2
<1>2. Def(f)
  <2>1. ASSUME NEW k \in Nat PROVE f[k] = IF k = 0 THEN 1 ELSE 2 * f[k - 1]
    <3>1. CASE k = 0
      BY <1>1, <3>1
    <3>2. CASE k # 0
      <4>1. k - 1 \in Nat /\ f[(k - 1) + 1] = F[f[k - 1]]
        BY <1>1, <3>2
      <4> QED
        BY <3>2, <4>1
    <3> QED
      BY <3>1, <3>2
  <2>2. f = [k \in Nat |-> f[k]]
    OBVIOUS
  <2> QED
    BY <2>1, <2>2
<1>3. Def(twoTo)
  <2>1. twoTo = CHOOSE g : Def(g)
    BY DEF twoTo
  <2> HIDE DEF Def
  <2> QED
    BY <1>2, <2>1
<1> HIDE DEF F
<1>4. twoTo[0] = 1 /\ \A k \in Nat : twoTo[k + 1] = 2 * twoTo[k]
  <2>1. \A k \in Nat : twoTo[k] = IF k = 0 THEN 1 ELSE 2 * twoTo[k - 1]
    BY <1>3, Zenon
  <2>2. twoTo[0] = 1
    BY <2>1
  <2>3. ASSUME NEW k \in Nat PROVE twoTo[k + 1] = 2 * twoTo[k]
    <3>1. k + 1 \in Nat /\ k + 1 # 0 /\ (k + 1) - 1 = k
      OBVIOUS
    <3> QED
      BY <2>1, <3>1
  <2> QED
    BY <2>2, <2>3
<1>5. \A k \in Nat : twoTo[k] \in Nat
  <2> DEFINE T == {k \in Nat : twoTo[k] \in Nat}
  <2>1. T \in SUBSET Nat /\ 0 \in T /\ \A n \in T : n + 1 \in T
    BY <1>4
  <2>2. T = Nat
    <3> HIDE DEF T
    <3> QED
      BY <2>1, InductionOverNat
  <2> QED
    BY <2>2
<1>6. twoTo = [k \in Nat |-> twoTo[k]]
  BY <1>3, Zenon
<1> QED
  BY <1>4, <1>5, <1>6

(* They outgrow their exponents. *)
LEMMA TwoToGrows == \A k \in Nat : twoTo[k] >= k + 1
<1> DEFINE T == {k \in Nat : twoTo[k] >= k + 1}
<1>1. T \in SUBSET Nat /\ 0 \in T
  BY TwoTo
<1>2. \A n \in T : n + 1 \in T
  <2> TAKE n \in T
  <2>1. twoTo[n + 1] = 2 * twoTo[n] /\ twoTo[n] \in Nat /\ twoTo[n] >= n + 1
    BY TwoTo
  <2> QED
    BY <2>1
<1>3. T = Nat
  <2> HIDE DEF T
  <2> QED
    BY <1>1, <1>2, InductionOverNat
<1> QED
  BY <1>3

(***************************************************************************)
(* Tables.                                                                 *)
(***************************************************************************)
(* A table of HashTypes has as many slots as its capacity says. *)
LEMMA Capacity ==
  ASSUME HashTypes, NEW h \in DOMAIN tables
  PROVE  /\ capacity(h) \in Nat \ {0, 1}
         /\ DOMAIN tables[h] = 0..(capacity(h) - 1)
         /\ \A i \in DOMAIN tables[h] : tables[h][i] \in Entry
<1>1. tables[h] \in Table
  BY DEF HashTypes
<1>2. PICK n \in Nat \ {0, 1} : tables[h] \in [0..(n - 1) -> Entry]
  BY <1>1 DEF Table
<1>3. Cardinality(0..(n - 1)) = n
  BY FS_Interval
<1> QED
  BY <1>2, <1>3 DEF capacity

(* The loop of the source that doubles the capacity ends with a capacity that
   newCount does not fill by half. *)
LEMMA NewCapacity ==
  ASSUME HashTypes, NEW t \in Threads, local[t].main \in DOMAIN tables,
         local[t].newCount # 0
  PROVE  newCapacity(local[t]) \in Nat \ {0, 1}
<1> DEFINE n == local[t].newCount
           c == capacity(local[t].main)
           T == {k \in 1..n : n < (c * twoTo[k]) \div 2}
<1>1. n \in Nat \ {0} /\ c \in Nat \ {0, 1}
  BY Capacity DEF HashTypes, Local
<1>2. \A k \in Nat : twoTo[k] \in Nat /\ twoTo[k] >= k + 1 /\ twoTo[k + 1] = 2 * twoTo[k]
  BY TwoTo, TwoToGrows
<1> HIDE DEF n, c
<1>3. ASSUME NEW k \in Nat
      PROVE  c * twoTo[k] \in Nat /\ c * twoTo[k] >= 2 * twoTo[k] /\ c * twoTo[k + 1] = 2 * (c * twoTo[k])
  <2> DEFINE x == twoTo[k]
  <2>1. x \in Nat /\ twoTo[k + 1] = 2 * x
    BY <1>2
  <2> HIDE DEF x
  <2>2. c * x \in Nat /\ c * x >= 2 * x /\ c * (2 * x) = 2 * (c * x)
    BY <1>1, <2>1, SMT
  <2> QED
    BY <2>1, <2>2 DEF x
<1>4. n \in T
  <2> DEFINE x == c * twoTo[n]
  <2>1. x \in Nat /\ x >= 2 * (n + 1)
    <3>1. x \in Nat /\ x >= 2 * twoTo[n] /\ twoTo[n] >= n + 1 /\ twoTo[n] \in Nat
      BY <1>1, <1>2, <1>3
    <3> QED
      BY <1>1, <3>1
  <2> HIDE DEF x
  <2>2. n < x \div 2
    BY <1>1, <2>1
  <2> QED
    BY <1>1, <2>2 DEF x
<1>5. PICK k \in T : \A j \in T : k <= j
  <2>1. T \in SUBSET Nat /\ T # {}
    BY <1>1, <1>4
  <2> HIDE DEF T
  <2> QED
    BY <2>1, LeastNatural
<1>6. c * twoTo[k] = 2 * c \/ n >= (c * twoTo[k]) \div 4
  <2>1. CASE k = 1
    <3>1. twoTo[0 + 1] = 2 * twoTo[0] /\ twoTo[0] = 1 /\ 0 + 1 = 1
      BY TwoTo
    <3> QED
      BY <1>1, <2>1, <3>1
  <2>2. CASE k # 1
    <3> DEFINE x == c * twoTo[k - 1]
    <3>1. k - 1 \in 1..n /\ k - 1 \in Nat /\ (k - 1) + 1 = k
      BY <1>1, <2>2
    <3>2. ~(n < x \div 2)
      BY <1>1, <1>5, <3>1
    <3>3. x \in Nat /\ c * twoTo[k] = 2 * x
      BY <1>3, <3>1
    <3> HIDE DEF x
    <3> QED
      BY <1>1, <3>2, <3>3
  <2> QED
    BY <2>1, <2>2
<1> DEFINE C == {c * twoTo[j] : j \in 1..n}
           Fit(d) == n < d \div 2 /\ (d = 2 * c \/ n >= d \div 4)
<1>7. c * twoTo[k] \in C /\ Fit(c * twoTo[k])
  BY <1>5, <1>6
<1>8. newCapacity(local[t]) = CHOOSE d \in C : Fit(d)
  BY DEF newCapacity, n, c
<1>9. newCapacity(local[t]) \in C /\ Fit(newCapacity(local[t]))
  <2> HIDE DEF C, Fit
  <2> QED
    BY <1>7, <1>8
<1>10. PICK j \in 1..n : newCapacity(local[t]) = c * twoTo[j]
  BY <1>9
<1>11. j \in Nat /\ c * twoTo[j] \in Nat /\ c * twoTo[j] >= 2 * twoTo[j] /\ twoTo[j] \in Nat /\ twoTo[j] >= j + 1
  BY <1>1, <1>2, <1>3
<1> QED
  BY <1>10, <1>11

(* What a step of thread t may do to the tables: no other thread's entry changes,
   no slot becomes empty, a new table has no entry. *)
Touches(t) ==
  /\ DOMAIN tables \subseteq DOMAIN tables'
  /\ \A h \in DOMAIN tables :
       /\ DOMAIN tables'[h] = DOMAIN tables[h]
       /\ \A i \in DOMAIN tables[h] :
            /\ tables'[h][i].key = invalid_thread_id => tables[h][i].key = invalid_thread_id
            /\ \A u \in Threads \ {t} :
                 /\ tables'[h][i].key = u <=> tables[h][i].key = u
                 /\ tables'[h][i].key = u => tables'[h][i].value = tables[h][i].value
  /\ \A h \in DOMAIN tables' \ DOMAIN tables : \A u \in Threads : slots(h, u)' = {}

(* In tables that keep their shape the distances stay as they are. *)
LEMMA SameDistance ==
  ASSUME NEW t \in Threads, Touches(t), NEW h \in DOMAIN tables, NEW u \in Threads, NEW i
  PROVE  distance(u, h, i)' = distance(u, h, i)
BY DEF Touches, distance, capacity

(* A slot is written: the other slots are as before. *)
LEMMA Written ==
  ASSUME HashTypes, NEW h \in DOMAIN tables, NEW i \in DOMAIN tables[h], NEW e \in Entry,
         tables' = [tables EXCEPT ![h][i] = e]
  PROVE  /\ tables' \in Seq(Table) /\ Len(tables') = Len(tables)
         /\ \A g \in DOMAIN tables :
              /\ DOMAIN tables'[g] = DOMAIN tables[g]
              /\ \A j \in DOMAIN tables[g] :
                   tables'[g][j] = IF g = h /\ j = i THEN e ELSE tables[g][j]
<1> DEFINE new == [tables[h] EXCEPT ![i] = e]
<1>1. tables \in Seq(Table) /\ h \in 1..Len(tables) /\ tables[h] \in Table
  BY DEF HashTypes
<1>2. PICK n \in Nat \ {0, 1} : tables[h] \in [0..(n - 1) -> Entry]
  BY <1>1 DEF Table
<1>3. new \in [0..(n - 1) -> Entry] /\ \A j \in DOMAIN tables[h] : new[j] = IF j = i THEN e ELSE tables[h][j]
  BY <1>2
<1>4. new \in Table /\ DOMAIN new = DOMAIN tables[h]
  BY <1>2, <1>3 DEF Table
<1>5. tables' = [tables EXCEPT ![h] = new]
  OBVIOUS
<1> HIDE DEF new
<1>6. /\ tables' \in Seq(Table) /\ Len(tables') = Len(tables)
      /\ \A g \in 1..Len(tables) : tables'[g] = IF g = h THEN new ELSE tables[g]
  <2>1. Len(tables) \in Nat /\ tables \in [1..Len(tables) -> Table]
    BY <1>1
  <2>2. tables' \in [1..Len(tables) -> Table]
    BY <1>1, <1>4, <1>5, <2>1
  <2>3. tables' \in Seq(Table) /\ Len(tables') = Len(tables)
    BY <2>1, <2>2
  <2> QED
    BY <1>5, <2>1, <2>3
<1>7. DOMAIN tables = 1..Len(tables)
  BY <1>1
<1> QED
  BY <1>3, <1>4, <1>6, <1>7

(* The tables stay as they are. *)
LEMMA NotTouched ==
  ASSUME HashTypes, NEW t \in Threads, tables' = tables
  PROVE  Touches(t) /\ tables' \in Seq(Table) /\ Len(tables') > 0
BY DEF Touches, HashTypes

(* Thread t fills a slot that is empty or reusable. *)
LEMMA Filled ==
  ASSUME HashTypes, NEW t \in Threads, local[t].hash \in DOMAIN tables,
         local[t].index \in DOMAIN tables[local[t].hash],
         slot(t).key \in {invalid_thread_id, invalid_thread_id2},
         NEW v \in 0..MaxProducers, fill(t, t, v)
  PROVE  /\ Touches(t) /\ tables' \in Seq(Table) /\ Len(tables') = Len(tables)
         /\ \A g \in DOMAIN tables : \A j \in DOMAIN tables[g] :
              tables'[g][j] = IF g = local[t].hash /\ j = local[t].index
                              THEN [key |-> t, value |-> v] ELSE tables[g][j]
<1> DEFINE e == [key |-> t, value |-> v]
           h == local[t].hash
           i == local[t].index
<1>1. e \in Entry
  BY DEF Entry
<1>2. tables' = [tables EXCEPT ![h][i] = e]
  BY DEF fill
<1>3. /\ tables' \in Seq(Table) /\ Len(tables') = Len(tables)
      /\ \A g \in DOMAIN tables :
           /\ DOMAIN tables'[g] = DOMAIN tables[g]
           /\ \A j \in DOMAIN tables[g] : tables'[g][j] = IF g = h /\ j = i THEN e ELSE tables[g][j]
  <2> HIDE DEF e, h, i
  <2> QED
    BY <1>1, <1>2, Written DEF h, i
<1>4. DOMAIN tables' = DOMAIN tables
  BY <1>3 DEF HashTypes
<1>5. tables[h][i].key \notin Threads
  BY IdAssumption DEF slot
<1>6. Touches(t)
  BY <1>3, <1>4, <1>5, IdAssumption DEF Touches
<1> QED
  BY <1>3, <1>6

(* Thread t makes its own entry reusable. *)
LEMMA Forgotten ==
  ASSUME HashTypes, NEW t \in Threads, NEW h \in DOMAIN tables, NEW i \in slots(h, t),
         NEW e \in Entry, e.key = invalid_thread_id2, tables' = [tables EXCEPT ![h][i] = e]
  PROVE  /\ Touches(t) /\ tables' \in Seq(Table) /\ Len(tables') = Len(tables)
         /\ \A g \in DOMAIN tables : \A j \in DOMAIN tables[g] :
              /\ g = h /\ j = i => tables'[g][j].key = invalid_thread_id2
              /\ ~(g = h /\ j = i) => tables'[g][j] = tables[g][j]
<1>1. i \in DOMAIN tables[h] /\ tables[h][i].key = t
  BY DEF slots
<1>2. /\ tables' \in Seq(Table) /\ Len(tables') = Len(tables)
      /\ \A g \in DOMAIN tables :
           /\ DOMAIN tables'[g] = DOMAIN tables[g]
           /\ \A j \in DOMAIN tables[g] : tables'[g][j] = IF g = h /\ j = i THEN e ELSE tables[g][j]
  BY <1>1, Written
<1>3. DOMAIN tables' = DOMAIN tables
  BY <1>2 DEF HashTypes
<1>4. Touches(t)
  BY <1>1, <1>2, <1>3, IdAssumption DEF Touches
<1> QED
  BY <1>2, <1>4

(* A larger table is put before the others. *)
LEMMA Grown ==
  ASSUME HashTypes, NEW t \in Threads, NEW n \in Nat \ {0, 1},
         tables' = Append(tables, emptyTable(n))
  PROVE  /\ Touches(t) /\ tables' \in Seq(Table) /\ Len(tables') = Len(tables) + 1
         /\ \A g \in DOMAIN tables : tables'[g] = tables[g]
<1> DEFINE e == emptyTable(n)
<1>1. e \in [0..(n - 1) -> Entry] /\ \A i \in DOMAIN e : e[i].key = invalid_thread_id
  BY HashAssumption DEF emptyTable, Entry
<1>2. e \in Table
  BY <1>1 DEF Table
<1> HIDE DEF e
<1>3. tables \in Seq(Table) /\ tables' = Append(tables, e)
  BY DEF HashTypes, e
<1>4. /\ tables' \in Seq(Table) /\ Len(tables') = Len(tables) + 1
      /\ \A g \in 1..Len(tables) : tables'[g] = tables[g]
      /\ tables'[Len(tables) + 1] = e
  BY <1>2, <1>3, AppendProperties
<1>5. DOMAIN tables = 1..Len(tables) /\ DOMAIN tables' = 1..(Len(tables) + 1) /\ Len(tables) \in Nat
  BY <1>3, <1>4
<1>6. \A h \in DOMAIN tables' \ DOMAIN tables : \A u \in Threads : slots(h, u)' = {}
  <2> TAKE h \in DOMAIN tables' \ DOMAIN tables
  <2> TAKE u \in Threads
  <2>1. tables'[h] = e
    BY <1>4, <1>5
  <2> QED
    BY <1>1, <2>1, IdAssumption DEF slots
<1>7. Touches(t)
  BY <1>4, <1>5, <1>6 DEF Touches
<1> QED
  BY <1>4, <1>5, <1>7

(***************************************************************************)
(* A step of one thread and the other threads.                             *)
(***************************************************************************)
LEMMA SameSlots ==
  ASSUME NEW t \in Threads, Touches(t), NEW h \in DOMAIN tables
  PROVE  /\ \A u \in Threads \ {t} : slots(h, u)' = slots(h, u)
         /\ slots(h, invalid_thread_id)' \subseteq slots(h, invalid_thread_id)
<1>1. ASSUME NEW u \in Threads \ {t} PROVE slots(h, u)' = slots(h, u)
  BY DEF Touches, slots
<1>2. slots(h, invalid_thread_id)' \subseteq slots(h, invalid_thread_id)
  BY DEF Touches, slots
<1> QED
  BY <1>1, <1>2

(* What holds of a thread goes on to hold when another one does a step. *)
LEMMA Others ==
  ASSUME HashInv, NEW t \in Threads, Touches(t), NEW u \in Threads \ {t},
         own'[u] = own[u], local'[u] = local[u]
  PROVE  ThreadInv(u)'
<1>1. PlaceExists(u) /\ EntryFound(u) /\ ProbesFromHash(u) /\ ListedOrNone(u)
  BY DEF HashInv, ThreadInv
<1>2. DOMAIN tables \subseteq DOMAIN tables' /\ \A h \in DOMAIN tables : DOMAIN tables'[h] = DOMAIN tables[h]
  BY DEF Touches
<1>3. \A h \in DOMAIN tables : slots(h, u)' = slots(h, u)
  BY SameSlots
<1>4. \A h \in DOMAIN tables : slots(h, invalid_thread_id)' \subseteq slots(h, invalid_thread_id)
  BY SameSlots
<1>5. \A h \in DOMAIN tables' \ DOMAIN tables : slots(h, u)' = {}
  BY DEF Touches
<1>6. \A h \in DOMAIN tables : \A i : distance(u, h, i)' = distance(u, h, i)
  BY SameDistance
<1>7. PlaceExists(u)'
  BY <1>1, <1>2 DEF PlaceExists, at
<1>8. EntryFound(u)'
  <2> SUFFICES ASSUME NEW h \in DOMAIN tables', NEW i \in slots(h, u)'
               PROVE  /\ tables'[h][i].value = own'[u]
                      /\ \A j \in slots(h, u)' : i = j
                      /\ \A j \in slots(h, invalid_thread_id)' : distance(u, h, i)' < distance(u, h, j)'
    BY DEF EntryFound
  <2>1. h \in DOMAIN tables /\ i \in slots(h, u)
    BY <1>3, <1>5
  <2>2. /\ tables[h][i].value = own[u]
        /\ \A j \in slots(h, u) : i = j
        /\ \A j \in slots(h, invalid_thread_id) : distance(u, h, i) < distance(u, h, j)
    BY <1>1, <2>1 DEF EntryFound
  <2>3. tables'[h][i].value = tables[h][i].value
    BY <2>1 DEF Touches, slots
  <2>4. \A j \in slots(h, u)' : i = j
    BY <1>3, <2>1, <2>2
  <2>5. \A j \in slots(h, invalid_thread_id)' : distance(u, h, i)' < distance(u, h, j)'
    BY <1>4, <1>6, <2>1, <2>2
  <2> QED
    BY <2>2, <2>3, <2>4, <2>5
<1>9. ProbesFromHash(u)'
  <2> SUFFICES ASSUME local[u].pc \in {"copy", "insert"}
               PROVE  /\ local[u].producer = own[u]
                      /\ slots(local[u].hash, u)' = {}
                      /\ \A j \in slots(local[u].hash, invalid_thread_id)' :
                           distance(u, local[u].hash, local[u].index)' <= distance(u, local[u].hash, j)'
    <3>1. ASSUME NEW h, h = local[u].hash
          PROVE  /\ slots(local[u].hash, u)' = slots(h, u)'
                 /\ slots(local[u].hash, invalid_thread_id)' = slots(h, invalid_thread_id)'
      BY <3>1 DEF slots
    <3> QED
      BY DEF ProbesFromHash, slots, distance, capacity
  <2> DEFINE h == local[u].hash
  <2>1. h \in DOMAIN tables
    BY <1>1 DEF PlaceExists
  <2>2. /\ local[u].producer = own[u] /\ slots(h, u) = {}
        /\ \A j \in slots(h, invalid_thread_id) : distance(u, h, local[u].index) <= distance(u, h, j)
    BY <1>1 DEF ProbesFromHash
  <2>3. local'[u].hash = h /\ local'[u].index = local[u].index
    OBVIOUS
  <2>4. slots(h, u) = {} => slots(local[u].hash, u)' = {}
    BY <1>3, <2>1, <2>3 DEF slots
  <2>5. slots(local[u].hash, invalid_thread_id)' \subseteq slots(h, invalid_thread_id)
    BY <2>1, <2>3 DEF Touches, slots
  <2>6. \A j : distance(u, local[u].hash, j)' = distance(u, h, j)
    BY <2>1, <2>3 DEF Touches, distance, capacity
  <2>7. distance(u, local[u].hash, local[u].index)' = distance(u, h, local[u].index)
    BY <2>1, <2>3 DEF Touches, distance, capacity
  <2> HIDE DEF h
  <2> QED
    BY <2>2, <2>4, <2>5, <2>6, <2>7
<1>10. ListedOrNone(u)'
  BY <1>1, <1>2, <1>3, <1>5 DEF ListedOrNone, at
<1> QED
  BY <1>7, <1>8, <1>9, <1>10 DEF ThreadInv

(* The threads that are counted are finitely many; one more or one less of them
   is a difference of one. *)
LEMMA CountedFinite ==
  /\ IsFiniteSet(Counted) /\ Cardinality(Counted) \in Nat
  /\ \A t \in Counted : Cardinality(Counted \ {t}) = Cardinality(Counted) - 1
<1>1. IsFiniteSet(Counted)
  <2>1. Counted \subseteq Threads
    BY DEF Counted
  <2> QED
    BY <2>1, HashAssumption, FS_Subset
<1> QED
  BY <1>1, FS_CardinalityType, FS_RemoveElement

(* If implicitProducerHashCount changes as the stage of the thread does, it
   remains at least the number of threads that are counted. *)
LEMMA CountCovers ==
  ASSUME HashTypes, NEW t \in Threads,
         \A u \in Threads \ {t} : local'[u] = local[u],
         \/ /\ implicitProducerHashCount' = implicitProducerHashCount
            /\ t \in Counted' => t \in Counted
         \/ /\ implicitProducerHashCount' = implicitProducerHashCount + 1
         \/ /\ implicitProducerHashCount' = implicitProducerHashCount - 1
            /\ t \in Counted /\ t \notin Counted'
  PROVE  implicitProducerHashCount' \in Nat /\ implicitProducerHashCount' >= Cardinality(Counted')
<1> DEFINE C == Counted
           D == Counted'
           n == implicitProducerHashCount
<1>1. IsFiniteSet(C) /\ Cardinality(C) \in Nat /\ n \in Nat /\ n >= Cardinality(C)
  BY CountedFinite DEF HashTypes
<1>2. \A u \in Threads \ {t} : u \in D <=> u \in C
  BY DEF Counted, at
<1>3. C \subseteq Threads /\ D \subseteq Threads
  BY DEF Counted
<1>4. \A S, T : IsFiniteSet(T) /\ S \subseteq T => Cardinality(S) \in Nat /\ Cardinality(S) <= Cardinality(T)
  BY FS_Subset, FS_CardinalityType
<1> HIDE DEF C, D
<1>5. CASE n' = n /\ (t \in D => t \in C)
  <2>1. D \subseteq C
    BY <1>2, <1>3, <1>5
  <2> QED
    BY <1>1, <1>4, <1>5, <2>1 DEF D
<1>6. CASE n' = n + 1
  <2>1. D \subseteq C \cup {t} /\ IsFiniteSet(C \cup {t}) /\ Cardinality(C \cup {t}) <= Cardinality(C) + 1
    <3>1. Cardinality(C \cup {t}) = IF t \in C THEN Cardinality(C) ELSE Cardinality(C) + 1
      BY <1>1, FS_AddElement
    <3>2. IsFiniteSet(C \cup {t})
      BY <1>1, FS_AddElement
    <3> QED
      BY <1>1, <1>2, <1>3, <3>1, <3>2
  <2>2. Cardinality(D) \in Nat /\ Cardinality(D) <= Cardinality(C \cup {t}) /\ Cardinality(C \cup {t}) \in Nat
    BY <1>4, <2>1
  <2> QED
    BY <1>1, <1>6, <2>1, <2>2 DEF D
<1>7. CASE n' = n - 1 /\ t \in C /\ t \notin D
  <2>1. D \subseteq C \ {t}
    BY <1>2, <1>3, <1>7
  <2>2. IsFiniteSet(C \ {t}) /\ Cardinality(C \ {t}) = Cardinality(C) - 1
    BY <1>1, <1>7, FS_RemoveElement
  <2>3. Cardinality(D) \in Nat /\ Cardinality(D) <= Cardinality(C \ {t}) /\ Cardinality(C \ {t}) \in Nat
    BY <1>4, <2>1, <2>2
  <2> QED
    BY <1>1, <1>7, <2>2, <2>3 DEF D
<1> QED
  BY <1>5, <1>6, <1>7 DEF C, D

(* A step of t preserves HashInv if it preserves the types, keeps to its own
   entries, and leaves t itself and the producers in order. *)
LEMMA StepOfOne ==
  ASSUME HashInv, NEW t \in Threads, HashTypes', Touches(t),
         \A u \in Threads \ {t} : own'[u] = own[u] /\ local'[u] = local[u],
         ThreadInv(t)', OneProducerEach'
  PROVE  HashInv'
<1>1. ASSUME NEW u \in Threads PROVE ThreadInv(u)'
  BY Others
<1> QED
  BY <1>1 DEF HashInv

(***************************************************************************)
(* Steps that change neither tables nor producers.                         *)
(***************************************************************************)
(* implicitProducerHashCount changes as the stage of t does, which goes on with l. *)
CountFollows(t, l) ==
  LET counted(k) == \/ k.pc \in {"room", "reload", "resize", "recycle", "scan", "insert", "uncount"}
                    \/ k.pc = "unlock" /\ k.newCount # 0
  IN \/ /\ implicitProducerHashCount' = implicitProducerHashCount
        /\ counted(l) => counted(local[t])
     \/ implicitProducerHashCount' = implicitProducerHashCount + 1
     \/ /\ implicitProducerHashCount' = implicitProducerHashCount - 1
        /\ counted(local[t]) /\ ~counted(l)

LEMMA LocalTypes ==
  ASSUME HashTypes, NEW t \in Threads
  PROVE  /\ local \in [Threads -> Local] /\ local[t] \in Local /\ out \in Local
         /\ \A l \in Local : set(t, l) =>
              /\ local' \in [Threads -> Local] /\ local'[t] = l
              /\ \A u \in Threads \ {t} : local'[u] = local[u]
<1>1. local \in [Threads -> Local]
  BY DEF HashTypes
<1>2. out \in Local
  BY DEF HashTypes, Local, out, Stage, Absent, Looking
<1> QED
  BY <1>1, <1>2 DEF set

LEMMA CountStep ==
  ASSUME HashTypes, NEW t \in Threads, NEW l \in Local, set(t, l), CountFollows(t, l)
  PROVE  implicitProducerHashCount' \in Nat /\ implicitProducerHashCount' >= Cardinality(Counted')
<1>1. local'[t] = l /\ \A u \in Threads \ {t} : local'[u] = local[u]
  BY LocalTypes
<1>2. \/ /\ implicitProducerHashCount' = implicitProducerHashCount
         /\ t \in Counted' => t \in Counted
      \/ /\ implicitProducerHashCount' = implicitProducerHashCount + 1
      \/ /\ implicitProducerHashCount' = implicitProducerHashCount - 1
         /\ t \in Counted /\ t \notin Counted'
  BY <1>1 DEF CountFollows, Counted, at
<1> QED
  BY <1>1, <1>2, CountCovers

(* Such a step preserves HashInv if it preserves what HashInv says of where the
   thread itself is. *)
LEMMA QuietStep ==
  ASSUME HashInv, NEW t \in Threads, NEW l \in Local, set(t, l), CountFollows(t, l),
         UNCHANGED <<tables, listVars, own>>,
         PlaceExists(t)', ProbesFromHash(t)', ListedOrNone(t)'
  PROVE  HashInv'
<1>1. HashTypes /\ OneProducerEach /\ EntryFound(t)
  BY DEF HashInv, ThreadInv
<1>2. /\ local' \in [Threads -> Local] /\ local'[t] = l
      /\ \A u \in Threads \ {t} : local'[u] = local[u]
  BY <1>1, LocalTypes
<1>3. implicitProducerHashCount' \in Nat /\ implicitProducerHashCount' >= Cardinality(Counted')
  BY <1>1, CountStep
<1>4. HashTypes'
  BY <1>1, <1>2, <1>3 DEF HashTypes, Local, listVars
<1>5. Touches(t)
  BY <1>1, NotTouched
<1>6. EntryFound(t)'
  BY <1>1 DEF EntryFound, slots, distance, capacity
<1>7. OneProducerEach'
  BY <1>1 DEF OneProducerEach, listVars
<1> QED
  BY <1>2, <1>4, <1>5, <1>6, <1>7, StepOfOne DEF ThreadInv

(* A thread without a producer goes on looking for one, or gives up. *)
LEMMA LookingStep ==
  ASSUME HashInv, NEW t \in Threads, local[t].pc \in Looking,
         NEW l \in Local, set(t, l), CountFollows(t, l),
         UNCHANGED <<tables, listVars, own>>,
         l.pc \in Looking \cup {"out"},
         l.pc \in Looking /\ (l.pc = "unlock" => l.newCount # 0) => l.main \in DOMAIN tables,
         l.pc \in {"room", "reload", "resize"} => l.newCount # 0
  PROVE  HashInv'
<1>1. HashTypes /\ ListedOrNone(t)
  BY DEF HashInv, ThreadInv
<1>2. local'[t] = l
  BY <1>1, LocalTypes
<1>3. own[t] = 0 /\ \A h \in DOMAIN tables : slots(h, t) = {}
  BY <1>1 DEF ListedOrNone, Absent
<1>4. PlaceExists(t)' /\ ProbesFromHash(t)'
  BY <1>2 DEF PlaceExists, ProbesFromHash, at, Looking
<1>5. ListedOrNone(t)'
  <2>1. own'[t] = 0 /\ \A h \in DOMAIN tables' : slots(h, t)' = {}
    BY <1>3 DEF slots
  <2> QED
    BY <1>2, <2>1 DEF ListedOrNone, at, Looking
<1> QED
  BY <1>4, <1>5, QuietStep

(* The steps between the lookup and the choice of a producer. *)
LEMMA LookingActions ==
  ASSUME HashInv, NEW t \in Threads,
         \/ countOne(t) \/ lockResize(t) \/ noResize(t) \/ reload(t)
         \/ unlockResize(t) \/ resizeFails(t) \/ createFails(t)
  PROVE  HashInv'
<1>1. HashTypes /\ PlaceExists(t)
  BY DEF HashInv, ThreadInv
<1>2. local[t] \in Local /\ out \in Local
  BY <1>1, LocalTypes
<1>3. /\ implicitProducerHashCount + 1 \in Nat /\ implicitProducerHashCount + 1 # 0
      /\ implicitProducerHash \in Nat /\ implicitProducerHash \in DOMAIN tables
  BY <1>1 DEF HashTypes, implicitProducerHash
<1>4. CASE countOne(t)
  <2> DEFINE l == [out EXCEPT !.pc = "room", !.main = local[t].main, !.newCount = implicitProducerHashCount + 1]
  <2>1. l \in Local /\ l.pc = "room" /\ l.main = local[t].main /\ l.newCount # 0
    <3> DEFINE n == implicitProducerHashCount + 1
    <3> HIDE DEF n
    <3>1. n \in Nat /\ n # 0
      BY <1>3 DEF n
    <3>2. l = [out EXCEPT !.pc = "room", !.main = local[t].main, !.newCount = n]
      BY DEF n
    <3> HIDE DEF l
    <3> QED
      BY <1>2, <3>1, <3>2 DEF Local, out, Stage, Absent, Looking
  <2>2. set(t, l) /\ local[t].pc = "count" /\ UNCHANGED <<tables, listVars, own>>
    BY <1>4 DEF countOne, at
  <2>3. local[t].main \in DOMAIN tables
    BY <1>1, <2>2 DEF PlaceExists, Looking, at
  <2>4. CountFollows(t, l)
    BY <1>4 DEF countOne, CountFollows
  <2> HIDE DEF l
  <2> QED
    BY <2>1, <2>2, <2>3, <2>4, LookingStep DEF Looking
<1>5. CASE lockResize(t)
  <2> DEFINE l == [local[t] EXCEPT !.pc = "resize", !.main = implicitProducerHash]
  <2>1. l \in Local /\ l.pc = "resize" /\ l.main \in DOMAIN tables /\ l.newCount = local[t].newCount
    BY <1>2, <1>3 DEF Local, Stage, Absent, Looking
  <2>2. set(t, l) /\ local[t].pc = "room" /\ UNCHANGED <<tables, listVars, own>>
    BY <1>5 DEF lockResize, at
  <2>3. local[t].newCount # 0
    BY <1>1, <2>2 DEF PlaceExists
  <2> HIDE DEF l
  <2>4. CountFollows(t, l)
    BY <1>5, <2>1, <2>2 DEF lockResize, CountFollows
  <2> QED
    BY <2>1, <2>2, <2>3, <2>4, LookingStep DEF Looking
<1>6. CASE noResize(t)
  <2> DEFINE l == IF fits(local[t]) THEN [local[t] EXCEPT !.pc = "recycle", !.newCount = 0]
                  ELSE [local[t] EXCEPT !.pc = "reload"]
  <2>1. /\ l \in Local /\ l.pc \in {"recycle", "reload"} /\ l.main = local[t].main
        /\ l.pc = "reload" => l.newCount = local[t].newCount
    BY <1>2 DEF Local, Stage, Absent, Looking
  <2>2. set(t, l) /\ local[t].pc = "room" /\ UNCHANGED <<tables, listVars, own>>
    BY <1>6 DEF noResize, at
  <2>3. local[t].newCount # 0 /\ local[t].main \in DOMAIN tables
    BY <1>1, <2>2 DEF PlaceExists, Looking, at
  <2> HIDE DEF l
  <2>4. CountFollows(t, l)
    BY <1>6, <2>1, <2>2 DEF noResize, CountFollows
  <2> QED
    BY <2>1, <2>2, <2>3, <2>4, LookingStep DEF Looking
<1>7. CASE reload(t)
  <2> DEFINE l == [local[t] EXCEPT !.pc = "room", !.main = implicitProducerHash]
  <2>1. l \in Local /\ l.pc = "room" /\ l.main \in DOMAIN tables /\ l.newCount = local[t].newCount
    BY <1>2, <1>3 DEF Local, Stage, Absent, Looking
  <2>2. set(t, l) /\ local[t].pc = "reload" /\ UNCHANGED <<tables, listVars, own>>
    BY <1>7 DEF reload, at
  <2>3. local[t].newCount # 0
    BY <1>1, <2>2 DEF PlaceExists
  <2> HIDE DEF l
  <2>4. CountFollows(t, l)
    BY <1>7, <2>1, <2>2 DEF reload, CountFollows
  <2> QED
    BY <2>1, <2>2, <2>3, <2>4, LookingStep DEF Looking
<1>8. CASE unlockResize(t)
  <2> DEFINE l == IF local[t].newCount = 0 THEN out ELSE [local[t] EXCEPT !.pc = "recycle", !.newCount = 0]
  <2>1. /\ l \in Local /\ l.pc \in {"out", "recycle"}
        /\ l.pc = "recycle" => local[t].newCount # 0 /\ l.main = local[t].main
    BY <1>2 DEF Local, Stage, Absent, Looking, out
  <2>2. set(t, l) /\ local[t].pc = "unlock" /\ UNCHANGED <<tables, listVars, own>>
    BY <1>8 DEF unlockResize, at
  <2>3. local[t].newCount # 0 => local[t].main \in DOMAIN tables
    BY <1>1, <2>2 DEF PlaceExists, Looking, at
  <2> HIDE DEF l
  <2>4. CountFollows(t, l)
    BY <1>8, <2>1, <2>2 DEF unlockResize, CountFollows
  <2> QED
    BY <2>1, <2>2, <2>3, <2>4, LookingStep DEF Looking
<1>9. CASE resizeFails(t)
  <2> DEFINE l == [out EXCEPT !.pc = "unlock"]
  <2>1. l \in Local /\ l.pc = "unlock" /\ l.newCount = 0
    BY <1>2 DEF Local, Stage, Absent, Looking, out
  <2>2. set(t, l) /\ local[t].pc = "resize" /\ UNCHANGED <<tables, listVars, own>>
    BY <1>9 DEF resizeFails, at
  <2> HIDE DEF l
  <2>3. CountFollows(t, l)
    BY <1>9, <2>1, <2>2 DEF resizeFails, CountFollows
  <2> QED
    BY <2>1, <2>2, <2>3, LookingStep DEF Looking
<1>10. CASE createFails(t)
  <2>1. set(t, out) /\ local[t].pc \in {"recycle", "scan"} /\ UNCHANGED <<tables, listVars, own>>
    BY <1>10 DEF createFails
  <2>2. out.pc = "out"
    BY DEF out
  <2>3. CountFollows(t, out)
    BY <1>10, <2>1, <2>2 DEF createFails, CountFollows
  <2> QED
    BY <1>2, <2>1, <2>2, <2>3, LookingStep DEF Looking
<1> QED
  BY <1>4, <1>5, <1>6, <1>7, <1>8, <1>9, <1>10

(***************************************************************************)
(* Probing.                                                                *)
(***************************************************************************)
(* ProbeOrder for the slots of a table. *)
LEMMA Distances ==
  ASSUME HashTypes, NEW t \in Threads, NEW h \in DOMAIN tables
  PROVE  LET home == hash_thread_id[t] % capacity(h)
             next(i) == (i + 1) % capacity(h)
         IN  /\ home \in DOMAIN tables[h] /\ home \in Nat /\ distance(t, h, home) = 0
             /\ \A i \in DOMAIN tables[h] :
                  /\ distance(t, h, i) \in 0..(capacity(h) - 1)
                  /\ \A j \in DOMAIN tables[h] : distance(t, h, i) = distance(t, h, j) => i = j
                  /\ next(i) \in DOMAIN tables[h] /\ next(i) \in Nat
                  /\ \/ distance(t, h, i) = capacity(h) - 1
                     \/ distance(t, h, next(i)) = distance(t, h, i) + 1
<1> DEFINE c == capacity(h)
           a == hash_thread_id[t] % c
           D == DOMAIN tables[h]
<1>1. c \in Nat \ {0} /\ D = 0..(c - 1)
  BY Capacity
<1>2. \A i : distance(t, h, i) = (i + c - a) % c
  BY DEF distance
<1>3. a \in 0..(c - 1)
  <2>1. hash_thread_id[t] \in Int
    BY HashAssumption
  <2> HIDE DEF c
  <2> QED
    BY <1>1, <2>1, DivMod
<1> HIDE DEF c, a, D
<1>4. \A i \in D : /\ (i + c - a) % c \in 0..(c - 1)
                   /\ (a + c - a) % c = 0
                   /\ \A j \in D : (i + c - a) % c = (j + c - a) % c => i = j
                   /\ (i + 1) % c \in 0..(c - 1)
                   /\ \/ (i + c - a) % c = c - 1
                      \/ (((i + 1) % c) + c - a) % c = ((i + c - a) % c) + 1
  BY <1>1, <1>3, ProbeOrder
<1>5. a \in D /\ a \in Nat /\ distance(t, h, a) = 0
  BY <1>1, <1>2, <1>3, <1>4
<1>6. ASSUME NEW i \in D
      PROVE  /\ distance(t, h, i) \in 0..(c - 1)
             /\ \A j \in D : distance(t, h, i) = distance(t, h, j) => i = j
             /\ (i + 1) % c \in D /\ (i + 1) % c \in Nat
             /\ \/ distance(t, h, i) = c - 1
                \/ distance(t, h, (i + 1) % c) = distance(t, h, i) + 1
  <2>1. /\ distance(t, h, i) \in 0..(c - 1)
        /\ \A j \in D : distance(t, h, i) = distance(t, h, j) => i = j
    BY <1>2, <1>4
  <2>2. (i + 1) % c \in D /\ (i + 1) % c \in Nat
    <3> DEFINE x == (i + 1) % c
    <3>1. x \in 0..(c - 1)
      BY <1>4
    <3> HIDE DEF x
    <3>2. x \in D /\ x \in Nat
      BY <1>1, <3>1
    <3> QED
      BY <3>2 DEF x
  <2>3. \/ distance(t, h, i) = c - 1
        \/ distance(t, h, (i + 1) % c) = distance(t, h, i) + 1
    BY <1>2, <1>4
  <2> QED
    BY <2>1, <2>2, <2>3
<1> QED
  BY <1>5, <1>6 DEF c, a, D

(* A lookup finds the id of the thread in a table if and only if it is there. *)
LEMMA FindsWhatIsThere ==
  ASSUME HashInv, NEW t \in Threads, NEW h \in DOMAIN tables
  PROVE  finds(t, h) <=> slots(h, t) # {}
BY DEF HashInv, ThreadInv, EntryFound, finds

(* The largest of finitely many numbers is one of them. *)
LEMMA MaxIsThere ==
  ASSUME NEW n \in Nat, NEW S, S \subseteq 1..n, S # {}
  PROVE  Max(S) \in S
<1> DEFINE T == {n - x : x \in S}
<1>1. T \in SUBSET Nat /\ T # {}
  OBVIOUS
<1>2. PICK y \in T : \A z \in T : y <= z
  <2> HIDE DEF T
  <2> QED
    BY <1>1, LeastNatural
<1>3. PICK m \in S : y = n - m
  BY <1>2
<1>4. \A x \in S : m >= x
  BY <1>2, <1>3
<1> QED
  BY <1>4 DEF Max

(* The next slot is as near as any empty one, if this one is not empty and was. *)
LEMMA ProbesOn ==
  ASSUME HashTypes, NEW t \in Threads, NEW h \in DOMAIN tables, NEW i \in DOMAIN tables[h],
         tables[h][i].key # invalid_thread_id,
         \A j \in slots(h, invalid_thread_id) : distance(t, h, i) <= distance(t, h, j)
  PROVE  LET next == (i + 1) % capacity(h)
         IN  /\ next \in DOMAIN tables[h] /\ next \in Nat
             /\ \A j \in slots(h, invalid_thread_id) : distance(t, h, next) <= distance(t, h, j)
<1> DEFINE next == (i + 1) % capacity(h)
<1>1. capacity(h) \in Nat
  BY Capacity
<1>2. /\ distance(t, h, i) \in 0..(capacity(h) - 1)
      /\ \A j \in DOMAIN tables[h] : distance(t, h, i) = distance(t, h, j) => i = j
      /\ next \in DOMAIN tables[h] /\ next \in Nat
      /\ \/ distance(t, h, i) = capacity(h) - 1
         \/ distance(t, h, next) = distance(t, h, i) + 1
  BY Distances
<1> HIDE DEF next
<1>3. ASSUME NEW j \in slots(h, invalid_thread_id) PROVE distance(t, h, next) <= distance(t, h, j)
  <2>1. j \in DOMAIN tables[h] /\ j # i
    BY DEF slots
  <2>2. distance(t, h, j) \in 0..(capacity(h) - 1)
    BY <2>1, Distances
  <2>3. distance(t, h, i) < distance(t, h, j)
    BY <1>1, <1>2, <2>1, <2>2
  <2> QED
    BY <1>1, <1>2, <2>2, <2>3
<1> QED
  BY <1>2, <1>3 DEF next

(***************************************************************************)
(* The other steps.                                                        *)
(***************************************************************************)
(* A lookup that does not find the id in the current table: the thread has no
   producer, or goes on to copy its entry from an older table. *)
LEMMA LookupStep ==
  ASSUME HashInv, NEW t \in Threads, get_or_add_implicit_producer(t)
  PROVE  HashInv'
<1> DEFINE cur == implicitProducerHash
           older == {h \in DOMAIN tables : finds(t, h)}
<1>1. HashTypes /\ EntryFound(t) /\ ListedOrNone(t)
  BY DEF HashInv, ThreadInv
<1>2. /\ DOMAIN tables = 1..Len(tables) /\ Len(tables) \in Nat
      /\ cur \in DOMAIN tables /\ cur \in Nat
  BY <1>1 DEF HashTypes, implicitProducerHash
<1>3. /\ local[t].pc = "out" /\ ~finds(t, cur) /\ UNCHANGED <<tables, listVars, own>>
      /\ implicitProducerHashCount' = implicitProducerHashCount
  BY DEF get_or_add_implicit_producer, at
<1>4. out \in Local /\ out.pc = "out" /\ local[t] \in Local
  BY <1>1, LocalTypes DEF out
<1>5. CASE older = {}
  <2> DEFINE l == [out EXCEPT !.pc = "count", !.main = cur]
  <2>1. l \in Local /\ l.pc = "count" /\ l.main = cur
    BY <1>2, <1>4 DEF Local, Stage, Absent, Looking, out
  <2>2. set(t, l)
    BY <1>5 DEF get_or_add_implicit_producer
  <2>3. \A h \in DOMAIN tables : slots(h, t) = {}
    BY <1>5, FindsWhatIsThere
  <2>4. own[t] = 0
    BY <1>1, <1>3, <2>3 DEF ListedOrNone
  <2> HIDE DEF l, cur
  <2>5. local'[t] = l
    BY <1>1, <2>1, <2>2, LocalTypes
  <2>6. PlaceExists(t)' /\ ProbesFromHash(t)'
    BY <1>2, <1>3, <2>1, <2>5 DEF PlaceExists, ProbesFromHash, at
  <2>7. ListedOrNone(t)'
    <3>1. own'[t] = 0 /\ \A h \in DOMAIN tables' : slots(h, t)' = {}
      BY <1>3, <2>3, <2>4 DEF slots
    <3> QED
      BY <2>1, <2>5, <3>1 DEF ListedOrNone, at
  <2>8. CountFollows(t, l)
    BY <1>3, <2>1 DEF CountFollows
  <2> QED
    BY <1>3, <2>1, <2>2, <2>6, <2>7, <2>8, QuietStep
<1>6. CASE older # {}
  <2> DEFINE h == Max(older)
             i == CHOOSE i \in slots(h, t) : TRUE
             a == hash_thread_id[t] % capacity(cur)
             l == from(t, cur, [out EXCEPT !.pc = "copy", !.producer = tables[h][i].value])
  <2>1. h \in older
    <3>1. older \subseteq 1..Len(tables)
      BY <1>2
    <3> HIDE DEF older
    <3> QED
      BY <1>2, <1>6, <3>1, MaxIsThere
  <2>2. h \in DOMAIN tables /\ slots(h, t) # {}
    BY <2>1, FindsWhatIsThere
  <2>3. set(t, l)
    BY <1>6 DEF get_or_add_implicit_producer
  <2> HIDE DEF h, older, cur
  <2>4. i \in slots(h, t)
    BY <2>2
  <2> HIDE DEF i
  <2>5. tables[h][i].value = own[t]
    BY <1>1, <2>2, <2>4 DEF EntryFound
  <2>6. own[t] # 0 /\ own[t] \in 0..producerListTail
    BY <1>1, <2>2 DEF ListedOrNone, HashTypes
  <2>7. slots(cur, t) = {}
    BY <1>2, <1>3, FindsWhatIsThere
  <2>8. a \in DOMAIN tables[cur] /\ a \in Nat /\ distance(t, cur, a) = 0
    BY <1>1, <1>2, Distances
  <2>9. /\ l \in Local /\ l.pc = "copy" /\ l.hash = cur /\ l.index = a /\ l.producer = own[t]
    <3>1. l = [out EXCEPT !.pc = "copy", !.producer = own[t], !.hash = cur, !.index = a]
      BY <2>5 DEF from, out
    <3> HIDE DEF l, a
    <3> QED
      BY <1>2, <1>4, <2>6, <2>8, <3>1, ZenonT(60) DEF Local, Stage, Absent, Looking, out
  <2> HIDE DEF l, a
  <2>10. local'[t] = l
    BY <1>1, <2>3, <2>9, LocalTypes
  <2>11. PlaceExists(t)'
    BY <1>2, <1>3, <2>8, <2>9, <2>10 DEF PlaceExists, at, Looking
  <2>12. ProbesFromHash(t)'
    <3>1. \A j \in slots(cur, invalid_thread_id) : distance(t, cur, a) <= distance(t, cur, j)
      <4> TAKE j \in slots(cur, invalid_thread_id)
      <4>1. j \in DOMAIN tables[cur]
        BY DEF slots
      <4>2. distance(t, cur, j) \in 0..(capacity(cur) - 1) /\ capacity(cur) \in Nat
        BY <1>1, <1>2, <4>1, Distances, Capacity
      <4> QED
        BY <2>8, <4>2
    <3> QED
      BY <1>3, <2>7, <2>9, <2>10, <3>1 DEF ProbesFromHash, slots, distance, capacity
  <2>13. ListedOrNone(t)'
    BY <1>3, <2>6, <2>9, <2>10 DEF ListedOrNone, at, Looking, Absent
  <2>14. CountFollows(t, l)
    BY <1>3, <2>9 DEF CountFollows
  <2> QED
    BY <1>3, <2>3, <2>9, <2>11, <2>12, <2>13, <2>14, QuietStep
<1> QED
  BY <1>5, <1>6

(* A thread begins to exit; a call that filled a reusable slot ends. *)
LEMMA ExitStep ==
  ASSUME HashInv, NEW t \in Threads, exit(t) \/ uncount(t)
  PROVE  HashInv'
<1>1. HashTypes /\ ListedOrNone(t)
  BY DEF HashInv, ThreadInv
<1>2. /\ DOMAIN tables = 1..Len(tables) /\ Len(tables) \in Nat
      /\ implicitProducerHash \in DOMAIN tables /\ implicitProducerHash \in Nat
      /\ \A h \in DOMAIN tables : ~(h > implicitProducerHash)
  BY <1>1 DEF HashTypes, implicitProducerHash
<1>3. out \in Local /\ out.pc = "out" /\ local[t] \in Local
  BY <1>1, LocalTypes DEF out
<1>4. UNCHANGED <<tables, listVars, own>>
  BY DEF exit, uncount
<1>5. CASE exit(t)
  <2> DEFINE l == [out EXCEPT !.pc = "forget", !.hash = implicitProducerHash]
  <2>1. l \in Local /\ l.pc = "forget" /\ l.hash = implicitProducerHash
    BY <1>2, <1>3 DEF Local, Stage, out
  <2>2. set(t, l) /\ own[t] # 0
    BY <1>5 DEF exit
  <2> HIDE DEF l
  <2>3. local'[t] = l
    BY <1>1, <2>1, <2>2, LocalTypes
  <2>4. PlaceExists(t)' /\ ProbesFromHash(t)'
    BY <1>2, <1>4, <2>1, <2>3 DEF PlaceExists, ProbesFromHash, at, Looking
  <2>5. ListedOrNone(t)'
    BY <1>2, <1>4, <2>1, <2>2, <2>3 DEF ListedOrNone, at, Looking, Absent
  <2>6. CountFollows(t, l)
    BY <1>5, <2>1 DEF CountFollows, exit
  <2> QED
    BY <1>4, <2>1, <2>2, <2>4, <2>5, <2>6, QuietStep
<1>6. CASE uncount(t)
  <2>1. set(t, out) /\ local[t].pc = "uncount"
    BY <1>6 DEF uncount, at
  <2>2. local'[t] = out
    BY <1>1, <1>3, <2>1, LocalTypes
  <2>3. PlaceExists(t)' /\ ProbesFromHash(t)'
    BY <1>3, <2>2 DEF PlaceExists, ProbesFromHash, at, Looking
  <2>4. own[t] # 0 /\ \E h \in DOMAIN tables : slots(h, t) # {}
    BY <1>1, <2>1 DEF ListedOrNone
  <2>5. own'[t] # 0 /\ \E h \in DOMAIN tables' : slots(h, t)' # {}
    BY <1>4, <2>4 DEF slots
  <2>6. ListedOrNone(t)'
    BY <1>3, <2>2, <2>5 DEF ListedOrNone, at, Looking, Absent
  <2>7. CountFollows(t, out)
    BY <1>3, <1>6, <2>1 DEF CountFollows, uncount
  <2> QED
    BY <1>3, <1>4, <2>1, <2>3, <2>6, <2>7, QuietStep
<1> QED
  BY <1>5, <1>6

(* A thread that copies or inserts its entry finds the slot taken and goes on. *)
LEMMA NextSlotStep ==
  ASSUME HashInv, NEW t \in Threads, local[t].pc \in {"copy", "insert"},
         slot(t).key # invalid_thread_id, set(t, nextSlot(local[t])),
         implicitProducerHashCount' = implicitProducerHashCount,
         UNCHANGED <<tables, listVars, own>>
  PROVE  HashInv'
<1> DEFINE h == local[t].hash
           i == local[t].index
           next == (i + 1) % capacity(h)
           l == nextSlot(local[t])
<1>1. HashTypes /\ PlaceExists(t) /\ ProbesFromHash(t) /\ ListedOrNone(t)
  BY DEF HashInv, ThreadInv
<1>2. h \in DOMAIN tables /\ i \in DOMAIN tables[h] /\ tables[h][i].key # invalid_thread_id
  BY <1>1 DEF PlaceExists, slot
<1>3. /\ local[t].producer = own[t] /\ slots(h, t) = {}
      /\ \A j \in slots(h, invalid_thread_id) : distance(t, h, i) <= distance(t, h, j)
  BY <1>1 DEF ProbesFromHash
<1>4. /\ next \in DOMAIN tables[h] /\ next \in Nat
      /\ \A j \in slots(h, invalid_thread_id) : distance(t, h, next) <= distance(t, h, j)
  <2> HIDE DEF h, i
  <2> QED
    BY <1>1, <1>2, <1>3, ProbesOn
<1>5. l = [local[t] EXCEPT !.index = next] /\ local[t] \in Local
  BY <1>1, LocalTypes DEF nextSlot
<1> HIDE DEF next, l
<1>6. /\ l \in Local /\ l.pc = local[t].pc /\ l.hash = h /\ l.index = next
      /\ l.producer = local[t].producer
  BY <1>4, <1>5 DEF Local
<1>7. local'[t] = l
  BY <1>1, <1>6, LocalTypes DEF l
<1>8. PlaceExists(t)'
  BY <1>2, <1>4, <1>6, <1>7 DEF PlaceExists, Looking
<1>9. ProbesFromHash(t)'
  <2> HIDE DEF h
  <2> QED
    BY <1>3, <1>4, <1>6, <1>7 DEF ProbesFromHash, slots, distance, capacity
<1>10. ListedOrNone(t)'
  <2>1. /\ own'[t] = own[t] /\ tables' = tables /\ local'[t].pc = local[t].pc
        /\ local'[t].pc # "forget" /\ \A g : slots(g, t)' = slots(g, t)
    BY <1>6, <1>7 DEF slots
  <2> QED
    BY <1>1, <2>1 DEF ListedOrNone, at
<1>11. CountFollows(t, l)
  BY <1>6 DEF CountFollows
<1> QED
  BY <1>6, <1>8, <1>9, <1>10, <1>11, QuietStep DEF l

(* It finds the slot free and fills it. *)
LEMMA FillStep ==
  ASSUME HashInv, NEW t \in Threads, local[t].pc \in {"copy", "insert"},
         slot(t).key \in {invalid_thread_id, invalid_thread_id2}, fill(t, t, local[t].producer),
         NEW l \in Local, l.pc \in {"out", "uncount"}, set(t, l), CountFollows(t, l),
         UNCHANGED <<listVars, own>>
  PROVE  HashInv'
<1>0. PICK h, i, v : h = local[t].hash /\ i = local[t].index /\ v = local[t].producer
  OBVIOUS
<1>1. HashTypes /\ OneProducerEach /\ ThreadInv(t)
  BY DEF HashInv
<1>2. h \in DOMAIN tables /\ i \in DOMAIN tables[h]
  BY <1>0, <1>1 DEF ThreadInv, PlaceExists
<1>3. /\ v = own[t] /\ slots(h, t) = {} /\ own[t] # 0
      /\ \A j \in slots(h, invalid_thread_id) : distance(t, h, i) <= distance(t, h, j)
  BY <1>0, <1>1 DEF ThreadInv, ProbesFromHash, ListedOrNone
<1>4. v \in 0..MaxProducers
  <2>1. v \in 0..producerListTail /\ producerListTail \in 0..MaxProducers
    BY <1>0, <1>1 DEF HashTypes, Local
  <2> QED
    BY <2>1, HashAssumption
<1>5. /\ Touches(t) /\ tables' \in Seq(Table) /\ Len(tables') = Len(tables)
      /\ \A g \in DOMAIN tables : \A j \in DOMAIN tables[g] :
           tables'[g][j] = IF g = h /\ j = i THEN [key |-> t, value |-> v] ELSE tables[g][j]
  BY <1>0, <1>1, <1>2, <1>4, Filled
<1>6. DOMAIN tables' = DOMAIN tables /\ \A g \in DOMAIN tables : DOMAIN tables'[g] = DOMAIN tables[g]
  BY <1>1, <1>5 DEF HashTypes, Touches
<1>7. /\ local' \in [Threads -> Local] /\ local'[t] = l
      /\ \A u \in Threads \ {t} : local'[u] = local[u]
  BY <1>1, LocalTypes
<1>8. HashTypes'
  <2>1. implicitProducerHashCount' \in Nat /\ implicitProducerHashCount' >= Cardinality(Counted')
    BY <1>1, CountStep
  <2> QED
    BY <1>1, <1>5, <1>7, <2>1 DEF HashTypes, Local, listVars
<1>9. OneProducerEach'
  BY <1>1 DEF OneProducerEach, listVars
<1>10. \A g \in DOMAIN tables : g # h => slots(g, t)' = slots(g, t)
  BY <1>5, <1>6 DEF slots
<1>11. slots(h, t)' = {i} /\ tables'[h][i].value = own'[t]
  BY <1>2, <1>3, <1>5, <1>6 DEF slots
<1>12. i \notin slots(h, invalid_thread_id)'
  BY <1>2, <1>5, IdAssumption DEF slots
<1>13. \A g \in DOMAIN tables : /\ slots(g, invalid_thread_id)' \subseteq slots(g, invalid_thread_id)
                                /\ \A j : distance(t, g, j)' = distance(t, g, j)
  BY <1>5, SameSlots, SameDistance
<1>14. EntryFound(t)'
  <2> SUFFICES ASSUME NEW g \in DOMAIN tables, NEW k \in slots(g, t)'
               PROVE  /\ tables'[g][k].value = own'[t]
                      /\ \A j \in slots(g, t)' : k = j
                      /\ \A j \in slots(g, invalid_thread_id)' : distance(t, g, k)' < distance(t, g, j)'
    BY <1>6 DEF EntryFound
  <2>1. CASE g = h
    <3>1. k = i /\ tables'[g][k].value = own'[t] /\ \A j \in slots(g, t)' : k = j
      BY <1>11, <2>1
    <3>2. ASSUME NEW j \in slots(g, invalid_thread_id)' PROVE distance(t, g, k)' < distance(t, g, j)'
      <4>1. j \in slots(h, invalid_thread_id) /\ j # i /\ j \in DOMAIN tables[h]
        BY <1>2, <1>12, <1>13, <2>1 DEF slots
      <4>2. distance(t, h, i) <= distance(t, h, j)
        BY <1>3, <4>1
      <4>3. /\ distance(t, h, i) \in 0..(capacity(h) - 1) /\ distance(t, h, j) \in 0..(capacity(h) - 1)
            /\ distance(t, h, i) # distance(t, h, j) /\ capacity(h) \in Nat
        BY <1>1, <1>2, <4>1, Distances, Capacity
      <4>4. distance(t, h, i) < distance(t, h, j)
        BY <4>2, <4>3
      <4>5. distance(t, g, k)' = distance(t, h, i) /\ distance(t, g, j)' = distance(t, h, j)
        BY <1>13, <2>1, <3>1
      <4> QED
        BY <4>4, <4>5
    <3> QED
      BY <3>1, <3>2
  <2>2. CASE g # h
    <3>1. slots(g, t)' = slots(g, t) /\ k \in slots(g, t)
      BY <1>10, <2>2
    <3>2. /\ tables[g][k].value = own[t]
          /\ \A j \in slots(g, t) : k = j
          /\ \A j \in slots(g, invalid_thread_id) : distance(t, g, k) < distance(t, g, j)
      BY <1>1, <3>1 DEF ThreadInv, EntryFound
    <3>3. tables'[g][k] = tables[g][k]
      BY <1>5, <2>2, <3>1 DEF slots
    <3>4. \A j \in slots(g, invalid_thread_id)' : distance(t, g, k)' < distance(t, g, j)'
      BY <1>13, <3>2
    <3> QED
      BY <3>1, <3>2, <3>3, <3>4
  <2> QED
    BY <2>1, <2>2
<1>15. PlaceExists(t)' /\ ProbesFromHash(t)'
  BY <1>7 DEF PlaceExists, ProbesFromHash, Looking
<1>16. ListedOrNone(t)'
  <2>1. own'[t] # 0 /\ \E g \in DOMAIN tables' : slots(g, t)' # {}
    BY <1>2, <1>3, <1>6, <1>11
  <2> QED
    BY <1>7, <2>1 DEF ListedOrNone, at, Looking, Absent
<1> QED
  BY <1>5, <1>7, <1>8, <1>9, <1>14, <1>15, <1>16, StepOfOne DEF ThreadInv

(* Both ways to add an entry: from an older table, and for a new producer. *)
LEMMA AddStep ==
  ASSUME HashInv, NEW t \in Threads, copy(t) \/ insert(t)
  PROVE  HashInv'
<1>1. HashTypes
  BY DEF HashInv
<1>2. out \in Local /\ out.pc = "out"
  BY <1>1, LocalTypes DEF out
<1>3. /\ local[t].pc \in {"copy", "insert"} /\ UNCHANGED <<listVars, own>>
      /\ implicitProducerHashCount' = implicitProducerHashCount
  BY DEF copy, insert, at
<1>4. CASE slot(t).key \in {invalid_thread_id, invalid_thread_id2}
  <2> DEFINE again == [out EXCEPT !.pc = "uncount"]
  <2>1. again \in Local /\ again.pc = "uncount"
    BY <1>2 DEF Local, Stage, out
  <2> HIDE DEF again
  <2>2. \E l \in {out, again} : fill(t, t, local[t].producer) /\ set(t, l) /\ (l = again => local[t].pc = "insert")
    <3>1. CASE copy(t)
      BY <1>4, <2>1, <3>1, <1>2 DEF copy
    <3>2. CASE insert(t)
      <4>1. /\ local[t].pc = "insert" /\ fill(t, t, local[t].producer)
            /\ set(t, IF slot(t).key = invalid_thread_id THEN out ELSE again)
        BY <1>4, <3>2 DEF insert, at, again
      <4> QED
        BY <4>1
    <3> QED
      BY <3>1, <3>2
  <2>3. PICK l \in {out, again} : fill(t, t, local[t].producer) /\ set(t, l) /\ (l = again => local[t].pc = "insert")
    BY <2>2
  <2>4. l \in Local /\ l.pc \in {"out", "uncount"} /\ (l.pc = "uncount" => local[t].pc = "insert")
    BY <1>2, <2>1, <2>3
  <2>5. CountFollows(t, l)
    BY <1>3, <2>4 DEF CountFollows
  <2> QED
    BY <1>3, <1>4, <2>3, <2>4, <2>5, FillStep
<1>5. CASE slot(t).key \notin {invalid_thread_id, invalid_thread_id2}
  <2>1. set(t, nextSlot(local[t])) /\ UNCHANGED tables
    BY <1>5 DEF copy, insert
  <2> QED
    BY <1>3, <1>5, <2>1, NextSlotStep
<1> QED
  BY <1>4, <1>5

(* A larger table, or none after all. *)
LEMMA ResizeStep ==
  ASSUME HashInv, NEW t \in Threads, resize(t)
  PROVE  HashInv'
<1>1. HashTypes /\ OneProducerEach /\ ThreadInv(t)
  BY DEF HashInv
<1>2. /\ local[t].pc = "resize" /\ UNCHANGED <<listVars, own>>
      /\ implicitProducerHashCount' = implicitProducerHashCount
  BY DEF resize, at
<1>3. /\ local[t] \in Local /\ local[t].newCount # 0 /\ local[t].main \in DOMAIN tables
      /\ own[t] = 0 /\ \A h \in DOMAIN tables : slots(h, t) = {}
  BY <1>1, <1>2, LocalTypes DEF ThreadInv, PlaceExists, ListedOrNone, Looking, Absent, at
<1>4. CASE halfFull(local[t])
  <2> DEFINE n == newCapacity(local[t])
             l == [local[t] EXCEPT !.pc = "unlock", !.main = Len(tables) + 1]
  <2>1. n \in Nat \ {0, 1}
    BY <1>1, <1>3, NewCapacity
  <2>2. tables' = Append(tables, emptyTable(n)) /\ set(t, l)
    BY <1>4 DEF resize
  <2>3. /\ Touches(t) /\ tables' \in Seq(Table) /\ Len(tables') = Len(tables) + 1
        /\ \A g \in DOMAIN tables : tables'[g] = tables[g]
    <3> HIDE DEF n
    <3> QED
      BY <1>1, <2>1, <2>2, Grown
  <2>4. Len(tables) \in Nat /\ DOMAIN tables' = 1..(Len(tables) + 1)
    BY <1>1, <2>3 DEF HashTypes
  <2>5. /\ l \in Local /\ l.pc = "unlock" /\ l.newCount = local[t].newCount
        /\ l.main = Len(tables) + 1
    <3> DEFINE m == Len(tables) + 1
    <3>1. m \in Nat /\ l = [local[t] EXCEPT !.pc = "unlock", !.main = m]
      BY <2>4
    <3> HIDE DEF m, l
    <3>2. l \in Local /\ l.pc = "unlock" /\ l.newCount = local[t].newCount /\ l.main = m
      BY <1>3, <3>1 DEF Local, Stage, Absent, Looking
    <3> QED
      BY <3>2 DEF m
  <2> HIDE DEF l, n
  <2>6. /\ local' \in [Threads -> Local] /\ local'[t] = l
        /\ \A u \in Threads \ {t} : local'[u] = local[u]
    BY <1>1, <2>2, <2>5, LocalTypes
  <2>7. CountFollows(t, l)
    BY <1>2, <2>5 DEF CountFollows
  <2>8. implicitProducerHashCount' \in Nat /\ implicitProducerHashCount' >= Cardinality(Counted')
    BY <1>1, <2>2, <2>5, <2>7, CountStep
  <2>9. HashTypes'
    BY <1>1, <1>2, <2>3, <2>4, <2>6, <2>8, SMTT(30) DEF HashTypes, Local, listVars
  <2>10. OneProducerEach'
    BY <1>1, <1>2 DEF OneProducerEach, listVars
  <2>11. \A h \in DOMAIN tables' : slots(h, t)' = {}
    <3> TAKE h \in DOMAIN tables'
    <3>1. CASE h \in DOMAIN tables
      BY <1>3, <2>3, <3>1 DEF slots
    <3>2. CASE h \notin DOMAIN tables
      BY <2>3, <3>2 DEF Touches
    <3> QED
      BY <3>1, <3>2
  <2>12. PlaceExists(t)' /\ ProbesFromHash(t)'
    <3>1. l.main \in DOMAIN tables'
      BY <2>4, <2>5
    <3> QED
      BY <2>5, <2>6, <3>1 DEF PlaceExists, ProbesFromHash, at
  <2>13. EntryFound(t)'
    BY <2>11 DEF EntryFound
  <2>14. ListedOrNone(t)'
    BY <1>2, <1>3, <2>5, <2>6, <2>11 DEF ListedOrNone, at
  <2> QED
    BY <1>2, <2>3, <2>6, <2>9, <2>10, <2>12, <2>13, <2>14, StepOfOne DEF ThreadInv
<1>5. CASE ~halfFull(local[t])
  <2> DEFINE l == [local[t] EXCEPT !.pc = "unlock"]
  <2>1. /\ l \in Local /\ l.pc = "unlock" /\ l.newCount = local[t].newCount
        /\ l.main = local[t].main
    BY <1>3 DEF Local, Stage, Absent, Looking
  <2>2. set(t, l) /\ UNCHANGED tables
    BY <1>5 DEF resize
  <2> HIDE DEF l
  <2>3. CountFollows(t, l)
    BY <1>2, <2>1 DEF CountFollows
  <2> QED
    BY <1>2, <1>3, <2>1, <2>2, <2>3, LookingStep DEF Looking
<1> QED
  BY <1>4, <1>5

(* The id of a thread that exits is taken out of one table. *)
LEMMA ForgetStep ==
  ASSUME HashInv, NEW t \in Threads, implicit_producer_thread_exited(t)
  PROVE  HashInv'
<1>0. PICK h : h = local[t].hash
  OBVIOUS
<1> DEFINE l == IF h > 1 THEN [local[t] EXCEPT !.hash = h - 1] ELSE [out EXCEPT !.pc = "deactivate"]
<1>1. HashTypes /\ OneProducerEach /\ ThreadInv(t)
  BY DEF HashInv
<1>2. /\ local[t].pc = "forget" /\ UNCHANGED <<listVars, own>> /\ set(t, l)
      /\ implicitProducerHashCount' = implicitProducerHashCount
  BY <1>0 DEF implicit_producer_thread_exited, at
<1>3. /\ local[t] \in Local /\ out \in Local /\ h \in DOMAIN tables /\ own[t] # 0
      /\ \A g \in DOMAIN tables : g > h => slots(g, t) = {}
  BY <1>0, <1>1, <1>2, LocalTypes DEF ThreadInv, PlaceExists, ListedOrNone, at
<1>4. /\ Touches(t) /\ tables' \in Seq(Table) /\ Len(tables') = Len(tables)
      /\ slots(h, t)' = {} /\ \A g \in DOMAIN tables : slots(g, t)' \subseteq slots(g, t)
      /\ \A g \in DOMAIN tables : \A j \in slots(g, t)' : tables'[g][j] = tables[g][j]
  <2>1. CASE finds(t, h)
    <3> DEFINE i == CHOOSE i \in slots(h, t) : TRUE
               e == [tables[h][i] EXCEPT !.key = invalid_thread_id2]
    <3>1. i \in slots(h, t)
      BY <1>3, <2>1, FindsWhatIsThere
    <3>2. tables' = [tables EXCEPT ![h][i].key = invalid_thread_id2]
      BY <1>0, <2>1 DEF implicit_producer_thread_exited
    <3>3. tables' = [tables EXCEPT ![h][i] = e]
      BY <3>2
    <3>4. PICK k : k = i
      OBVIOUS
    <3>5. PICK x : x = e
      OBVIOUS
    <3>6. k \in slots(h, t) /\ k \in DOMAIN tables[h] /\ tables' = [tables EXCEPT ![h][k] = x]
      BY <3>1, <3>3, <3>4, <3>5 DEF slots
    <3>7. x \in Entry /\ x.key = invalid_thread_id2
      <4>1. tables[h][k] \in Entry /\ x = [tables[h][k] EXCEPT !.key = invalid_thread_id2]
        BY <1>1, <1>3, <3>4, <3>5, <3>6, Capacity
      <4> QED
        BY <4>1 DEF Entry
    <3> HIDE DEF i, e
    <3>8. /\ Touches(t) /\ tables' \in Seq(Table) /\ Len(tables') = Len(tables)
          /\ \A g \in DOMAIN tables : \A j \in DOMAIN tables[g] :
               /\ g = h /\ j = k => tables'[g][j].key = invalid_thread_id2
               /\ ~(g = h /\ j = k) => tables'[g][j] = tables[g][j]
      BY <1>1, <1>3, <3>6, <3>7, Forgotten
    <3>9. \A j \in slots(h, t) : j = k
      BY <1>1, <1>3, <3>6 DEF ThreadInv, EntryFound
    <3>10. \A g \in DOMAIN tables : DOMAIN tables'[g] = DOMAIN tables[g]
      BY <3>8 DEF Touches
    <3>11. ASSUME NEW g \in DOMAIN tables, NEW j \in slots(g, t)'
           PROVE  j \in slots(g, t) /\ tables'[g][j] = tables[g][j] /\ g # h
      <4>1. j \in DOMAIN tables[g] /\ tables'[g][j].key = t
        BY <3>10 DEF slots
      <4>2. ~(g = h /\ j = k)
        BY <3>8, <4>1, IdAssumption
      <4>3. tables'[g][j] = tables[g][j] /\ j \in slots(g, t)
        BY <3>8, <4>1, <4>2 DEF slots
      <4> QED
        BY <3>9, <4>2, <4>3
    <3> QED
      BY <1>3, <3>8, <3>11
  <2>2. CASE ~finds(t, h)
    <3>1. tables' = tables
      BY <1>0, <2>2 DEF implicit_producer_thread_exited
    <3>2. slots(h, t) = {}
      BY <1>3, <2>2, FindsWhatIsThere
    <3>3. \A g : slots(g, t)' = slots(g, t)
      BY <3>1 DEF slots
    <3> QED
      BY <1>1, <3>1, <3>2, <3>3, NotTouched
  <2> QED
    BY <2>1, <2>2
<1>5. DOMAIN tables' = DOMAIN tables /\ DOMAIN tables = 1..Len(tables) /\ Len(tables) \in Nat
  BY <1>1, <1>4 DEF HashTypes
<1>6. /\ l \in Local /\ l.pc \in {"forget", "deactivate"}
      /\ l.pc = "forget" => h > 1 /\ l.hash = h - 1
      /\ l.pc = "deactivate" => ~(h > 1)
  <2>1. CASE h > 1
    <3> DEFINE m == h - 1
    <3>1. m \in Nat /\ l = [local[t] EXCEPT !.hash = m]
      BY <1>3, <1>5, <2>1
    <3> HIDE DEF m, l
    <3>2. l \in Local /\ l.pc = "forget" /\ l.hash = m
      BY <1>2, <1>3, <3>1 DEF Local
    <3> QED
      BY <2>1, <3>2 DEF m
  <2>2. CASE ~(h > 1)
    <3>1. l = [out EXCEPT !.pc = "deactivate"]
      BY <2>2
    <3> HIDE DEF l
    <3> QED
      BY <1>3, <2>2, <3>1 DEF Local, Stage, Absent, out
  <2> QED
    BY <2>1, <2>2
<1>7. PICK m : m = l
  OBVIOUS
<1> HIDE DEF l
<1>8. m \in Local /\ set(t, m) /\ CountFollows(t, m)
  BY <1>2, <1>6, <1>7 DEF CountFollows
<1>9. /\ local' \in [Threads -> Local] /\ local'[t] = m
      /\ \A u \in Threads \ {t} : local'[u] = local[u]
  BY <1>1, <1>8, LocalTypes
<1>10. HashTypes'
  <2>1. implicitProducerHashCount' \in Nat /\ implicitProducerHashCount' >= Cardinality(Counted')
    BY <1>1, <1>8, CountStep
  <2> QED
    BY <1>1, <1>2, <1>4, <1>9, <2>1 DEF HashTypes, Local, listVars
<1>11. OneProducerEach'
  BY <1>1, <1>2 DEF OneProducerEach, listVars
<1>12. EntryFound(t)'
  <2> SUFFICES ASSUME NEW g \in DOMAIN tables, NEW k \in slots(g, t)'
               PROVE  /\ tables'[g][k].value = own'[t]
                      /\ \A j \in slots(g, t)' : k = j
                      /\ \A j \in slots(g, invalid_thread_id)' : distance(t, g, k)' < distance(t, g, j)'
    BY <1>5 DEF EntryFound
  <2>1. /\ k \in slots(g, t) /\ tables'[g][k] = tables[g][k]
    BY <1>4
  <2>2. /\ tables[g][k].value = own[t]
        /\ \A j \in slots(g, t) : k = j
        /\ \A j \in slots(g, invalid_thread_id) : distance(t, g, k) < distance(t, g, j)
    BY <1>1, <2>1 DEF ThreadInv, EntryFound
  <2>3. /\ slots(g, invalid_thread_id)' \subseteq slots(g, invalid_thread_id)
        /\ \A j : distance(t, g, j)' = distance(t, g, j)
    BY <1>4, SameSlots, SameDistance
  <2> QED
    BY <1>2, <1>4, <2>1, <2>2, <2>3
<1>13. PlaceExists(t)' /\ ProbesFromHash(t)'
  <2>1. m.pc = "forget" => m.hash \in DOMAIN tables'
    BY <1>3, <1>5, <1>6, <1>7
  <2> QED
    BY <1>6, <1>7, <1>9, <2>1 DEF PlaceExists, ProbesFromHash, Looking
<1>14. ListedOrNone(t)'
  <2>1. \A g \in DOMAIN tables' : g >= h => slots(g, t)' = {}
    <3> TAKE g \in DOMAIN tables'
    <3>1. CASE g = h
      BY <1>4, <3>1
    <3>2. CASE g > h
      BY <1>3, <1>4, <1>5, <3>2
    <3> QED
      BY <1>3, <1>5, <3>1, <3>2
  <2>2. m.pc = "forget" => \A g \in DOMAIN tables' : g > m.hash => slots(g, t)' = {}
    BY <1>3, <1>5, <1>6, <1>7, <2>1
  <2>3. m.pc = "deactivate" => \A g \in DOMAIN tables' : slots(g, t)' = {}
    BY <1>3, <1>5, <1>6, <1>7, <2>1
  <2>4. own'[t] # 0 /\ m.pc \in {"forget", "deactivate"}
    BY <1>2, <1>3, <1>6, <1>7
  <2> QED
    BY <1>9, <2>2, <2>3, <2>4 DEF ListedOrNone, at, Looking, Absent
<1> QED
  BY <1>2, <1>4, <1>9, <1>10, <1>11, <1>12, <1>13, <1>14, StepOfOne DEF ThreadInv

(* A thread gets a producer that nobody has: one that was inactive, or a new one. *)
LEMMA SubscribeStep ==
  ASSUME HashInv, NEW t \in Threads, local[t].pc \in {"recycle", "scan"},
         NEW p \in 1..producerListTail', subscribe(t, p), UNCHANGED tables,
         implicitProducerHashCount' = implicitProducerHashCount,
         producerListTail' \in 0..MaxProducers, producerListTail <= producerListTail',
         inactive' \subseteq inactive, p \notin inactive', \A u \in Threads : own[u] # p
  PROVE  HashInv'
<1>1. HashTypes /\ OneProducerEach /\ ThreadInv(t)
  BY DEF HashInv
<1>2. /\ local[t] \in Local /\ local[t].main \in DOMAIN tables
      /\ own[t] = 0 /\ \A h \in DOMAIN tables : slots(h, t) = {}
  BY <1>1, LocalTypes DEF ThreadInv, PlaceExists, ListedOrNone, Looking, Absent, at
<1>3. PICK h : h = local[t].main
  OBVIOUS
<1>4. PICK a : a = hash_thread_id[t] % capacity(h)
  OBVIOUS
<1>5. a \in DOMAIN tables[h] /\ a \in Nat /\ distance(t, h, a) = 0 /\ h \in DOMAIN tables /\ h \in Nat
  BY <1>1, <1>2, <1>3, <1>4, Distances DEF HashTypes
<1>6. PICK l : l = from(t, h, [out EXCEPT !.pc = "insert", !.producer = p])
  OBVIOUS
<1>7. l = [pc |-> "insert", main |-> 0, hash |-> h, index |-> a, newCount |-> 0, producer |-> p]
  BY <1>4, <1>6 DEF from, out
<1>8. local' = [local EXCEPT ![t] = l] /\ own' = [own EXCEPT ![t] = p]
  BY <1>3, <1>6 DEF subscribe, set
<1>9. /\ producerListTail \in 0..MaxProducers /\ producerListTail' \in Nat
      /\ \A x \in 0..producerListTail : x \in 0..producerListTail'
      /\ \A x \in 1..producerListTail : x \in 1..producerListTail'
  BY <1>1, HashAssumption DEF HashTypes
<1>10. local' \in [Threads -> Local'] /\ local'[t] = l /\ \A u \in Threads \ {t} : local'[u] = local[u]
  <2>1. local \in [Threads -> Local]
    BY <1>1 DEF HashTypes
  <2>2. ASSUME NEW k \in Local PROVE k \in Local'
    BY <1>9 DEF Local
  <2>3. l \in Local'
    <3>1. p \in 0..producerListTail' /\ "insert" \in Stage
      BY <1>9 DEF Stage, Absent
    <3> QED
      BY <1>5, <1>7, <3>1 DEF Local
  <2> QED
    BY <1>8, <2>1, <2>2, <2>3
<1>11. /\ own' \in [Threads -> 0..producerListTail'] /\ own'[t] = p /\ p # 0
       /\ \A u \in Threads \ {t} : own'[u] = own[u]
  <2>1. own \in [Threads -> 0..producerListTail]
    BY <1>1 DEF HashTypes
  <2> QED
    BY <1>8, <1>9, <2>1
<1>12. HashTypes'
  <2>1. t \in Counted
    BY DEF Counted
  <2>2. implicitProducerHashCount' \in Nat /\ implicitProducerHashCount' >= Cardinality(Counted')
    BY <1>1, <1>10, <2>1, CountCovers
  <2>3. inactive' \subseteq 1..producerListTail'
    BY <1>1, <1>9 DEF HashTypes
  <2>4. tables' \in Seq(Table) /\ Len(tables') > 0
    BY <1>1, NotTouched
  <2> QED
    BY <1>10, <1>11, <2>2, <2>3, <2>4 DEF HashTypes
<1>13. Touches(t)
  BY <1>1, NotTouched
<1>14. OneProducerEach'
  <2>1. \A u \in Threads : own'[u] \notin inactive'
    BY <1>1, <1>11 DEF OneProducerEach
  <2>2. \A u, w \in Threads : u # w /\ own'[u] # 0 => own'[u] # own'[w]
    BY <1>1, <1>11 DEF OneProducerEach
  <2> QED
    BY <2>1, <2>2 DEF OneProducerEach
<1>15. \A g : slots(g, t)' = slots(g, t)
  BY DEF slots
<1>16. EntryFound(t)'
  BY <1>2, <1>15 DEF EntryFound
<1>17. PlaceExists(t)'
  BY <1>5, <1>7, <1>10 DEF PlaceExists, Looking, at
<1>18. ProbesFromHash(t)'
  <2>1. \A j \in slots(h, invalid_thread_id) : distance(t, h, a) <= distance(t, h, j)
    <3> TAKE j \in slots(h, invalid_thread_id)
    <3>1. j \in DOMAIN tables[h]
      BY DEF slots
    <3>2. distance(t, h, j) \in 0..(capacity(h) - 1) /\ capacity(h) \in Nat
      BY <1>1, <1>5, <3>1, Distances, Capacity
    <3> QED
      BY <1>5, <3>2
  <2>2. local'[t].hash = h /\ local'[t].index = a /\ local'[t].producer = own'[t]
    BY <1>7, <1>10, <1>11
  <2>3. slots(h, t) = {}
    BY <1>2, <1>5
  <2> QED
    BY <2>1, <2>2, <2>3 DEF ProbesFromHash, slots, distance, capacity
<1>19. ListedOrNone(t)'
  <2>1. local'[t].pc = "insert" /\ own'[t] # 0 /\ \A g \in DOMAIN tables' : slots(g, t)' = {}
    BY <1>2, <1>7, <1>10, <1>11, <1>15
  <2> QED
    BY <2>1 DEF ListedOrNone, at, Looking
<1> QED
  BY <1>10, <1>11, <1>12, <1>13, <1>14, <1>16, <1>17, <1>18, <1>19, StepOfOne DEF ThreadInv

(* recycle_or_create_producer. *)
LEMMA ProducerStep ==
  ASSUME HashInv, NEW t \in Threads, recycle(t) \/ add_producer(t)
  PROVE  HashInv'
<1>1. HashTypes /\ OneProducerEach /\ ThreadInv(t)
  BY DEF HashInv
<1>2. /\ local[t].pc \in {"recycle", "scan"} /\ UNCHANGED tables
      /\ implicitProducerHashCount' = implicitProducerHashCount
  BY DEF recycle, add_producer
<1>3. /\ local[t] \in Local /\ producerListTail \in 0..MaxProducers
      /\ inactive \subseteq 1..producerListTail /\ own \in [Threads -> 0..producerListTail]
      /\ local[t].main \in DOMAIN tables
  BY <1>1, <1>2, LocalTypes DEF HashTypes, ThreadInv, PlaceExists, Looking, at
<1>4. PICK p : p = candidate(t)
  OBVIOUS
<1>5. p \in 0..producerListTail
  <2>1. local[t].producer \in 0..producerListTail /\ producerListTail \in 0..producerListTail
    BY <1>3 DEF Local
  <2> QED
    BY <1>4, <2>1 DEF candidate
<1>6. CASE recycle(t) /\ p \in inactive
  <2>1. /\ inactive' = inactive \ {p} /\ subscribe(t, p) /\ producerListTail' = producerListTail
    BY <1>4, <1>6 DEF recycle
  <2>2. \A u \in Threads : own[u] # p
    BY <1>1, <1>6 DEF OneProducerEach
  <2>3. p \in 1..producerListTail'
    BY <1>3, <1>6, <2>1
  <2>4. producerListTail' \in 0..MaxProducers /\ producerListTail <= producerListTail'
    BY <1>3, <2>1
  <2>5. inactive' \subseteq inactive /\ p \notin inactive'
    BY <2>1
  <2> QED
    BY <1>2, <2>1, <2>2, <2>3, <2>4, <2>5, SubscribeStep
<1>7. CASE recycle(t) /\ p \notin inactive
  <2>1. PICK l : l = [local[t] EXCEPT !.pc = "scan", !.producer = p - 1]
    OBVIOUS
  <2>2. set(t, l) /\ UNCHANGED <<listVars, own>> /\ p # 0
    BY <1>4, <1>7, <2>1 DEF recycle, listVars
  <2>3. PICK q : q = p - 1
    OBVIOUS
  <2>4. q \in 0..producerListTail
    BY <1>3, <1>5, <2>2, <2>3
  <2>5. l \in Local /\ l.pc = "scan" /\ l.main = local[t].main
    BY <1>3, <2>1, <2>3, <2>4 DEF Local, Stage, Absent, Looking
  <2>6. CountFollows(t, l)
    BY <1>2, <2>5 DEF CountFollows
  <2> QED
    BY <1>2, <1>3, <2>2, <2>5, <2>6, LookingStep DEF Looking
<1>8. CASE add_producer(t)
  <2>1. PICK q : q = producerListTail + 1
    OBVIOUS
  <2>2. /\ producerListTail' = q /\ subscribe(t, q) /\ inactive' = inactive /\ producerListTail < MaxProducers
    BY <1>8, <2>1 DEF add_producer
  <2>3. /\ q \in 1..producerListTail' /\ producerListTail' \in 0..MaxProducers
        /\ producerListTail <= producerListTail' /\ q \notin 0..producerListTail
    BY <1>3, <2>1, <2>2, HashAssumption
  <2>4. q \notin inactive' /\ inactive' \subseteq inactive /\ \A u \in Threads : own[u] # q
    <3>1. \A x \in 1..producerListTail : x \in 0..producerListTail
      BY <1>3
    <3> QED
      BY <1>3, <2>2, <2>3, <3>1
  <2> QED
    BY <1>2, <2>2, <2>3, <2>4, SubscribeStep
<1> QED
  BY <1>6, <1>7, <1>8

(* The producer of a thread that has exited may be recycled. *)
LEMMA DeactivateStep ==
  ASSUME HashInv, NEW t \in Threads, deactivate(t)
  PROVE  HashInv'
<1>1. HashTypes /\ OneProducerEach /\ ThreadInv(t)
  BY DEF HashInv
<1>2. /\ local[t].pc = "deactivate" /\ UNCHANGED <<tables, producerListTail>> /\ set(t, out)
      /\ inactive' = inactive \cup {own[t]} /\ own' = [own EXCEPT ![t] = 0]
      /\ implicitProducerHashCount' = implicitProducerHashCount
  BY DEF deactivate, at
<1>3. own[t] # 0 /\ \A h \in DOMAIN tables : slots(h, t) = {}
  BY <1>1, <1>2 DEF ThreadInv, ListedOrNone, Absent
<1>4. /\ out.pc = "out" /\ local' \in [Threads -> Local] /\ local'[t] = out
      /\ \A u \in Threads \ {t} : local'[u] = local[u]
  BY <1>1, <1>2, LocalTypes DEF out
<1>5. /\ own \in [Threads -> 0..producerListTail] /\ inactive \subseteq 1..producerListTail
      /\ producerListTail \in Nat
  BY <1>1, HashAssumption DEF HashTypes
<1>6. /\ own' \in [Threads -> 0..producerListTail] /\ own'[t] = 0
      /\ \A u \in Threads \ {t} : own'[u] = own[u]
  BY <1>2, <1>5
<1>7. inactive' \subseteq 1..producerListTail
  <2>1. own[t] \in 0..producerListTail
    BY <1>5
  <2>2. own[t] \in 1..producerListTail
    BY <1>3, <1>5, <2>1
  <2> QED
    BY <1>2, <1>5, <2>2
<1>8. HashTypes'
  <2>1. t \notin Counted'
    BY <1>4 DEF Counted, at
  <2>2. implicitProducerHashCount' \in Nat /\ implicitProducerHashCount' >= Cardinality(Counted')
    BY <1>1, <1>2, <1>4, <2>1, CountCovers
  <2> QED
    BY <1>1, <1>2, <1>4, <1>6, <1>7, <2>2 DEF HashTypes, Local
<1>9. Touches(t)
  BY <1>1, <1>2, NotTouched
<1>10. OneProducerEach'
  <2>1. ASSUME NEW u \in Threads PROVE own'[u] \notin inactive'
    <3>1. 0 \notin inactive'
      BY <1>7
    <3>2. CASE u # t
      BY <1>1, <1>2, <1>3, <1>6, <3>2 DEF OneProducerEach
    <3> QED
      BY <1>6, <3>1, <3>2
  <2>2. \A u, w \in Threads : u # w /\ own'[u] # 0 => own'[u] # own'[w]
    BY <1>1, <1>6 DEF OneProducerEach
  <2> QED
    BY <2>1, <2>2 DEF OneProducerEach
<1>11. \A h \in DOMAIN tables' : slots(h, t)' = {}
  BY <1>2, <1>3 DEF slots
<1>12. EntryFound(t)'
  BY <1>11 DEF EntryFound
<1>13. PlaceExists(t)' /\ ProbesFromHash(t)'
  BY <1>4 DEF PlaceExists, ProbesFromHash, Looking
<1>14. ListedOrNone(t)'
  BY <1>4, <1>6, <1>11 DEF ListedOrNone, at, Looking
<1> QED
  BY <1>4, <1>6, <1>8, <1>9, <1>10, <1>12, <1>13, <1>14, StepOfOne DEF ThreadInv

(***************************************************************************)
(* The theorems.                                                           *)
(***************************************************************************)
LEMMA HashInitially == Init => HashInv
<1> SUFFICES ASSUME Init PROVE HashInv
  OBVIOUS
<1>1. InitialSize \in Nat \ {0, 1}
  <2>1. PICK k \in 1..10 : InitialSize = twoTo[k]
    BY HashAssumption
  <2>2. k \in Nat /\ twoTo[k] \in Nat /\ twoTo[k] >= k + 1
    BY TwoTo, TwoToGrows
  <2> QED
    BY <2>1, <2>2
<1>2. PICK e : e = emptyTable(InitialSize)
  OBVIOUS
<1>3. e \in [0..(InitialSize - 1) -> Entry] /\ \A i \in DOMAIN e : e[i].key = invalid_thread_id
  BY <1>2, HashAssumption DEF emptyTable, Entry
<1>4. e \in Table /\ tables = <<e>>
  BY <1>1, <1>2, <1>3 DEF Table, Init
<1>5. tables \in Seq(Table) /\ Len(tables) = 1 /\ DOMAIN tables = {1} /\ tables[1] = e
  BY <1>4
<1>6. out.pc = "out" /\ out \in Local
  BY DEF Init, out, Local, Stage
<1>7. local \in [Threads -> Local] /\ \A t \in Threads : local[t].pc = "out" /\ own[t] = 0
  BY <1>6 DEF Init
<1>8. HashTypes
  <2>1. Counted = {}
    BY <1>7 DEF Counted, at
  <2>2. Cardinality(Counted) = 0
    BY <2>1, FS_EmptySet
  <2> QED
    BY <1>5, <1>7, <2>2, HashAssumption DEF HashTypes, Init
<1>9. OneProducerEach
  BY <1>7 DEF OneProducerEach, Init
<1>10. ASSUME NEW t \in Threads PROVE ThreadInv(t)
  <2>1. \A h \in DOMAIN tables : slots(h, t) = {}
    BY <1>3, <1>5, IdAssumption DEF slots
  <2> QED
    BY <1>7, <2>1 DEF ThreadInv, PlaceExists, EntryFound, ProbesFromHash, ListedOrNone, at, Looking
<1> QED
  BY <1>8, <1>9, <1>10 DEF HashInv

LEMMA HashNext == HashInv /\ [Next]_vars => HashInv'
<1> SUFFICES ASSUME HashInv, [Next]_vars PROVE HashInv'
  OBVIOUS
<1>1. ASSUME NEW t \in Threads, get_or_add_implicit_producer(t) PROVE HashInv'
  BY <1>1, LookupStep
<1>2. ASSUME NEW t \in Threads, exit(t) PROVE HashInv'
  BY <1>2, ExitStep
<1>3. ASSUME NEW t \in Threads, Step(t) PROVE HashInv'
  <2>1. CASE copy(t) \/ insert(t)
    BY <2>1, AddStep
  <2>2. CASE \/ countOne(t) \/ lockResize(t) \/ noResize(t) \/ reload(t)
             \/ unlockResize(t) \/ resizeFails(t) \/ createFails(t)
    BY <2>2, LookingActions
  <2>3. CASE resize(t)
    BY <2>3, ResizeStep
  <2>4. CASE recycle(t) \/ add_producer(t)
    BY <2>4, ProducerStep
  <2>5. CASE uncount(t)
    BY <2>5, ExitStep
  <2>6. CASE implicit_producer_thread_exited(t)
    BY <2>6, ForgetStep
  <2>7. CASE deactivate(t)
    BY <2>7, DeactivateStep
  <2> QED
    BY <1>3, <2>1, <2>2, <2>3, <2>4, <2>5, <2>6, <2>7 DEF Step
<1>4. CASE UNCHANGED vars
  <2>1. /\ UNCHANGED <<tables, implicitProducerHashCount, producerListTail, inactive, own, local>>
    BY <1>4 DEF vars, listVars
  <2> QED
    BY <2>1 DEF HashInv, HashTypes, OneProducerEach, ThreadInv, PlaceExists, EntryFound,
                ProbesFromHash, ListedOrNone, Local, Counted, at, slots, distance, capacity
<1> QED
  BY <1>1, <1>2, <1>3, <1>4 DEF Next

LEMMA HashInvImplies == HashInv => OwnProducer
<1> SUFFICES ASSUME HashInv PROVE OwnProducer
  OBVIOUS
<1>1. HashTypes /\ OneProducerEach /\ \A t \in Threads : EntryFound(t)
  BY DEF HashInv, ThreadInv
<1>2. \A h \in DOMAIN tables : \A i \in DOMAIN tables[h] : tables[h][i] \in Entry
  BY <1>1, Capacity
<1>3. TypeOK
  <2>1. own \in [Threads -> 0..MaxProducers]
    <3>1. own \in [Threads -> 0..producerListTail] /\ producerListTail \in 0..MaxProducers
      BY <1>1 DEF HashTypes
    <3>2. \A x \in 0..producerListTail : x \in 0..MaxProducers
      BY <3>1, HashAssumption
    <3> QED
      BY <3>1, <3>2
  <2> QED
    BY <1>1, <1>2, <2>1 DEF TypeOK, HashTypes, Entry
<1>4. \A h \in DOMAIN tables : \A i \in DOMAIN tables[h] :
        tables[h][i].key \in Threads => tables[h][i].value = own[tables[h][i].key]
  <2> SUFFICES ASSUME NEW h \in DOMAIN tables, NEW i \in DOMAIN tables[h], tables[h][i].key \in Threads
               PROVE  tables[h][i].value = own[tables[h][i].key]
    OBVIOUS
  <2>1. i \in slots(h, tables[h][i].key)
    BY DEF slots
  <2> QED
    BY <1>1, <2>1 DEF EntryFound
<1> QED
  BY <1>1, <1>3, <1>4 DEF OwnProducer, OneProducerEach

(* In every reachable state the tables, the producers and the places of the
   threads in their calls fit together as HashInv says. *)
THEOREM HashInvariant == Spec => []HashInv
BY HashInitially, HashNext, PTL DEF Spec

(* However many threads look up, resize, insert, fail and exit at the same time,
   and however their hashes collide: what get_or_add_implicit_producer finds
   under the id of a thread is the producer this thread has subscribed, and no
   two threads enqueue through one producer. *)
THEOREM ProducerIsOwn == Spec => []OwnProducer
BY HashInvariant, HashInvImplies, PTL
=============================================================================
