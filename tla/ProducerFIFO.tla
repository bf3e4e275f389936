---------------------------- MODULE ProducerFIFO ----------------------------
(***************************************************************************)
(* What the queue promises for the elements of one producer: consumers     *)
(* take them in the order in which they were put in, none lost, none given *)
(* to two consumers.  A consumer may find nothing although an element is   *)
(* there.  The models of the nodes use the queues by this promise.         *)
(***************************************************************************)
EXTENDS Sequences, Naturals

CONSTANTS Consumers, Elements, MaxBulk
VARIABLES
  queue,   \* elements put in and not taken
  taken    \* the elements each consumer got with the call it is in

Init == queue = <<>> /\ taken = [c \in Consumers |-> <<>>]

(* The producer puts in one or more elements. *)
Put ==
  /\ Len(queue') \in (Len(queue) + 1)..(Len(queue) + MaxBulk)
  /\ SubSeq(queue', 1, Len(queue)) = queue
  /\ queue' \in Seq(Elements)
  /\ UNCHANGED taken

(* The call of a consumer returns. *)
Return(c) == taken' = [taken EXCEPT ![c] = <<>>] /\ UNCHANGED queue

(* A consumer takes the first n elements. *)
Take(c, n) ==
  /\ n <= Len(queue)
  /\ taken' = [taken EXCEPT ![c] = SubSeq(queue, 1, n)]
  /\ queue' = SubSeq(queue, n + 1, Len(queue))

Next == Put \/ \E c \in Consumers : Return(c) \/ \E n \in 1..MaxBulk : Take(c, n)

Spec == Init /\ [][Next]_<<queue, taken>>
=============================================================================
