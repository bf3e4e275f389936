----------------------------- MODULE Semaphore -----------------------------
(***************************************************************************)
(* What a counting semaphore promises: a wait takes only permits that were *)
(* signalled and not taken before, whatever threads call it.  The queues   *)
(* of the program sleep on such a semaphore.                               *)
(***************************************************************************)
EXTENDS Naturals

CONSTANT MaxBulk   \* permits that one call signals or takes at most
VARIABLE permits   \* signalled and not yet taken

Init == permits = 0

(* A call signals n permits. *)
Signal(n) == permits' = permits + n

(* A call takes n permits, which must be there. *)
Wait(n) == permits >= n /\ permits' = permits - n

Next == \E n \in 1..MaxBulk : Signal(n) \/ Wait(n)

Spec == Init /\ [][Next]_permits
============================================================================
