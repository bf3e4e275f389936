----------------------- MODULE MCImplicitProducerHash -----------------------
(* Instances of ImplicitProducerHash for TLC: hashes that collide and wrap around. *)
EXTENDS ImplicitProducerHash, TLC

CONSTANTS t1, t2, t3
hashes == t1 :> 3 @@ t2 :> 7 @@ t3 :> 2
=============================================================================
