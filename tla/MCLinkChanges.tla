---------------------------- MODULE MCLinkChanges ----------------------------
(***************************************************************************)
(* LinkChanges for TLC: the routers can be exchanged for one another.      *)
(***************************************************************************)
EXTENDS LinkChanges, TLC

CONSTANTS r1, r2, h1

Perms == Permutations(Routers)
=============================================================================
