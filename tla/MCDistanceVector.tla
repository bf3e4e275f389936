--------------------------- MODULE MCDistanceVector ---------------------------
(***************************************************************************)
(* DistanceVector for TLC: the topology of the runs.                       *)
(***************************************************************************)
EXTENDS DistanceVector

CONSTANTS r1, r2, h1

\* The cost matrix of a set of links <<n, m, cost>>.
CostsOf(L) ==
  [n \in Nodes |-> [m \in Nodes |->
     IF \E l \in L : {l[1], l[2]} = {n, m}
     THEN (CHOOSE l \in L : {l[1], l[2]} = {n, m})[3] ELSE 0]]

\* A triangle of a host and two routers: the direct link of h1 and r2 is a
\* detour.
DetourCosts == CostsOf({<<h1, r1, 1>>, <<r1, r2, 1>>, <<h1, r2, 5>>})
=============================================================================
