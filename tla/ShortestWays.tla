----------------------------- MODULE ShortestWays -----------------------------
(***************************************************************************)
(* The reference that routing tables are compared with: the costs of the   *)
(* ways through a network.  links[n][m] is the set of the costs of the     *)
(* links from n to m, empty where there is none; nodes is the set of all   *)
(* nodes and routers the set of those that pass packets on.                *)
(***************************************************************************)
EXTENDS Integers, FiniteSets

\* The ways w, and those with one more link at the front.
Longer(w, links, nodes, routers) ==
  [n \in nodes |-> [d \in nodes |->
     w[n][d] \cup UNION {{l + c : l \in links[n][j], c \in w[j][d]} : j \in routers}]]

\* The ways with at most k + 1 links, for each k.
WaysOver(links, nodes, routers) ==
  LET W[k \in Nat] == IF k = 0 THEN links ELSE Longer(W[k - 1], links, nodes, routers)
  IN  W

\* A shortest way passes no node twice.
AllWays(links, nodes, routers) ==
  WaysOver(links, nodes, routers)[Cardinality(nodes) - 1]
=============================================================================
