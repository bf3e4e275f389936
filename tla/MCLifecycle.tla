----------------------------- MODULE MCLifecycle -----------------------------
(***************************************************************************)
(* Lifecycle for TLC: the network of the runs.                             *)
(***************************************************************************)
EXTENDS Lifecycle

CONSTANTS r1, r2, h1

\* A host at one of two routers.
HostAndTwoRouters == {{h1, r1}, {r1, r2}}
=============================================================================
