---------------------------- MODULE MCTCPTransfer ----------------------------
(***************************************************************************)
(* TCPTransfer for TLC: one file of 5 bytes, or one of 3 and one of 5,     *)
(* sent in packets of 2 bytes.                                             *)
(***************************************************************************)
EXTENDS TCPTransfer

OneFile == [f \in {"a"} |-> 5]
TwoFiles == [f \in {"a", "b"} |-> IF f = "a" THEN 3 ELSE 5]
=============================================================================
